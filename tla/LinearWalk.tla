----------------------------- MODULE LinearWalk -----------------------------
(***************************************************************************)
(* The linear discipline of the checker's body walk: the move-state of the *)
(* locals (check/engine.rs, Moves and Scope), the terms that move values   *)
(* (check/terms.rs), the blocks and arms and their join                    *)
(* (check_branch_join, check_eliminator_call), and the end of a body.      *)
(*                                                                         *)
(* The walk reads a body term by term, so the terms are chosen as it goes: *)
(* each action is one term handler.  Beside the checker the module runs    *)
(* the body: the variables from `mode' on are one execution of the terms   *)
(* walked so far.  Where the checker walks every arm of a conditional, the *)
(* execution picks one (`pick') when the arms open, and skips the others.  *)
(* It works on resources, not on types, and records a `fault' as soon as   *)
(* it uses a value that was given away.                                    *)
(*                                                                         *)
(* Types are reduced to what the discipline reads of them: is_linear.      *)
(***************************************************************************)
EXTENDS Naturals, Sequences

CONSTANTS
  Names,      \* the local names a body may bind
  Effects,    \* the declared effects, records [ins, outs] of type sequences
  MaxStack,   \* bound on the depth of the stack
  MaxDepth,   \* bound on the nesting of blocks
  MaxArms,    \* bound on the variants of an enum
  MaxMade     \* bound on the resources one execution creates

Types == {"copy", "linear"}

ASSUME EffectsAssumption == Effects \subseteq [ins : Seq(Types), outs : Seq(Types)]
ASSUME BoundsAssumption ==
  MaxStack \in Nat /\ MaxDepth \in Nat /\ MaxArms \in Nat /\ MaxMade \in Nat

VARIABLES
  status,     \* "walking", or the verdict of the checker
  effect,     \* the declared effect of the word
  stack,      \* the types on the checker's stack, top last
  level,      \* level[n]: the block that bound n, 0 when n is not in scope
  moves,      \* the move-state of the linear names; "absent" for the others
  frames,     \* the open blocks: calls, branches and eliminators
  tailed,     \* the last term was the self-tail-call of the word
  mode,       \* the execution runs, skips an arm, or took the back-edge
  skipped,    \* the frame whose current arm the execution skips
  vals,       \* the values on the stack of the execution: a resource, or 0
  env,        \* the values of the locals of the execution
  alive,      \* the resources created and not yet disposed
  made,       \* the number of resources created
  fault       \* the execution used a value it no longer owned

checker == <<status, effect, stack, level, moves, frames, tailed>>
machine == <<mode, skipped, vals, env, alive, made, fault>>
vars == <<checker, machine>>

MoveStates == {"absent", "live", "moved", "maybe"}
NoMoves == [n \in Names |-> "absent"]

-----------------------------------------------------------------------------
(* Sequences used as stacks, top last.                                     *)

Top(s) == s[Len(s)]
Pop(s) == SubSeq(s, 1, Len(s) - 1)
Below(s, n) == SubSeq(s, 1, Len(s) - n)
TopN(s, n) == SubSeq(s, Len(s) - n + 1, Len(s))

\* swap is the rotation of the two top values, rot of the three
Rotate(s, k) ==
  [i \in 1..Len(s) |-> IF i <= Len(s) - k THEN s[i]
                       ELSE IF i = Len(s) THEN s[Len(s) - k + 1] ELSE s[i + 1]]

-----------------------------------------------------------------------------
(* The move-state lattice: Moves of check/engine.rs.                       *)

\* a mutant: only a name consumed on every path is refused
TakeableUnlessMoved(m, n) == m[n] # "moved"

\* take succeeds on a Copy name (absent) and on the first mention
Takeable(m, n) == m[n] \in {"absent", "live"}
Take(m, n) == [m EXCEPT ![n] = IF @ = "live" THEN "moved" ELSE @]

\* a mutant: a name one arm consumed counts as consumed
JoinStateOptimistic(a, b) == IF a = b THEN a ELSE "moved"

\* Moves::join of one name
JoinState(a, b) == IF a = b THEN a ELSE "maybe"

Join(a, b) == [n \in Names |-> JoinState(a[n], b[n])]

\* a mutant: a name consumed on one path only counts as consumed
UnconsumedLiveOnly(m) == {n \in Names : m[n] = "live"}

\* Moves::unconsumed
Unconsumed(m) == {n \in Names : m[n] \in {"live", "maybe"}}

\* Scope::leave: the names bound past depth d go out of scope
Inside(d) == {n \in Names : level[n] > d}

\* a mutant: the names an arm binds are not purged from the move-state
LeaveMovesUnpurged(d) == moves

LeaveMoves(d) == [n \in Names |-> IF level[n] > d THEN "absent" ELSE moves[n]]
LeaveLevel(d) == [n \in Names |-> IF level[n] > d THEN 0 ELSE level[n]]
Leaks(d) == Unconsumed(moves) \cap Inside(d)

-----------------------------------------------------------------------------
(* The state of the walk.                                                  *)

Frames == [stack : Seq(Types), moves : [Names -> MoveStates],
           arms : Nat, arm : Nat, pick : Nat,
           base : Seq(Types), joined : [Names -> MoveStates],
           sealed : BOOLEAN]

Depth == Len(frames)
Frame == frames[Depth]
Running == mode = "run"

Walking == status = "walking"

\* the walk may go on to another term: nothing follows a self-tail-call
Open == Walking /\ ~tailed

Reject == status' = "rejected" /\ UNCHANGED <<effect, stack, level, moves, frames, tailed, machine>>

\* what a term leaves alone
SameBlocks == UNCHANGED <<status, effect, level, frames, tailed>>
SameRun == UNCHANGED <<mode, skipped>>

\* the execution disposes value v of a slot of type t
Dispose(t, v) ==
  /\ alive' = alive \ {v}
  /\ fault' = (fault \/ (t = "linear" /\ v \notin alive))

Init ==
  /\ status = "walking"
  /\ effect \in Effects
  /\ stack = effect.ins
  /\ level = [n \in Names |-> 0]
  /\ moves = NoMoves
  /\ frames = << >>
  /\ tailed = FALSE
  /\ mode = "run"
  /\ skipped = 0
  /\ vals = [i \in 1..Len(effect.ins) |-> IF effect.ins[i] = "linear" THEN i ELSE 0]
  /\ env = [n \in Names |-> 0]
  /\ alive = {i \in 1..Len(effect.ins) : effect.ins[i] = "linear"}
  /\ made = Len(effect.ins)
  /\ fault = FALSE

-----------------------------------------------------------------------------
(* Terms that push, pop and reorder.                                       *)

\* a literal, or a word that returns a Copy value
Literal ==
  /\ Open /\ Len(stack) < MaxStack
  /\ stack' = Append(stack, "copy")
  /\ vals' = IF Running THEN Append(vals, 0) ELSE vals
  /\ SameBlocks /\ SameRun /\ UNCHANGED <<moves, env, alive, made, fault>>

\* a constructor, or a word that returns a linear value
Produce ==
  /\ Open /\ Len(stack) < MaxStack /\ made < MaxMade
  /\ stack' = Append(stack, "linear")
  /\ IF Running
     THEN /\ made' = made + 1
          /\ vals' = Append(vals, made + 1)
          /\ alive' = alive \cup {made + 1}
     ELSE UNCHANGED <<made, vals, alive>>
  /\ SameBlocks /\ SameRun /\ UNCHANGED <<moves, env, fault>>

\* a word with one linear input: the callee disposes of the value
Consume ==
  /\ Open
  /\ IF Len(stack) = 0 \/ Top(stack) # "linear"
     THEN Reject
     ELSE /\ stack' = Pop(stack)
          /\ IF Running
             THEN vals' = Pop(vals) /\ Dispose("linear", Top(vals))
             ELSE UNCHANGED <<vals, alive, fault>>
          /\ SameBlocks /\ SameRun /\ UNCHANGED <<moves, env, made>>

\* `drop' takes a value of any type
Drop ==
  /\ Open
  /\ IF Len(stack) = 0
     THEN Reject
     ELSE /\ stack' = Pop(stack)
          /\ IF Running
             THEN vals' = Pop(vals) /\ Dispose(Top(stack), Top(vals))
             ELSE UNCHANGED <<vals, alive, fault>>
          /\ SameBlocks /\ SameRun /\ UNCHANGED <<moves, env, made>>

\* a mutant: the copy of a value is not gated on Copy
CopyAny(k) ==
  /\ Open /\ Len(stack) < MaxStack
  /\ IF Len(stack) < k
     THEN Reject
     ELSE /\ stack' = Append(stack, stack[Len(stack) - k + 1])
          /\ vals' = IF Running THEN Append(vals, vals[Len(stack) - k + 1]) ELSE vals
          /\ SameBlocks /\ SameRun /\ UNCHANGED <<moves, env, alive, made, fault>>

\* `dup' (k = 1) and `over' (k = 2): only a Copy value is copied
Copy(k) ==
  /\ Open /\ Len(stack) < MaxStack
  /\ IF Len(stack) < k \/ stack[Len(stack) - k + 1] # "copy"
     THEN Reject
     ELSE /\ stack' = Append(stack, stack[Len(stack) - k + 1])
          /\ vals' = IF Running THEN Append(vals, vals[Len(stack) - k + 1]) ELSE vals
          /\ SameBlocks /\ SameRun /\ UNCHANGED <<moves, env, alive, made, fault>>

\* `swap' (k = 2) and `rot' (k = 3) move values of any type
Reorder(k) ==
  /\ Open
  /\ IF Len(stack) < k
     THEN Reject
     ELSE /\ stack' = Rotate(stack, k)
          /\ vals' = IF Running THEN Rotate(vals, k) ELSE vals
          /\ SameBlocks /\ SameRun /\ UNCHANGED <<moves, env, alive, made, fault>>

-----------------------------------------------------------------------------
(* Locals.                                                                 *)

\* `| n |': binds the top of the stack; a name in scope is not bound again
Bind(n) ==
  /\ Open
  /\ IF level[n] # 0 \/ Len(stack) = 0
     THEN Reject
     ELSE /\ stack' = Pop(stack)
          /\ level' = [level EXCEPT ![n] = Depth + 1]
          /\ moves' = [moves EXCEPT ![n] = IF Top(stack) = "linear" THEN "live" ELSE "absent"]
          /\ IF Running
             THEN env' = [env EXCEPT ![n] = Top(vals)] /\ vals' = Pop(vals)
             ELSE UNCHANGED <<env, vals>>
          /\ SameRun
          /\ UNCHANGED <<status, effect, frames, tailed, alive, made, fault>>

\* naming a local: a linear one is moved out of its place
Name(n) ==
  /\ Open /\ level[n] # 0 /\ Len(stack) < MaxStack
  /\ IF ~Takeable(moves, n)
     THEN Reject
     ELSE /\ moves' = Take(moves, n)
          /\ stack' = Append(stack, IF moves[n] = "absent" THEN "copy" ELSE "linear")
          /\ IF Running
             THEN /\ vals' = Append(vals, env[n])
                  /\ env' = [env EXCEPT ![n] = 0]
                  /\ fault' = (fault \/ (moves[n] # "absent" /\ env[n] \notin alive))
             ELSE UNCHANGED <<vals, env, fault>>
          /\ SameBlocks /\ SameRun /\ UNCHANGED <<alive, made>>

-----------------------------------------------------------------------------
(* Blocks.  A `call' of a literal is a block of one arm; `branch' has two  *)
(* and an eliminator one per variant.  Every arm starts from the state in  *)
(* front of the block.                                                     *)

OpenArms(st, arms, pick) ==
  /\ frames' = Append(frames, [stack |-> st, moves |-> moves,
                               arms |-> arms, arm |-> 1, pick |-> pick,
                               base |-> << >>, joined |-> NoMoves,
                               sealed |-> FALSE])
  /\ stack' = st
  /\ mode' = IF Running /\ pick # 1 THEN "skip" ELSE mode
  /\ skipped' = IF Running /\ pick # 1 THEN Depth + 1 ELSE skipped
  /\ UNCHANGED <<status, effect, level, moves, tailed, env, alive, made, fault>>

\* an execution that does not reach the block has no arm to pick
Picks(arms) == IF Running THEN 1..arms ELSE {1}

\* `branch' takes its flag; the execution goes one way or the other
Branch(pick) ==
  /\ Open /\ Depth < MaxDepth /\ pick \in Picks(2)
  /\ IF Len(stack) = 0 \/ Top(stack) # "copy"
     THEN Reject
     ELSE /\ OpenArms(Pop(stack), 2, pick)
          /\ vals' = IF Running THEN Pop(vals) ELSE vals

\* `call' of a literal (one arm) and the eliminator of an enum; the arms
\* receive the scrutinee where it lies on the stack
Eliminate(arms, pick) ==
  /\ Open /\ Depth < MaxDepth /\ pick \in Picks(arms)
  /\ OpenArms(stack, arms, pick)
  /\ UNCHANGED vals

\* the state the arms so far leave: check_branch_join, check_eliminator_call
ArmMoves == LeaveMoves(Depth)
JoinedMoves == IF Frame.arm = 1 THEN ArmMoves ELSE Join(Frame.joined, ArmMoves)
JoinedStack == IF Frame.arm = 1 THEN stack ELSE Frame.base

ArmsDisagree == Frame.arm > 1 /\ stack # Frame.base

\* a name of the arm is gone from the execution that ran the arm
LeaveEnv == env' = IF Running THEN [n \in Names |-> IF level[n] >= Depth + 1 THEN 0 ELSE env[n]]
                   ELSE env

\* an arm ends and another follows
NextArm ==
  /\ Walking /\ Depth > 0 /\ Frame.arm < Frame.arms
  /\ IF Leaks(Depth) # {} \/ ArmsDisagree
     THEN Reject
     ELSE /\ frames' = [frames EXCEPT ![Depth].arm = @ + 1,
                                      ![Depth].base = JoinedStack,
                                      ![Depth].joined = JoinedMoves,
                                      ![Depth].sealed = @ \/ tailed]
          /\ stack' = Frame.stack
          /\ moves' = Frame.moves
          /\ level' = LeaveLevel(Depth)
          /\ tailed' = FALSE
          /\ LeaveEnv
          /\ mode' = IF Running THEN "skip"
                     ELSE IF mode = "skip" /\ skipped = Depth /\ Frame.arm + 1 = Frame.pick
                          THEN "run" ELSE mode
          /\ skipped' = IF Running THEN Depth ELSE skipped
          /\ UNCHANGED <<status, effect, vals, alive, made, fault>>

\* the last arm ends: the block leaves what its arms agree on
Close ==
  /\ Walking /\ Depth > 0 /\ Frame.arm = Frame.arms
  /\ IF Leaks(Depth) # {} \/ ArmsDisagree
     THEN Reject
     ELSE /\ frames' = SubSeq(frames, 1, Depth - 1)
          /\ stack' = JoinedStack
          /\ moves' = JoinedMoves
          /\ level' = LeaveLevel(Depth)
          /\ tailed' = (tailed \/ Frame.sealed)
          /\ LeaveEnv
          /\ mode' = IF mode = "skip" /\ skipped = Depth THEN "run" ELSE mode
          /\ UNCHANGED <<status, effect, skipped, vals, alive, made, fault>>

-----------------------------------------------------------------------------
(* The self-tail-call of the word, and the end of its body.                *)

\* a mutant: only the stack below the arguments is looked at
LinearAcrossEdgeStackOnly(n) == \E i \in 1..(Len(stack) - n) : stack[i] = "linear"

\* check_linear_across_back_edge, with no frame floor
LinearAcrossEdge(n) ==
  \/ \E i \in 1..(Len(stack) - n) : stack[i] = "linear"
  \/ Unconsumed(moves) # {}

\* the edge carries the arguments and drops the frame
BackEdge ==
  LET n == Len(effect.ins) IN
  /\ Open
  /\ IF \/ Len(stack) < n
        \/ TopN(stack, n) # effect.ins
        \/ LinearAcrossEdge(n)
     THEN Reject
     ELSE /\ Len(stack) - n + Len(effect.outs) <= MaxStack
          /\ stack' = Below(stack, n) \o effect.outs
          /\ tailed' = TRUE
          /\ IF Running
             THEN /\ mode' = "looped"
                  /\ vals' = TopN(vals, n)
                  /\ env' = [m \in Names |-> 0]
             ELSE UNCHANGED <<mode, vals, env>>
          /\ UNCHANGED <<status, effect, level, moves, frames, skipped, alive, made, fault>>

\* a mutant: the outputs are counted and not compared
OutputsCounted == Len(stack) = Len(effect.outs)
OutputsAgree == stack = effect.outs

\* check_outputs, then leave_block of the body
Finish ==
  /\ Walking /\ Depth = 0
  /\ IF ~OutputsAgree \/ Leaks(0) # {}
     THEN Reject
     ELSE /\ status' = "accepted"
          /\ level' = LeaveLevel(0)
          /\ moves' = LeaveMoves(0)
          /\ env' = IF Running THEN [n \in Names |-> 0] ELSE env
          /\ UNCHANGED <<effect, stack, frames, tailed, mode, skipped, vals, alive, made, fault>>

Next ==
  \/ Literal
  \/ Produce
  \/ Consume
  \/ Drop
  \/ \E k \in 1..2 : Copy(k)
  \/ \E k \in 2..3 : Reorder(k)
  \/ \E n \in Names : Bind(n)
  \/ \E n \in Names : Name(n)
  \/ \E pick \in 1..2 : Branch(pick)
  \/ \E arms \in 1..MaxArms : \E pick \in 1..arms : Eliminate(arms, pick)
  \/ NextArm
  \/ Close
  \/ BackEdge
  \/ Finish

Spec == Init /\ [][Next]_vars

-----------------------------------------------------------------------------
(* Properties.                                                             *)

Held == ({vals[i] : i \in 1..Len(vals)} \cup {env[n] : n \in Names}) \ {0}

\* Every variable keeps its type; a frame records whole walk states.
TypeOK ==
  /\ status \in {"walking", "accepted", "rejected"}
  /\ effect \in Effects
  /\ stack \in Seq(Types)
  /\ level \in [Names -> Nat]
  /\ moves \in [Names -> MoveStates]
  /\ frames \in Seq(Frames)
  /\ tailed \in BOOLEAN
  /\ mode \in {"run", "skip", "looped"}
  /\ skipped \in Nat
  /\ vals \in Seq(Nat)
  /\ env \in [Names -> Nat]
  /\ alive \in SUBSET Nat
  /\ made \in Nat
  /\ fault \in BOOLEAN

\* No execution of the terms walked so far uses a value it gave away: a
\* moved local is not named again on any path (use_after_move_error), and
\* what a word consumes is alive.
NoUseAfterMove == fault = FALSE

\* Whatever is alive is in the hands of the execution, on its stack or in a
\* local: no block end, join, back-edge or body end loses a linear value
\* (leave_block, linear_across_back_edge_error, surplus_linear_value_error).
NoLeak == alive = Held

\* A resource has one holder: naming, binding, shuffling and joining never
\* leave two ways to reach one linear value, so none is disposed twice.
UniqueHolder ==
  /\ \A i, j \in 1..Len(vals) : vals[i] = vals[j] /\ vals[i] # 0 => i = j
  /\ \A m, n \in Names : env[m] = env[n] /\ env[m] # 0 => m = n
  /\ \A i \in 1..Len(vals), n \in Names : vals[i] = env[n] => vals[i] = 0

\* When the body is accepted and this execution reaches its end, exactly the
\* declared linear outputs are alive, and each is where it is declared.
AcceptedReturnsAll ==
  status = "accepted" /\ mode = "run" =>
    /\ Len(vals) = Len(effect.outs)
    /\ \A i \in 1..Len(vals) : vals[i] # 0 <=> effect.outs[i] = "linear"
    /\ alive = {vals[i] : i \in 1..Len(vals)} \ {0}

\* Moves::join indexes the other arm's map by the names of the first: at the
\* end of every later arm the two maps hold the same names, so it never
\* panics and never forgets a name.
JoinTotal ==
  Walking /\ Depth > 0 /\ Frame.arm > 1 =>
    \A n \in Names : Frame.joined[n] = "absent" <=> ArmMoves[n] = "absent"

\* An execution of a walked body keeps the contract of Ownership: whatever
\* the checker lets through, at every step of every path the resources are
\* created, reachable, disposed of and delivered as that module says.
Returned == status = "accepted" /\ mode = "run"
Spent == 1..made \ alive
Delivered ==
  IF Returned THEN {vals[i] : i \in {j \in 1..Len(vals) : effect.outs[j] = "linear"}} ELSE {}
Contract == INSTANCE Ownership WITH
  held <- Held, spent <- Spent, delivered <- Delivered, returned <- Returned
KeepsContract == Contract!Spec
=============================================================================
