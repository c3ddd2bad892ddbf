----------------------------- MODULE LoopSplice -----------------------------
(***************************************************************************)
(* A call of an always-spliced word (a combinator) with two quotation      *)
(* literals that capture one linear local of the caller.  The checker      *)
(* rejects splices that never end (check_combinator_cycles), walks each    *)
(* literal once as an argument (check_literal_against_declared_effect) and *)
(* once more where the body of the combinator calls it (inline_combinator).*)
(* The tail walk of check/drop_graph.rs decides which literals are `arms', *)
(* and arms may consume the captured local.  Beside it the module runs the *)
(* accepted splice, whose self-tail-call is a loop.                        *)
(*                                                                         *)
(* A body is straight line, one `branch', straight line; its terms call a  *)
(* literal (p or q) or the combinator itself (self).                       *)
(***************************************************************************)
EXTENDS Naturals, Sequences

CONSTANTS
  Bodies,     \* the bodies of the combinator: records [pre, then, else, post] of Lines
  MaxTurns    \* bound on the iterations of its loop

Slots == {"p", "q"}
Lines == Seq(Slots \cup {"self"})

ASSUME LoopSpliceAssumption ==
  Bodies \subseteq [pre : Lines, then : Lines, else : Lines, post : Lines] /\ MaxTurns \in Nat

Literals == {"keeps", "consumes", "on one path"}

VARIABLES
  body,       \* the combinator
  inline,     \* its quotation parameters are inline-only (`~')
  lits,       \* what each literal does with the captured local
  status,     \* the stage of the check, then of the execution
  moves,      \* the move-state of the captured local
  pending,    \* the terms the execution has yet to run
  turns,      \* the iterations so far
  runs,       \* how often each literal ran since the call
  disposed    \* how often the captured local was disposed

spliceVars == <<body, inline, lits, status, moves, pending, turns, runs, disposed>>

MoveStates == {"live", "moved", "maybe"}

-----------------------------------------------------------------------------
(* The tail walk.                                                          *)

LastOf(line) == IF line = << >> THEN {} ELSE {line[Len(line)]}

\* the terms in tail position: the last one, or the last of both arms
TailHits(b) == IF b.post = << >> THEN LastOf(b.then) \cup LastOf(b.else) ELSE LastOf(b.post)

\* tail_called_param_slots
TailCalled(b) == TailHits(b) \cap Slots

Occurrences(line) == {i \in DOMAIN line : line[i] = "self"}
NotLast(line) == \E i \in Occurrences(line) : i < Len(line)

\* has_self_tail_call
SelfTail(b) == "self" \in TailHits(b)

\* check_combinator_cycles: a self-call out of tail position keeps its edge
Cyclic(b) ==
  \/ Occurrences(b.pre) # {}
  \/ \E line \in {b.then, b.else, b.post} : NotLast(line)
  \/ b.post # << >> /\ Occurrences(b.then) \cup Occurrences(b.else) # {}

\* a loop that calls a literal in tail position, in the arm that ends it
LoopingArm(b) == SelfTail(b) /\ TailCalled(b) # {}

-----------------------------------------------------------------------------
(* The check.                                                              *)

\* the walk of a literal: its second consumption is a use after move
LitRefused(s, m) == lits[s] # "keeps" /\ m # "live"
LitMoves(s, m) ==
  IF lits[s] = "consumes" THEN "moved" ELSE IF lits[s] = "on one path" THEN "maybe" ELSE m

\* a mutant: every inline-only literal may consume
IsArmInline(s) == inline

\* the literal runs in tail position and may consume an outer local
IsArm(s) == inline /\ s \in TailCalled(body)

\* an arm is walked again by the splice, so its probe leaves no trace
ProbeMoves(s, m) == IF IsArm(s) THEN m ELSE LitMoves(s, m)

\* R12: any other literal may run any number of times
ProbeRefused(s, m) == LitRefused(s, m) \/ (~IsArm(s) /\ m = "live" /\ LitMoves(s, m) # "live")

\* a mutant: a local one arm consumed counts as consumed
JoinOptimistic(a, b) == IF a = b THEN a ELSE "moved"

Join(a, b) == IF a = b THEN a ELSE "maybe"

\* the states of a walk; "refused" once a term was refused.  The back-edge
\* exempts the locals below the frame floor, the captured one among them
WalkTerm(m, t) ==
  IF m = "refused" THEN m
  ELSE IF t = "self" THEN m
  ELSE IF LitRefused(t, m) THEN "refused" ELSE LitMoves(t, m)

\* check_terms_relaxed: a line is walked term by term
WalkLine(m, line) ==
  LET after[i \in 0..Len(line)] == IF i = 0 THEN m ELSE WalkTerm(after[i - 1], line[i])
  IN  after[Len(line)]

WalkBranch(m, b) ==
  LET then == WalkLine(m, b.then)
      else == WalkLine(m, b.else)
  IN  IF "refused" \in {then, else} THEN "refused" ELSE Join(then, else)

WalkBody(m, b) == WalkLine(WalkBranch(WalkLine(m, b.pre), b), b.post)

SpliceInit ==
  /\ body \in Bodies
  /\ inline \in BOOLEAN
  /\ lits \in [Slots -> Literals]
  /\ status = "defined"
  /\ moves = "live"
  /\ pending = << >>
  /\ turns = 0
  /\ runs = [s \in Slots |-> 0]
  /\ disposed = 0

\* check_combinator_cycles
CheckCycles ==
  /\ status = "defined"
  /\ status' = IF Cyclic(body) THEN "rejected" ELSE "probe p"
  /\ UNCHANGED <<body, inline, lits, moves, pending, turns, runs, disposed>>

\* check_poly_combinator_args: the literals in the order of the parameters
Probe(s, now, next) ==
  /\ status = now
  /\ IF ProbeRefused(s, moves)
     THEN status' = "rejected" /\ UNCHANGED moves
     ELSE status' = next /\ moves' = ProbeMoves(s, moves)
  /\ UNCHANGED <<body, inline, lits, pending, turns, runs, disposed>>

\* inline_combinator, then the end of the caller: a local consumed on one
\* path only is refused there
Splice ==
  LET m == WalkBody(moves, body) IN
  /\ status = "splice"
  /\ IF m \in {"refused", "maybe"}
     THEN status' = "rejected" /\ UNCHANGED <<moves, pending>>
     ELSE /\ status' = "run" /\ moves' = m
          /\ pending' = body.pre \o <<"branch">> \o body.post
  /\ UNCHANGED <<body, inline, lits, turns, runs, disposed>>

-----------------------------------------------------------------------------
(* The execution.                                                          *)

\* a literal runs; on one path it may leave the local alone
Call(s) ==
  /\ status = "run" /\ pending # << >> /\ Head(pending) = s
  /\ pending' = Tail(pending)
  /\ runs' = [runs EXCEPT ![s] = @ + 1]
  /\ \E d \in {0, 1} :
       /\ (lits[s] = "keeps" => d = 0) /\ (lits[s] = "consumes" => d = 1)
       /\ disposed' = disposed + d
  /\ UNCHANGED <<body, inline, lits, status, moves, turns>>

Branch(arm) ==
  /\ status = "run" /\ pending # << >> /\ Head(pending) = "branch"
  /\ pending' = arm \o Tail(pending)
  /\ UNCHANGED <<body, inline, lits, status, moves, turns, runs, disposed>>

\* the self-tail-call jumps to the header of the loop
Again ==
  /\ status = "run" /\ pending # << >> /\ Head(pending) = "self" /\ turns < MaxTurns
  /\ turns' = turns + 1
  /\ pending' = body.pre \o <<"branch">> \o body.post
  /\ UNCHANGED <<body, inline, lits, status, moves, runs, disposed>>

\* the caller disposes of the local if the checker left it to it
Return ==
  /\ status = "run" /\ pending = << >>
  /\ status' = "returned"
  /\ disposed' = IF moves = "live" THEN disposed + 1 ELSE disposed
  /\ UNCHANGED <<body, inline, lits, moves, pending, turns, runs>>

SpliceNext ==
  \/ CheckCycles
  \/ Probe("p", "probe p", "probe q")
  \/ Probe("q", "probe q", "splice")
  \/ Splice
  \/ \E s \in Slots : Call(s)
  \/ Branch(body.then)
  \/ Branch(body.else)
  \/ Again
  \/ Return

SpliceSpec == SpliceInit /\ [][SpliceNext]_spliceVars

-----------------------------------------------------------------------------
(* Properties.                                                             *)

\* Every variable keeps its type; a refused walk never becomes a state.
SpliceTypeOK ==
  /\ body \in Bodies /\ inline \in BOOLEAN /\ lits \in [Slots -> Literals]
  /\ status \in {"defined", "probe p", "probe q", "splice", "run", "returned", "rejected"}
  /\ moves \in MoveStates
  /\ pending \in Seq(Slots \cup {"self", "branch"})
  /\ turns \in 0..MaxTurns /\ runs \in [Slots -> Nat] /\ disposed \in Nat

\* However often a splice loops, it never disposes of the captured local
\* twice -- where a literal may run again, R12 refused its consumption --, and
\* when an accepted call returns, the local was disposed of exactly once, by
\* the literal that ran or by the caller.
DisposedOnce == disposed <= 1 /\ (status = "returned" => disposed = 1)

\* check.rs: an arm "runs at most once per entry", so that the consumption
\* R12 exempts is a single one.
ArmRunsAtMostOnce ==
  \A s \in Slots :
    status \in {"run", "returned"} /\ IsArm(s) /\ lits[s] = "consumes" => runs[s] <= 1

=============================================================================
