---------------------------- MODULE LoopBuilder ----------------------------
(* The loops of one lowered word (ir/func_builder/mod.rs): begin_loop,       *)
(* finalize_loop and the state of the open loop that is saved and restored   *)
(* around a nested one, as the builder opens blocks, forks, builds           *)
(* aggregates and takes back-edges in any order.  When the word is complete  *)
(* its blocks run, beside `truth`, which is what each value would be if a    *)
(* back-edge rebound all carried values at once.                             *)
EXTENDS Naturals, Sequences, FiniteSets, SequencesExt

CONSTANTS
  Kinds,     \* bound: the inputs of the word, sequences of kinds of value
  MaxLoops,  \* bound on the loops opened
  MaxForks,  \* bound on the forks, each of which ends in a back-edge
  MaxValues  \* bound on the values of the word

\* "phantom" is a quotation known at compile time: no code defines it
ValueKinds == {"scalar", "aggregate", "phantom"}

VARIABLES
  kinds,    \* value -> its kind
  code,     \* block -> its instructions
  goes,     \* block -> the blocks its terminator may lead to
  cur, header, home, slots, edges, saved,  \* the fields of the builder
  scope,    \* the values a term can name here
  waiting,  \* the other block of each fork whose back-edge is still to come
  forks,
  carries,  \* block that ends in a jump to a header -> <<what it rebinds, to what>>
  at,       \* the block that runs next; 0 while the word is being built
  store, truth,
  ran, again  \* the blocks that have run, and that one of them allocated twice

building == <<kinds, code, goes, cur, header, home, slots, edges, saved, scope, waiting, forks, carries>>
running == <<at, store, truth, ran, again>>
loopVars == <<building, running>>

Add(instrs, block) == [code EXCEPT ![block] = @ \o instrs]
Fresh(n) == [k \in 1..n |-> Len(kinds) + k]
Alloc(v) == [op |-> "alloc", dst |-> v, from |-> {}]
Blit(src, dst) == [op |-> "blit", dst |-> dst, from |-> {src}]
Fill(v) == [op |-> "fill", dst |-> v, from |-> {}]
Phi(dst, arms) == [op |-> "phi", dst |-> dst, from |-> arms]

Loop == [header |-> header, home |-> home, slots |-> slots, edges |-> edges]
SetLoop(l) == header' = l.header /\ home' = l.home /\ slots' = l.slots /\ edges' = l.edges
-----------------------------------------------------------------------------
(* Opening a loop.                                                           *)

\* the values the body reads in place of the parameters, and the temporaries
Outs(params) == [k \in DOMAIN params |->
  IF kinds[params[k]] = "phantom" THEN params[k] ELSE Len(kinds) + 2 * k - 1]
Temp(k) == Len(kinds) + 2 * k

HomeOfEntry == cur   \* mutant: every loop's preheader is its home
AllocaHome == IF home = 0 THEN cur ELSE home
SeedAtHome == AllocaHome   \* mutant
SeedBlock == cur

\* begin_loop, behind save_loop_state; the header is the next block
BeginLoop(params) ==
  LET outs == Outs(params)
      h == Len(code) + 1
      each(kind, Instrs(_)) ==
        FlattenSeq([k \in DOMAIN params |-> IF kinds[params[k]] = kind THEN Instrs(k) ELSE <<>>])
      storage == each("aggregate", LAMBDA k : <<Alloc(outs[k]), Alloc(Temp(k))>>)
      seeds == each("aggregate", LAMBDA k : <<Blit(params[k], outs[k])>>)
      phis == each("scalar", LAMBDA k : <<Phi(outs[k], {<<cur, params[k]>>})>>)
  IN /\ saved' = Append(saved, Loop)
     /\ header' = h /\ home' = AllocaHome /\ edges' = {}
     /\ slots' = [k \in DOMAIN params |-> [kind |-> kinds[params[k]], out |-> outs[k], temp |-> Temp(k)]]
     /\ code' = Append([b \in DOMAIN code |->
          code[b] \o (IF b = AllocaHome THEN storage ELSE <<>>) \o (IF b = SeedBlock THEN seeds ELSE <<>>)], phis)
     /\ goes' = Append([goes EXCEPT ![cur] = {h}], {})
     /\ kinds' = kinds \o [i \in 1..2 * Len(params) |-> kinds[params[(i + 1) \div 2]]]
     /\ cur' = h
     /\ scope' = scope \cup ToSet(outs)
     /\ carries' = (cur :> <<outs, params>>) @@ carries
     /\ UNCHANGED <<waiting, forks, running>>

Headers == UNION {goes[b] : b \in DOMAIN carries}

\* the loop a self-tail-call of the word opens, over all inputs
OpenWord ==
  /\ Len(code) = 1
  /\ BeginLoop([k \in 1..Len(kinds) |-> k])

\* a splice opens one over what is on the stack
OpenSplice ==
  /\ header # 0 /\ Cardinality(Headers) < MaxLoops
  /\ \E n \in 1..2 : \E params \in [1..n -> scope] :
       Len(kinds) + 2 * n <= MaxValues /\ BeginLoop(params)
-----------------------------------------------------------------------------
(* The body of a loop.                                                       *)

\* a condition: one way leads on to a back-edge, the other waits
Fork ==
  /\ header # 0 /\ forks < MaxForks
  /\ LET b == Len(code) IN
     /\ code' = code \o <<<<>>, <<>>>>
     /\ goes' = [goes EXCEPT ![cur] = {b + 1, b + 2}] \o <<{}, {}>>
     /\ cur' = b + 1
     /\ waiting' = Append(waiting, <<header, b + 2, scope>>)
  /\ forks' = forks + 1
  /\ UNCHANGED <<kinds, header, home, slots, edges, saved, scope, carries, running>>

\* a constructor: the storage is hoisted, the contents are written here
Build ==
  /\ header # 0 /\ Len(kinds) < MaxValues
  /\ LET v == Len(kinds) + 1 IN
     /\ kinds' = Append(kinds, "aggregate")
     /\ code' = [code EXCEPT ![home] = Append(@, Alloc(v)), ![cur] = Append(@, Fill(v))]
     /\ scope' = scope \cup {v}
  /\ UNCHANGED <<goes, cur, header, home, slots, edges, saved, waiting, forks, carries, running>>

Pending == waiting # <<>> /\ waiting[Len(waiting)][1] = header

\* a self-tail-call in an arm of the loop, and on to the other arm
BackEdge == \E args \in [DOMAIN slots -> scope] :
  /\ Pending
  /\ \A k \in DOMAIN slots :
       IF slots[k].kind = "phantom" THEN args[k] = slots[k].out ELSE kinds[args[k]] = slots[k].kind
  /\ edges' = edges \cup {<<cur, args>>}
  /\ goes' = [goes EXCEPT ![cur] = {header}]
  /\ carries' = (cur :> <<[k \in DOMAIN slots |-> slots[k].out], args>>) @@ carries
  /\ cur' = waiting[Len(waiting)][2] /\ scope' = waiting[Len(waiting)][3]
  /\ waiting' = Front(waiting)
  /\ UNCHANGED <<kinds, code, header, home, slots, saved, forks, running>>

\* finalize_loop: the staging blits of one back-edge, but for a slot passed on in place
Each(args, Instrs(_)) == FlattenSeq([k \in DOMAIN slots |->
  IF slots[k].kind = "aggregate" /\ args[k] # slots[k].out THEN Instrs(k) ELSE <<>>])
StagingInTurn(args) ==   \* mutant: each slot is read and written before the next
  Each(args, LAMBDA k : <<Blit(args[k], slots[k].temp), Blit(slots[k].temp, slots[k].out)>>)
Staging(args) ==
  Each(args, LAMBDA k : <<Blit(args[k], slots[k].temp)>>)
  \o Each(args, LAMBDA k : <<Blit(slots[k].temp, slots[k].out)>>)

Patched(phi) == [phi EXCEPT !.from = @ \cup
  {<<e[1], e[2][k]>> : e \in edges, k \in {j \in DOMAIN slots : slots[j].out = phi.dst}}]

\* finalize_loop, then restore_loop_state
CloseLoop ==
  /\ header # 0 /\ ~Pending /\ edges # {}
  /\ code' = [b \in DOMAIN code |->
       (IF b = header THEN [i \in DOMAIN code[b] |-> IF code[b][i].op = "phi" THEN Patched(code[b][i]) ELSE code[b][i]]
                      ELSE code[b])
       \o (IF \E e \in edges : e[1] = b THEN Staging((CHOOSE e \in edges : e[1] = b)[2]) ELSE <<>>)]
  /\ SetLoop(saved[Len(saved)])
  /\ saved' = Front(saved)
  /\ UNCHANGED <<kinds, goes, cur, scope, waiting, forks, carries, running>>
-----------------------------------------------------------------------------
(* Running the blocks.                                                       *)

Unset == 0
New == 99   \* what a constructor writes

Do(values, i) ==
  CASE i.op = "alloc" -> [values EXCEPT ![i.dst] = Unset]
    [] i.op = "fill" -> [values EXCEPT ![i.dst] = New]
    [] i.op = "blit" -> [values EXCEPT ![i.dst] = values[CHOOSE v \in i.from : TRUE]]
    [] OTHER -> values

\* the phis of a block read what was there at the end of the one before
Phis(values, pred, block) == [v \in DOMAIN values |->
  LET phis == {i \in ToSet(code[block]) : i.op = "phi" /\ i.dst = v}
      arms == {arm \in UNION {i.from : i \in phis} : arm[1] = pred}
  IN CASE phis = {} -> values[v]
       [] phis # {} /\ arms = {} -> Unset
       [] OTHER -> values[(CHOOSE arm \in arms : TRUE)[2]]]

Allocates(b) == \E i \in ToSet(code[b]) : i.op = "alloc"
Built(b) == {i.dst : i \in {j \in ToSet(code[b]) : j.op = "fill"}}

\* the inputs hold values of their own
Call ==
  /\ saved = <<>> /\ at = 0 /\ Len(code) > 1
  /\ at' = 1 /\ ran' = {}
  /\ store' = [v \in DOMAIN kinds |-> IF v \in ToSet(carries[1][2]) THEN v ELSE Unset]
  /\ truth' = store'
  /\ UNCHANGED <<building, again>>

RunBlock == at # 0 /\ \E next \in goes[at] :
  LET done == FoldLeft(Do, store, code[at])
      true == [v \in DOMAIN truth |-> IF v \in Built(at) THEN New ELSE truth[v]]
      rebinds == IF at \in DOMAIN carries THEN carries[at] ELSE <<<<>>, <<>>>>
  IN /\ at' = next
     /\ store' = Phis(done, at, next)
     /\ truth' = [v \in DOMAIN true |->
          IF v \in ToSet(rebinds[1]) THEN true[rebinds[2][CHOOSE k \in DOMAIN rebinds[1] : rebinds[1][k] = v]]
          ELSE true[v]]
     /\ ran' = ran \cup {at}
     /\ again' = (again \/ (at \in ran /\ Allocates(at)))
     /\ UNCHANGED building
-----------------------------------------------------------------------------
LoopInit ==
  /\ kinds \in Kinds
  /\ code = <<<<>>>> /\ goes = <<{}>> /\ cur = 1
  /\ header = 0 /\ home = 0 /\ slots = <<>> /\ edges = {} /\ saved = <<>>
  /\ scope = {} /\ waiting = <<>> /\ forks = 0 /\ carries = [b \in {} |-> <<>>]
  /\ at = 0 /\ store = <<>> /\ truth = <<>> /\ ran = {} /\ again = FALSE

LoopNext ==
  \/ at = 0 /\ (OpenWord \/ OpenSplice \/ Fork \/ Build \/ BackEdge \/ CloseLoop)
  \/ Call
  \/ RunBlock
-----------------------------------------------------------------------------
\* A back-edge of a loop rebinds what the loop carries all at once, whatever
\* was nested, swapped, built or passed on in place: at every header each
\* carried value of every loop is what the iteration before left for it, and
\* a loop that is entered again starts from what it is given then.  No
\* storage is allocated again by an iteration (push_alloc).
CarriedAtOnce ==
  /\ \A b \in DOMAIN carries : at # 0 => \A v \in ToSet(carries[b][1]) : store[v] = truth[v]
  /\ ~again
=============================================================================
