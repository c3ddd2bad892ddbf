--------------------------- MODULE GlobalsProofs ---------------------------
(***************************************************************************)
(* Proofs about Globals, for every number of words, every set of statics   *)
(* and every depth of calls.                                               *)
(***************************************************************************)
EXTENDS Globals, SequenceTheorems, FiniteSetTheorems, TLAPS

-----------------------------------------------------------------------------
(* The order on modes and on sets, and the join.                           *)

\* Covers is a preorder on modes
LEMMA CoversOrder ==
  /\ \A m \in Modes : Covers(m, m)
  /\ \A m, n, k \in Modes : Covers(m, n) /\ Covers(n, k) => Covers(m, k)
BY DEF Modes, Covers

\* Within is a preorder on sets
LEMMA WithinOrder ==
  /\ \A a \in Sets : Within(a, a)
  /\ \A a, b, c \in Sets : Within(a, b) /\ Within(b, c) => Within(a, c)
BY CoversOrder DEF Within, Sets

\* the join of some modes is their least upper bound
LEMMA JoinedIsLub ==
  ASSUME NEW M \in SUBSET Modes
  PROVE  /\ Joined(M) \in Modes
         /\ \A m \in M : Covers(Joined(M), m)
         /\ \A n \in Modes : (\A m \in M : Covers(n, m)) => Covers(n, Joined(M))
BY DEF Joined, Covers, Modes

\* nothing is within Untouched but itself
LEMMA WithinUntouched ==
  ASSUME NEW a \in Sets, Within(a, Untouched)
  PROVE  a = Untouched
BY DEF Within, Untouched, Sets, Covers

\* a relaxed word has a set that holds its old one and its callees' ones,
\* within every closed assignment that held those
LEMMA RelaxedProps ==
  ASSUME NEW k \in Words, sets \in [Words -> Sets], callees \in [Words -> SUBSET Words]
  PROVE  /\ Relaxed(k) \in Sets
         /\ Within(sets[k], Relaxed(k))
         /\ \A v \in callees[k] : Within(sets[v], Relaxed(k))
         /\ \A A \in [Words -> Sets] :
              Closed(A) /\ (\A w \in Words : Within(sets[w], A[w])) => Within(Relaxed(k), A[k])
<1> DEFINE M(s) == {sets[j][s] : j \in callees[k] \cup {k}}
<1>1. ASSUME NEW s \in Statics PROVE M(s) \in SUBSET Modes
  BY DEF Sets
<1>2. \A s \in Statics : Relaxed(k)[s] = Joined(M(s))
  BY DEF Relaxed
<1>3. Relaxed(k) \in Sets
  <2>1. \A s \in Statics : Joined(M(s)) \in Modes
    BY <1>1, JoinedIsLub
  <2> QED BY <2>1 DEF Relaxed, Sets
<1>4. ASSUME NEW j \in callees[k] \cup {k} PROVE Within(sets[j], Relaxed(k))
  <2>1. \A s \in Statics : sets[j][s] \in M(s)
    BY <1>4
  <2>2. \A s \in Statics : Covers(Joined(M(s)), sets[j][s])
    BY <2>1, <1>1, JoinedIsLub
  <2> QED BY <2>2, <1>2 DEF Within
<1>5. ASSUME NEW A \in [Words -> Sets], Closed(A), \A w \in Words : Within(sets[w], A[w])
      PROVE  Within(Relaxed(k), A[k])
  <2>1. ASSUME NEW s \in Statics, NEW j \in callees[k] \cup {k}
        PROVE  Covers(A[k][s], sets[j][s])
    <3>1. j \in Words /\ Within(sets[j], A[j])
      BY <1>5
    <3>2. Within(A[j], A[k])
      BY <1>5, WithinOrder DEF Closed
    <3>3. Within(sets[j], A[k])
      BY <3>1, <3>2, WithinOrder
    <3> QED BY <3>3 DEF Within
  <2>2. ASSUME NEW s \in Statics PROVE Covers(A[k][s], Joined(M(s)))
    <3>1. \A m \in M(s) : Covers(A[k][s], m)
      BY <2>1
    <3>2. A[k][s] \in Modes
      BY DEF Sets
    <3> QED BY <3>1, <3>2, <1>1, JoinedIsLub
  <2> QED BY <2>2, <1>2 DEF Within
<1> QED BY <1>3, <1>4, <1>5

-----------------------------------------------------------------------------
(* The type invariant.                                                     *)

LEMMA InitType == Init => TypeOK
<1> SUFFICES ASSUME Init PROVE TypeOK
  OBVIOUS
<1>1. direct \in [Words -> Sets] /\ sets \in [Words -> Sets] /\ callees \in [Words -> SUBSET Words]
  BY DEF Init
<1>2. exported \in [Words -> BOOLEAN] /\ clause \in [Words -> Sets \cup {None}]
  BY DEF Init
<1>3. passes \in 1..Bound /\ i \in 1..N + 1
  BY GlobalsAssumption DEF Init, Bound
<1>4. changed \in BOOLEAN /\ phase \in {"infer", "check", "accepted", "refused", "panic"}
  BY DEF Init
<1>5. calls \in Seq(Words) /\ touched \in Sets
  BY DEF Init, Untouched, Sets, Modes
<1> QED BY <1>1, <1>2, <1>3, <1>4, <1>5 DEF TypeOK

LEMMA NextType == TypeOK /\ [Next]_vars => TypeOK'
<1> SUFFICES ASSUME TypeOK, [Next]_vars PROVE TypeOK'
  OBVIOUS
<1> USE DEF TypeOK
<1>1. CASE Relax
  <2>1. i \in Words
    BY <1>1 DEF Relax, Words
  <2>2. Relaxed(i) \in Sets
    BY <2>1, RelaxedProps
  <2>3. sets' \in [Words -> Sets] /\ i' \in 1..N + 1 /\ changed' \in BOOLEAN
    BY <2>1, <2>2, <1>1, GlobalsAssumption DEF Relax, Words, Grew
  <2> QED BY <2>3, <1>1 DEF Relax, program, clauses, execution
<1>2. CASE EndPass
  <2>1. passes' \in 1..Bound /\ i' \in 1..N + 1
    BY <1>2, GlobalsAssumption DEF EndPass, Bound
  <2>2. changed' \in BOOLEAN /\ phase' \in {"infer", "check", "accepted", "refused", "panic"}
    BY <1>2 DEF EndPass
  <2> QED BY <2>1, <2>2, <1>2 DEF EndPass, program, clauses, execution
<1>3. CASE CheckClause
  <2>1. i \in Words
    BY <1>3 DEF CheckClause, Words
  <2>2. exported' \in [Words -> BOOLEAN] /\ clause' \in [Words -> Sets \cup {None}]
    BY <2>1, <1>3 DEF CheckClause
  <2>3. i' \in 1..N + 1 /\ phase' \in {"infer", "check", "accepted", "refused", "panic"}
    BY <2>1, <1>3, GlobalsAssumption DEF CheckClause, Words
  <2> QED BY <2>2, <2>3, <1>3 DEF CheckClause, program, execution
<1>4. CASE Accept
  BY <1>4 DEF Accept, program, clauses, execution
<1>5. ASSUME NEW w \in Words, Enter(w) PROVE TypeOK'
  BY <1>5 DEF Enter, program, clauses, Untouched, Sets, Modes
<1>6. ASSUME NEW w \in Words, Call(w) PROVE TypeOK'
  BY <1>6 DEF Call, program, clauses
<1>7. ASSUME NEW s \in Statics, Touch(s) PROVE TypeOK'
  <2>1. Active \in Words
    BY <1>7 DEF Touch, Running, Active
  <2>2. {touched[s], direct[Active][s]} \in SUBSET Modes
    BY <2>1 DEF Sets
  <2>3. touched' \in Sets
    BY <2>2, <1>7, JoinedIsLub DEF Touch, Sets
  <2> QED BY <2>3, <1>7 DEF Touch, program, clauses
<1>8. CASE Return
  <2>1. calls' \in Seq(Words)
    BY <1>8, SubSeqProperties DEF Return, Running
  <2>2. touched' \in Sets
    BY <1>8 DEF Return, Untouched, Sets, Modes
  <2> QED BY <2>1, <2>2, <1>8 DEF Return, program, clauses
<1>9. CASE UNCHANGED vars
  BY <1>9 DEF vars, program, clauses, execution
<1> QED BY <1>1, <1>2, <1>3, <1>4, <1>5, <1>6, <1>7, <1>8, <1>9
       DEF Next, Infer, Check, Run

\* Every variable keeps its type; in particular the loop of infer_sets never
\* indexes beyond the last word, and never counts beyond its bound.
THEOREM TypeInvariant == Spec => []TypeOK
BY InitType, NextType, PTL DEF Spec

-----------------------------------------------------------------------------
(* The inductive invariant.                                                *)

\* word k's set holds the sets of its callees
ClosedAt(k) == \A v \in callees[k] : Within(sets[v], sets[k])

\* what the loop has established before it is over: in a pass that has changed
\* nothing yet the words already seen are closed
LoopInv ==
  /\ \A w \in Words : Within(direct[w], sets[w])
  /\ phase = "infer" /\ ~changed => \A k \in Words : k < i => ClosedAt(k)
  /\ phase \in {"check", "accepted", "refused"} => \A k \in Words : ClosedAt(k)

\* the clauses read so far hold of the sets
ClauseInv ==
  /\ phase = "check" => \A k \in Words : k < i => ClauseHolds(exported[k], clause[k], sets[k])
  /\ phase = "accepted" => \A k \in Words : ClauseHolds(exported[k], clause[k], sets[k])

\* what was touched, and what an active word may touch, is in the set of the
\* outermost active word
ExecutionInv ==
  calls # <<>> =>
    /\ phase = "accepted"
    /\ Within(touched, sets[calls[1]])
    /\ \A k \in 1..Len(calls) : Within(sets[calls[k]], sets[calls[1]])

IInv == TypeOK /\ LoopInv /\ ClauseInv /\ ExecutionInv

LEMMA InitIInv == Init => IInv
<1> SUFFICES ASSUME Init, TypeOK PROVE LoopInv /\ ClauseInv /\ ExecutionInv
  BY InitType DEF IInv
<1>1. LoopInv
  <2>1. \A w \in Words : Within(direct[w], sets[w])
    BY WithinOrder DEF Init, TypeOK
  <2>2. \A k \in Words : ~(k < i)
    BY GlobalsAssumption DEF Init, Words
  <2> QED BY <2>1, <2>2 DEF Init, LoopInv
<1>2. ClauseInv /\ ExecutionInv
  BY DEF Init, ClauseInv, ExecutionInv
<1> QED BY <1>1, <1>2

\* a word is relaxed: if its set does not grow it is closed, and no set moves
LEMMA RelaxIInv == IInv /\ TypeOK' /\ Relax => IInv'
<1> SUFFICES ASSUME IInv, TypeOK', Relax PROVE LoopInv' /\ ClauseInv' /\ ExecutionInv'
  BY DEF IInv
<1>1. i \in Words /\ sets \in [Words -> Sets] /\ callees \in [Words -> SUBSET Words] /\ direct \in [Words -> Sets]
  BY DEF IInv, TypeOK, Relax, Words
<1>2. phase = "infer" /\ phase' = phase /\ calls' = calls /\ UNCHANGED <<direct, callees>>
  BY DEF Relax, program, execution
<1>3. calls = <<>>
  BY <1>2 DEF IInv, ExecutionInv
<1>4. ASSUME NEW w \in Words PROVE Within(direct[w], sets'[w])
  <2>1. Within(direct[w], sets[w]) /\ Within(sets[w], sets'[w])
    BY <1>1, RelaxedProps, WithinOrder DEF IInv, LoopInv, Relax
  <2> QED BY <2>1, <1>1, WithinOrder DEF IInv, TypeOK
<1>5. ASSUME ~changed' PROVE \A k \in Words : k < i' => ClosedAt(k)'
  <2>1. ~changed /\ Relaxed(i) = sets[i]
    BY <1>5, <1>1 DEF Relax, Grew, IInv, TypeOK
  <2>2. sets' = sets
    BY <2>1, <1>1 DEF Relax
  <2>3. ClosedAt(i)
    BY <2>1, <1>1, RelaxedProps DEF ClosedAt
  <2>4. \A k \in Words : k < i => ClosedAt(k)
    BY <2>1, <1>2 DEF IInv, LoopInv
  <2>5. \A k \in Words : k < i' => k < i \/ k = i
    BY <1>1 DEF Relax, Words
  <2> QED BY <2>2, <2>3, <2>4, <2>5, <1>2 DEF ClosedAt
<1>6. LoopInv'
  BY <1>2, <1>4, <1>5 DEF LoopInv
<1> QED BY <1>2, <1>3, <1>6 DEF ClauseInv, ExecutionInv

\* a pass ends: one that changed nothing has closed every word
LEMMA EndPassIInv == IInv /\ TypeOK' /\ EndPass => IInv'
<1> SUFFICES ASSUME IInv, TypeOK', EndPass PROVE LoopInv' /\ ClauseInv' /\ ExecutionInv'
  BY DEF IInv
<1>1. /\ phase = "infer" /\ i > N /\ i' = 1
      /\ UNCHANGED <<direct, callees, sets, exported, clause, calls, touched>>
  BY DEF EndPass, program, clauses, execution
<1>2. calls = <<>>
  BY <1>1 DEF IInv, ExecutionInv
<1>3. \A k \in Words : k < i /\ ~(k < i')
  BY <1>1, GlobalsAssumption DEF Words, IInv, TypeOK
<1>4. ~changed => \A k \in Words : ClosedAt(k)
  BY <1>1, <1>3 DEF IInv, LoopInv
<1>5. phase' \in {"check", "accepted", "refused"} => ~changed
  BY <1>1 DEF EndPass
<1>6. LoopInv'
  <2>1. \A w \in Words : Within(direct[w], sets[w])'
    BY <1>1 DEF IInv, LoopInv, Within
  <2>2. phase' \in {"check", "accepted", "refused"} => \A k \in Words : ClosedAt(k)'
    BY <1>1, <1>4, <1>5 DEF ClosedAt, Within
  <2> QED BY <2>1, <2>2, <1>3 DEF LoopInv
<1>7. ClauseInv'
  BY <1>3, <1>1 DEF ClauseInv, EndPass
<1> QED BY <1>1, <1>2, <1>6, <1>7 DEF ExecutionInv

\* a clause is read, or the last one has been
LEMMA CheckIInv == IInv /\ TypeOK' /\ Check => IInv'
<1> SUFFICES ASSUME IInv, TypeOK', Check PROVE LoopInv' /\ ClauseInv' /\ ExecutionInv'
  BY DEF IInv
<1>1. phase = "check" /\ phase' \in {"check", "refused", "accepted"} /\ UNCHANGED <<direct, callees, sets, calls, touched>>
  BY DEF Check, CheckClause, Accept, program, clauses, execution
<1>2. calls = <<>>
  BY <1>1 DEF IInv, ExecutionInv
<1>3. LoopInv'
  BY <1>1 DEF IInv, LoopInv, ClosedAt, Within
<1>4. ClauseInv'
  <2>1. CASE CheckClause
    <3>1. PICK x \in BOOLEAN, c \in {None} \cup (Sets \ {Untouched}) :
            /\ exported' = [exported EXCEPT ![i] = x] /\ clause' = [clause EXCEPT ![i] = c]
            /\ \/ ClauseHolds(x, c, sets[i]) /\ i' = i + 1 /\ UNCHANGED phase
               \/ phase' = "refused"
      BY <2>1 DEF CheckClause
    <3>2. i \in Words /\ exported \in [Words -> BOOLEAN] /\ clause \in [Words -> Sets \cup {None}]
      BY <2>1 DEF CheckClause, IInv, TypeOK, Words
    <3>3. CASE phase' = "refused"
      BY <3>3 DEF ClauseInv
    <3>4. CASE ClauseHolds(x, c, sets[i]) /\ i' = i + 1 /\ phase' = phase
      <4>1. ASSUME NEW k \in Words, k < i' PROVE ClauseHolds(exported'[k], clause'[k], sets[k])
        <5>1. CASE k = i
          BY <5>1, <3>1, <3>2, <3>4
        <5>2. CASE k # i
          <6>1. k < i
            BY <4>1, <5>2, <3>2, <3>4 DEF Words
          <6>2. ClauseHolds(exported[k], clause[k], sets[k])
            BY <6>1, <1>1 DEF IInv, ClauseInv
          <6> QED BY <6>2, <5>2, <3>1, <3>2
        <5> QED BY <5>1, <5>2
      <4> QED BY <4>1, <3>4, <1>1 DEF ClauseInv
    <3> QED BY <3>1, <3>3, <3>4
  <2>2. CASE Accept
    <3>1. \A k \in Words : k < i
      BY <2>2, GlobalsAssumption DEF Accept, Words, IInv, TypeOK
    <3> QED BY <3>1, <1>1, <2>2 DEF Accept, clauses, IInv, ClauseInv
  <2> QED BY <2>1, <2>2 DEF Check
<1> QED BY <1>1, <1>2, <1>3, <1>4 DEF ExecutionInv

\* the execution: a callee's set is in its caller's, and so in the outermost's
LEMMA RunIInv == IInv /\ TypeOK' /\ Run => IInv'
<1> SUFFICES ASSUME IInv, TypeOK', Run PROVE LoopInv' /\ ClauseInv' /\ ExecutionInv'
  BY DEF IInv
<1> USE DEF TypeOK
<1>1. phase = "accepted" /\ UNCHANGED <<direct, callees, exported, clause, sets, passes, i, changed, phase>>
  BY DEF Run, Enter, Call, Touch, Return, Running, program, clauses
<1>2. LoopInv' /\ ClauseInv'
  BY <1>1 DEF IInv, LoopInv, ClauseInv, ClosedAt, Within
<1>3. \A w \in Words : ClosedAt(w) /\ Within(direct[w], sets[w])
  BY <1>1 DEF IInv, LoopInv
<1>4. ASSUME NEW w \in Words, Enter(w) PROVE ExecutionInv'
  <2>1. calls' = <<w>> /\ touched' = Untouched
    BY <1>4 DEF Enter
  <2>2. calls'[1] = w /\ Len(calls') = 1 /\ \A k \in 1..Len(calls') : calls'[k] = w
    BY <2>1
  <2>3. Within(touched', sets[w])
    BY <2>1 DEF Within, Untouched, Covers
  <2>4. Within(sets[w], sets[w])
    BY WithinOrder DEF IInv
  <2> QED BY <2>2, <2>3, <2>4, <1>1 DEF ExecutionInv
<1>5. ASSUME NEW w \in Words, Call(w) PROVE ExecutionInv'
  <2>1. calls # <<>> /\ calls' = Append(calls, w) /\ touched' = touched /\ w \in callees[Active]
    BY <1>5 DEF Call, Running
  <2>2. Len(calls) \in 1..Len(calls) /\ 1 \in 1..Len(calls) /\ Active \in Words /\ calls[1] \in Words
    BY <2>1 DEF IInv, Active
  <2>3. Within(sets[w], sets[calls[1]])
    <3>1. Within(sets[w], sets[Active])
      BY <2>1, <2>2, <1>3 DEF ClosedAt
    <3>2. Within(sets[Active], sets[calls[1]])
      BY <2>1, <2>2 DEF IInv, ExecutionInv, Active
    <3> QED BY <3>1, <3>2, <2>2, WithinOrder DEF IInv
  <2>4. Len(calls') = Len(calls) + 1 /\ calls'[1] = calls[1]
        /\ \A k \in 1..Len(calls') : calls'[k] = IF k <= Len(calls) THEN calls[k] ELSE w
    BY <2>1, <2>2 DEF IInv
  <2>5. \A k \in 1..Len(calls') : Within(sets[calls'[k]], sets[calls[1]])
    <3>1. \A k \in 1..Len(calls) : Within(sets[calls[k]], sets[calls[1]])
      BY <2>1 DEF IInv, ExecutionInv
    <3> QED BY <2>3, <2>4, <3>1
  <2>6. Within(touched, sets[calls[1]])
    BY <2>1 DEF IInv, ExecutionInv
  <2> QED BY <2>1, <2>4, <2>5, <2>6, <1>1 DEF ExecutionInv
<1>6. ASSUME NEW s \in Statics, Touch(s) PROVE ExecutionInv'
  <2>1. calls # <<>> /\ calls' = calls
    BY <1>6 DEF Touch, Running
  <2>2. Len(calls) \in 1..Len(calls) /\ Active \in Words /\ calls[1] \in Words
    BY <2>1 DEF IInv, Active
  <2>3. Within(direct[Active], sets[calls[1]])
    <3>1. Within(sets[Active], sets[calls[1]])
      BY <2>1, <2>2 DEF IInv, ExecutionInv, Active
    <3> QED BY <3>1, <2>2, <1>3, WithinOrder DEF IInv
  <2>4. Within(touched, sets[calls[1]])
    BY <2>1 DEF IInv, ExecutionInv
  <2>5. touched' = [touched EXCEPT ![s] = Joined({touched[s], direct[Active][s]})]
    BY <1>6 DEF Touch
  <2>6. {touched[s], direct[Active][s]} \in SUBSET Modes /\ sets[calls[1]][s] \in Modes
    BY <2>2 DEF IInv, Sets
  <2>7. Covers(sets[calls[1]][s], Joined({touched[s], direct[Active][s]}))
    BY <2>3, <2>4, <2>6, JoinedIsLub DEF Within
  <2>8. Within(touched', sets[calls[1]])
    BY <2>4, <2>5, <2>7 DEF Within, IInv, Sets
  <2> QED BY <2>1, <2>8, <1>1 DEF IInv, ExecutionInv
<1>7. ASSUME Return PROVE ExecutionInv'
  <2>1. calls # <<>> /\ calls \in Seq(Words) /\ calls' = SubSeq(calls, 1, Len(calls) - 1)
    BY <1>7 DEF Return, Running, IInv
  <2>2. PICK n \in Nat : Len(calls) = n + 1
    <3>1. Len(calls) \in Nat /\ Len(calls) # 0
      BY <2>1, EmptySeq
    <3>2. Len(calls) = (Len(calls) - 1) + 1 /\ Len(calls) - 1 \in Nat
      BY <3>1
    <3> QED BY <3>2
  <2>3. calls' = SubSeq(calls, 1, n)
    BY <2>1, <2>2
  <2>4. touched' = IF n = 0 THEN Untouched ELSE touched
    BY <1>7, <2>2 DEF Return
  <2>5. /\ Len(SubSeq(calls, 1, n)) = n
        /\ \A k \in 1..n : SubSeq(calls, 1, n)[k] = calls[k]
    BY <2>1, <2>2
  <2>6. /\ Within(touched, sets[calls[1]])
        /\ \A k \in 1..(n + 1) : Within(sets[calls[k]], sets[calls[1]])
    BY <2>1, <2>2 DEF IInv, ExecutionInv
  <2>7. CASE n = 0
    <3>1. calls' = <<>>
      BY <2>3, <2>7
    <3> QED BY <3>1 DEF ExecutionInv
  <2>8. CASE n > 0
    <3>1. touched' = touched
      BY <2>4, <2>8
    <3>2. Len(calls') = n /\ calls'[1] = calls[1] /\ \A k \in 1..n : calls'[k] = calls[k]
      BY <2>3, <2>5, <2>8
    <3>3. \A k \in 1..n : Within(sets[calls'[k]], sets[calls'[1]])
      BY <3>2, <2>6
    <3>4. Within(touched', sets[calls'[1]])
      BY <3>1, <3>2, <2>6
    <3> QED BY <3>2, <3>3, <3>4, <1>1 DEF ExecutionInv
  <2> QED BY <2>7, <2>8
<1>8. ExecutionInv'
  BY <1>4, <1>5, <1>6, <1>7 DEF Run
<1> QED BY <1>2, <1>8

\* The inductive invariant holds of every behaviour.
THEOREM Invariance == Spec => []IInv
<1>1. IInv /\ [Next]_vars => IInv'
  <2> SUFFICES ASSUME IInv, [Next]_vars PROVE IInv'
    OBVIOUS
  <2>1. TypeOK'
    BY NextType DEF IInv
  <2>2. CASE UNCHANGED vars
    BY <2>2, <2>1 DEF vars, program, clauses, execution, IInv, LoopInv, ClosedAt, Within, ClauseInv, ExecutionInv
  <2> QED BY <2>1, <2>2, RelaxIInv, EndPassIInv, CheckIInv, RunIInv DEF Next, Infer
<1> QED BY <1>1, InitIInv, PTL DEF Spec

-----------------------------------------------------------------------------
(* The results.                                                            *)

\* When inference ends no set is short of an access that some chain of calls
\* makes, for every module and every call graph.
THEOREM Complete == Spec => []InferredClosed
<1>1. IInv => InferredClosed
  BY DEF IInv, LoopInv, ClosedAt, InferredClosed, Closed
<1> QED BY <1>1, Invariance, PTL

\* No set ever holds an access that no chain of calls makes: it is within every
\* assignment that is closed under calls.
THEOREM Exact == Spec => []NothingInvented
<1> DEFINE Least(A) == Closed(A) => \A w \in Words : Within(sets[w], A[w])
<1>1. Init => NothingInvented
  BY DEF Init, NothingInvented, Closed
<1>2. TypeOK /\ NothingInvented /\ [Next]_vars => NothingInvented'
  <2> SUFFICES ASSUME TypeOK, NothingInvented, [Next]_vars,
                      NEW A \in [Words -> Sets], Closed(A)', NEW w \in Words
               PROVE  Within(sets'[w], A[w])
    BY DEF NothingInvented
  <2>1. direct' = direct /\ callees' = callees
    BY DEF Next, Infer, Check, Run, Relax, EndPass, CheckClause, Accept, Enter, Call, Touch, Return, program, vars
  <2>2. Closed(A)
    BY <2>1 DEF Closed
  <2>3. \A v \in Words : Within(sets[v], A[v])
    BY <2>2 DEF NothingInvented
  <2>4. CASE Relax
    <3>1. i \in Words /\ sets' = [sets EXCEPT ![i] = Relaxed(i)] /\ sets \in [Words -> Sets] /\ callees \in [Words -> SUBSET Words]
      BY <2>4 DEF Relax, TypeOK, Words
    <3>2. Within(Relaxed(i), A[i])
      BY <3>1, <2>2, <2>3, RelaxedProps
    <3> QED BY <3>1, <3>2, <2>3
  <2>5. CASE ~Relax
    <3>1. sets' = sets
      BY <2>5 DEF Next, Infer, Check, Run, EndPass, CheckClause, Accept, Enter, Call, Touch, Return, vars
    <3> QED BY <3>1, <2>3
  <2> QED BY <2>4, <2>5
<1> QED BY <1>1, <1>2, TypeInvariant, PTL DEF Spec

\* What a word touches while it is active, itself or through its callees, is
\* what its clause declares; without a clause an exported word touches nothing.
THEOREM ClausesCoverExecution == Spec => []DeclaredCoversExecution
<1>1. IInv => DeclaredCoversExecution
  <2> SUFFICES ASSUME IInv, calls # <<>> PROVE DeclaredCoversExecution
    BY DEF DeclaredCoversExecution
  <2>1. calls[1] \in Words
    BY DEF IInv, TypeOK
  <2>2. /\ ClauseHolds(exported[calls[1]], clause[calls[1]], sets[calls[1]])
        /\ Within(touched, sets[calls[1]]) /\ touched \in Sets
    BY <2>1 DEF IInv, TypeOK, ClauseInv, ExecutionInv
  <2> QED BY <2>2, WithinUntouched DEF DeclaredCoversExecution, ClauseHolds
<1> QED BY <1>1, Invariance, PTL

-----------------------------------------------------------------------------
(* The passes of infer_sets.  A static and a mode are looked at alone: which *)
(* words hold that much of it.                                               *)

Holding(s, m) == {w \in Words : Covers(sets[w][s], m)}
ShutAt(k, X) == callees[k] \cap X # {} => k \in X
Shut(X) == \A k \in Words : ShutAt(k, X)

\* a set of words that is not shut has as many members as passes have begun,
\* and one more when the pass has come by a word that it was not shut at
Progress(X) ==
  \/ Shut(X)
  \/ Cardinality(X) > passes
  \/ Cardinality(X) >= passes /\ \A k \in Words : k < i => ShutAt(k, X)

PassInv ==
  phase = "infer" =>
    /\ changed => passes < N
    /\ \A s \in Statics, m \in {"r", "w"} : Progress(Holding(s, m))

\* some words, at most all of them
LEMMA SomeWords ==
  ASSUME NEW X \in SUBSET Words
  PROVE  /\ IsFiniteSet(X) /\ Cardinality(X) \in Nat
         /\ X # Words => Cardinality(X) < N
         /\ X # {} => Cardinality(X) >= 1
         /\ \A w \in Words \ X : Cardinality(X \cup {w}) = Cardinality(X) + 1
<1>1. IsFiniteSet(Words) /\ Cardinality(Words) = N
  BY GlobalsAssumption, FS_Interval DEF Words
<1>2. IsFiniteSet(X) /\ Cardinality(X) \in Nat /\ Cardinality(X) <= N /\ (Cardinality(X) = N => X = Words)
  BY <1>1, FS_Subset, FS_CardinalityType
<1>3. X # {} => Cardinality(X) # 0
  BY <1>2, FS_EmptySet
<1>4. \A w \in Words \ X : Cardinality(X \cup {w}) = Cardinality(X) + 1
  BY <1>2, FS_AddElement
<1> QED BY <1>2, <1>3, <1>4, GlobalsAssumption

\* who holds a mode of a static after word i has been relaxed
LEMMA RelaxedHolding ==
  ASSUME TypeOK, Relax, NEW s \in Statics, NEW m \in {"r", "w"}
  PROVE  Holding(s, m)' = IF callees[i] \cap Holding(s, m) # {} THEN Holding(s, m) \cup {i} ELSE Holding(s, m)
<1> DEFINE M == {sets[j][s] : j \in callees[i] \cup {i}}
<1>1. i \in Words /\ sets \in [Words -> Sets] /\ callees[i] \subseteq Words
  BY DEF TypeOK, Relax, Words
<1>2. M \in SUBSET Modes
  BY <1>1 DEF Sets
<1>3. Covers(Joined(M), m) <=> \E x \in M : Covers(x, m)
  BY <1>2 DEF Joined, Covers, Modes
<1>4. (\E x \in M : Covers(x, m)) <=> i \in Holding(s, m) \/ callees[i] \cap Holding(s, m) # {}
  BY <1>1 DEF Holding
<1>5. sets' = [sets EXCEPT ![i] = Relaxed(i)] /\ Relaxed(i)[s] = Joined(M)
  BY DEF Relax, Relaxed
<1>6. \A w \in Words : w \in Holding(s, m)' <=> IF w = i THEN Covers(Joined(M), m) ELSE w \in Holding(s, m)
  BY <1>1, <1>5 DEF Holding
<1>7. Holding(s, m)' \subseteq Words /\ Holding(s, m) \subseteq Words
  BY DEF Holding
<1> QED BY <1>1, <1>3, <1>4, <1>6, <1>7

\* a set that grew holds a mode more than it did
LEMMA GrewHolding ==
  ASSUME TypeOK, Relax, Relaxed(i) # sets[i]
  PROVE  \E s \in Statics, m \in {"r", "w"} : i \notin Holding(s, m) /\ callees[i] \cap Holding(s, m) # {}
<1>1. i \in Words /\ sets \in [Words -> Sets] /\ callees \in [Words -> SUBSET Words]
  BY DEF TypeOK, Relax, Words
<1>2. Relaxed(i) \in Sets /\ sets[i] \in Sets
  BY <1>1, RelaxedProps
<1>3. PICK s \in Statics : Relaxed(i)[s] # sets[i][s]
  BY <1>2 DEF Sets
<1>4. Covers(Relaxed(i)[s], sets[i][s])
  BY <1>1, RelaxedProps DEF Within
<1>5. Relaxed(i)[s] \in Modes /\ sets[i][s] \in Modes
  BY <1>2 DEF Sets
<1>6. PICK m \in {"r", "w"} : Covers(Relaxed(i)[s], m) /\ ~Covers(sets[i][s], m)
  BY <1>3, <1>4, <1>5 DEF Covers, Modes
<1>7. i \in Holding(s, m)' /\ i \notin Holding(s, m)
  BY <1>1, <1>6 DEF Holding, Relax
<1> QED BY <1>7, RelaxedHolding

LEMMA RelaxProgress ==
  ASSUME TypeOK, PassInv, Relax
  PROVE  PassInv'
<1>1. /\ phase = "infer" /\ i \in Words /\ i' = i + 1 /\ passes' = passes /\ callees' = callees
      /\ passes \in Nat /\ N \in Nat
  BY GlobalsAssumption DEF TypeOK, Relax, Words, program, Bound
<1>2. ASSUME NEW s \in Statics, NEW m \in {"r", "w"} PROVE Progress(Holding(s, m))'
  <2> DEFINE X == Holding(s, m)
             Y == Holding(s, m)'
  <2>1. X \in SUBSET Words /\ Progress(X)
    BY <1>1 DEF PassInv, Holding
  <2>2. Y = IF callees[i] \cap X # {} THEN X \cup {i} ELSE X
    BY RelaxedHolding
  <2> HIDE DEF X, Y
  <2>3. CASE Y = X
    <3>1. ShutAt(i, X)
      BY <2>2, <2>3 DEF ShutAt
    <3>2. \A k \in Words : k < i' => k < i \/ k = i
      BY <1>1 DEF Words
    <3>3. (\A k \in Words : k < i => ShutAt(k, X)) => \A k \in Words : k < i' => ShutAt(k, X)
      BY <3>1, <3>2
    <3>4. \/ \A k \in Words : ShutAt(k, X)
          \/ Cardinality(X) > passes
          \/ Cardinality(X) >= passes /\ \A k \in Words : k < i' => ShutAt(k, X)
      BY <2>1, <3>3 DEF Progress, Shut
    <3> QED BY <3>4, <2>3, <1>1 DEF Progress, Shut, ShutAt, Y
  <2>4. CASE Y # X
    <3>1. i \in Words \ X /\ callees[i] \cap X # {} /\ Y = X \cup {i}
      BY <2>2, <2>4, <1>1
    <3>2. ~Shut(X)
      BY <3>1 DEF Shut, ShutAt
    <3>3. Cardinality(X) \in Nat /\ Cardinality(Y) = Cardinality(X) + 1
      BY <2>1, <3>1, SomeWords
    <3>4. Cardinality(X) >= passes
      BY <2>1, <3>2, <3>3, <1>1 DEF Progress
    <3>5. Cardinality(Y) > passes'
      BY <3>3, <3>4, <1>1
    <3> QED BY <3>5 DEF Progress, Y
  <2> QED BY <2>3, <2>4
<1>3. ASSUME changed' PROVE passes' < N
  <2>1. CASE changed
    BY <2>1, <1>1 DEF PassInv
  <2>2. CASE Relaxed(i) # sets[i]
    <3>1. PICK s \in Statics, m \in {"r", "w"} : i \notin Holding(s, m) /\ callees[i] \cap Holding(s, m) # {}
      BY <2>2, GrewHolding
    <3>2. Holding(s, m) \in SUBSET Words /\ Progress(Holding(s, m))
      BY <1>1 DEF PassInv, Holding
    <3>3. Cardinality(Holding(s, m)) \in Nat /\ Cardinality(Holding(s, m)) < N
      BY <1>1, <3>1, <3>2, SomeWords
    <3>4. ~Shut(Holding(s, m))
      BY <1>1, <3>1 DEF Shut, ShutAt
    <3> QED BY <1>1, <3>2, <3>3, <3>4 DEF Progress
  <2> QED BY <1>3, <2>1, <2>2 DEF Relax, Grew
<1> QED BY <1>2, <1>3 DEF PassInv

LEMMA EndPassProgress ==
  ASSUME TypeOK, PassInv, EndPass
  PROVE  PassInv' /\ phase' # "panic"
<1>1. /\ phase = "infer" /\ i > N /\ i' = 1 /\ ~changed' /\ sets' = sets /\ callees' = callees
      /\ passes \in Nat /\ N \in Nat /\ \A k \in Words : k \in 1..N
  BY GlobalsAssumption DEF TypeOK, EndPass, program, Bound, Words
<1>2. phase' # "panic"
  BY <1>1 DEF EndPass, PassInv, Bound
<1>3. ASSUME phase' = "infer", NEW s \in Statics, NEW m \in {"r", "w"} PROVE Progress(Holding(s, m))'
  <2> DEFINE X == Holding(s, m)
  <2>1. X \in SUBSET Words /\ Progress(X) /\ Holding(s, m)' = X
    BY <1>1 DEF PassInv, Holding
  <2>2. passes' = passes + 1
    BY <1>1, <1>3 DEF EndPass, PassInv, Bound
  <2> HIDE DEF X
  <2>3. Cardinality(X) \in Nat /\ \A k \in Words : k < i
    BY <2>1, SomeWords, <1>1 DEF TypeOK
  <2>4. Shut(X) \/ Cardinality(X) >= passes'
    BY <2>1, <2>2, <2>3, <1>1 DEF Progress, Shut
  <2>5. \A k \in Words : ~(k < i')
    BY <1>1 DEF Words
  <2>6. Shut(X) => (\A k \in Words : callees'[k] \cap X # {} => k \in X)
    BY <1>1 DEF Shut, ShutAt
  <2> QED BY <2>1, <2>4, <2>5, <2>6 DEF Progress, Shut, ShutAt
<1> QED BY <1>1, <1>2, <1>3 DEF PassInv

\* The loop of infer_sets never comes to its assertion: each pass that leaves a
\* set to grow has added a word to those that hold the mode it will grow by,
\* so the passes are fewer than the words, whatever the calls and their order.
THEOREM NoPanic == Spec => []PassesSuffice
<1> DEFINE Passing == TypeOK /\ PassInv /\ PassesSuffice
<1>1. Init => Passing
  <2> SUFFICES ASSUME Init PROVE PassInv /\ PassesSuffice
    BY InitType
  <2>1. phase = "infer" /\ passes = 1 /\ i = 1 /\ ~changed
    BY DEF Init
  <2>2. ASSUME NEW s \in Statics, NEW m \in {"r", "w"} PROVE Progress(Holding(s, m))
    <3>1. Holding(s, m) \in SUBSET Words
      BY DEF Holding
    <3>2. CASE Holding(s, m) = {}
      BY <3>2 DEF Progress, Shut, ShutAt
    <3>3. CASE Holding(s, m) # {}
      <4>1. Cardinality(Holding(s, m)) >= passes
        BY <3>1, <3>3, <2>1, SomeWords
      <4>2. \A k \in Words : ~(k < i)
        BY <2>1, GlobalsAssumption DEF Words
      <4> QED BY <4>1, <4>2 DEF Progress
    <3> QED BY <3>2, <3>3
  <2> QED BY <2>1, <2>2 DEF PassInv, PassesSuffice
<1>2. Passing /\ [Next]_vars => Passing'
  <2> SUFFICES ASSUME Passing, [Next]_vars PROVE PassInv' /\ PassesSuffice'
    BY NextType
  <2>1. CASE Relax
    BY <2>1, RelaxProgress DEF PassesSuffice, Relax
  <2>2. CASE EndPass
    BY <2>2, EndPassProgress DEF PassesSuffice
  <2>3. CASE Check
    BY <2>3 DEF Check, CheckClause, Accept, PassInv, PassesSuffice
  <2>4. CASE Run
    BY <2>4 DEF Run, Enter, Call, Touch, Return, Running, PassInv, PassesSuffice
  <2>5. CASE UNCHANGED vars
    BY <2>5 DEF vars, program, PassInv, PassesSuffice, Progress, Holding, Shut, ShutAt
  <2> QED BY <2>1, <2>2, <2>3, <2>4, <2>5 DEF Next, Infer
<1>3. Passing => PassesSuffice
  OBVIOUS
<1> QED BY <1>1, <1>2, <1>3, PTL DEF Spec
=============================================================================
