------------------------------ MODULE Globals ------------------------------
(* The global sets of the words of one module (check/globals.rs): which      *)
(* statics a word touches and how, inferred over the call graph by a         *)
(* fixpoint, then compared with the `global:` clauses.                       *)
(*                                                                           *)
(* What `direct_of` collects from a body is an input: a mode for each static *)
(* and the words the body names.  The program that was accepted also runs    *)
(* here, and the clauses are judged against what it touches.                 *)
EXTENDS Naturals, Sequences

CONSTANTS
  N,          \* how many words the module has
  Statics,    \* its statics
  MaxCalls,   \* bound: depth of the calls of the execution
  None        \* no clause

ASSUME GlobalsAssumption == N \in Nat \ {0} /\ MaxCalls \in Nat

Words == 1..N
Modes == {"absent", "r", "w"}
Sets == [Statics -> Modes]

VARIABLES
  direct,     \* direct_of: word -> Sets
  callees,    \* the candidates of the names a word calls
  exported, clause,   \* as written; known once the word's clause is read
  sets,       \* the sets inferred so far
  passes, i, changed, \* the loop of infer_sets; `i` is also check_globals' word
  phase,      \* "infer", "check", "accepted", "refused" or "panic"
  calls,      \* execution: the words that are active
  touched     \* execution: the accesses made since the outermost was entered

program == <<direct, callees>>
clauses == <<exported, clause>>
execution == <<calls, touched>>
vars == <<program, clauses, sets, passes, i, changed, phase, execution>>

\* join_into: w absorbs r, and r never demotes a w.
JoinKeepingR(modes) ==   \* mutant: the first mode is kept
  IF "r" \in modes THEN "r" ELSE IF "w" \in modes THEN "w" ELSE "absent"
Joined(modes) ==
  IF "w" \in modes THEN "w" ELSE IF "r" \in modes THEN "r" ELSE "absent"
Covers(m, n) == m = n \/ n = "absent" \/ m = "w"
Within(a, b) == \A s \in Statics : Covers(b[s], a[s])
Untouched == [s \in Statics |-> "absent"]
-----------------------------------------------------------------------------
(* infer_sets.                                                               *)

\* What word k's set becomes when it is relaxed against its callees.
RelaxedFromCallers(k) ==   \* mutant
  [s \in Statics |-> Joined({sets[j][s] : j \in {c \in Words : k \in callees[c]} \cup {k}})]
Relaxed(k) == [s \in Statics |-> Joined({sets[j][s] : j \in callees[k] \cup {k}})]

\* A pass counts as changed only when a set grew.
GrewAlways(old, new) == new # Untouched   \* mutant
Grew(old, new) == new # old
Bound == N + 2

Relax ==
  /\ phase = "infer" /\ i <= N
  /\ sets' = [sets EXCEPT ![i] = Relaxed(i)]
  /\ changed' = (changed \/ Grew(sets[i], Relaxed(i)))
  /\ i' = i + 1
  /\ UNCHANGED <<program, clauses, passes, phase, execution>>

\* The end of a pass: done, or the assertion, or another pass.
EndPass ==
  /\ phase = "infer" /\ i > N
  /\ i' = 1 /\ changed' = FALSE
  /\ phase' = IF ~changed THEN "check" ELSE IF passes >= Bound THEN "panic" ELSE "infer"
  /\ passes' = IF changed /\ passes < Bound THEN passes + 1 ELSE passes
  /\ UNCHANGED <<program, clauses, sets, execution>>
-----------------------------------------------------------------------------
(* check_globals.                                                            *)

\* check_clause: exact where a clause is written, and an exported word that
\* touches anything has one.  An entry never has the mode "absent".
ClauseHoldsLoosely(x, c, inferred) ==   \* mutant: an entry may be a superset
  IF c = None THEN x => inferred = Untouched ELSE \A s \in Statics : c[s] # "absent" => inferred[s] # "absent"
ClauseHolds(x, c, inferred) ==
  IF c = None THEN x => inferred = Untouched ELSE c = inferred

CheckClause ==
  /\ phase = "check" /\ i <= N
  /\ \E x \in BOOLEAN, c \in {None} \cup (Sets \ {Untouched}) :
       /\ exported' = [exported EXCEPT ![i] = x] /\ clause' = [clause EXCEPT ![i] = c]
       /\ \/ ClauseHolds(x, c, sets[i]) /\ i' = i + 1 /\ UNCHANGED phase
          \/ ~ClauseHolds(x, c, sets[i]) /\ phase' = "refused" /\ UNCHANGED i
  /\ UNCHANGED <<program, sets, passes, changed, execution>>

Accept ==
  /\ phase = "check" /\ i > N
  /\ phase' = "accepted"
  /\ UNCHANGED <<program, clauses, sets, passes, i, changed, execution>>
-----------------------------------------------------------------------------
(* The execution of an accepted module.                                      *)

Running == phase = "accepted" /\ calls # <<>>
Active == calls[Len(calls)]

Enter(w) ==
  /\ phase = "accepted" /\ calls = <<>>
  /\ calls' = <<w>> /\ touched' = Untouched
  /\ UNCHANGED <<program, clauses, sets, passes, i, changed, phase>>

Call(w) ==
  /\ Running /\ Len(calls) < MaxCalls
  /\ w \in callees[Active]
  /\ calls' = Append(calls, w)
  /\ UNCHANGED <<program, clauses, sets, passes, i, changed, phase, touched>>

Touch(s) ==
  /\ Running /\ direct[Active][s] # "absent"
  /\ touched' = [touched EXCEPT ![s] = Joined({touched[s], direct[Active][s]})]
  /\ UNCHANGED <<program, clauses, sets, passes, i, changed, phase, calls>>

Return ==
  /\ Running
  /\ calls' = SubSeq(calls, 1, Len(calls) - 1)
  /\ touched' = IF Len(calls) = 1 THEN Untouched ELSE touched
  /\ UNCHANGED <<program, clauses, sets, passes, i, changed, phase>>
-----------------------------------------------------------------------------
Init ==
  /\ direct \in [Words -> Sets]
  /\ callees \in [Words -> SUBSET Words]
  /\ exported = [w \in Words |-> FALSE] /\ clause = [w \in Words |-> None]
  /\ sets = direct
  /\ passes = 1 /\ i = 1 /\ changed = FALSE /\ phase = "infer"
  /\ calls = <<>> /\ touched = Untouched

Infer == Relax \/ EndPass
Check == CheckClause \/ Accept
Run == \/ \E w \in Words : Enter(w) \/ Call(w)
       \/ \E s \in Statics : Touch(s)
       \/ Return
Next == Infer \/ Check \/ Run
Spec == Init /\ [][Next]_vars
-----------------------------------------------------------------------------
TypeOK ==
  /\ direct \in [Words -> Sets] /\ sets \in [Words -> Sets]
  /\ callees \in [Words -> SUBSET Words]
  /\ exported \in [Words -> BOOLEAN] /\ clause \in [Words -> Sets \cup {None}]
  /\ passes \in 1..Bound /\ i \in 1..N + 1 /\ changed \in BOOLEAN
  /\ phase \in {"infer", "check", "accepted", "refused", "panic"}
  /\ calls \in Seq(Words) /\ touched \in Sets

\* An assignment of sets to words that every body and every call respects.
Closed(A) == \A w \in Words : /\ Within(direct[w], A[w])
                              /\ \A v \in callees[w] : Within(A[v], A[w])

\* The fixpoint ends within the passes the assertion grants it, whatever the
\* order of the words and the cycles of the call graph: no module makes the
\* compiler panic here.
PassesSuffice == phase # "panic"

\* When inference ends, the sets are closed under calls: a set is never short
\* of an access some chain of calls makes.
InferredClosed == phase \in {"check", "accepted", "refused"} => Closed(sets)

\* At no time does a set hold an access that no chain of calls makes: whatever
\* is closed under calls has it too.  An exact clause can so always be written.
NothingInvented == \A A \in [Words -> Sets] : Closed(A) => \A w \in Words : Within(sets[w], A[w])

\* What an exported word touches while it is active, itself or through the
\* words it calls, its clause declares, and with that mode; a word that has no
\* clause and is exported touches nothing.
DeclaredCoversExecution ==
  calls # <<>> =>
    LET entry == calls[1] IN
    IF clause[entry] # None THEN Within(touched, clause[entry])
    ELSE exported[entry] => touched = Untouched
=============================================================================
