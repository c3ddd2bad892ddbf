----------------------------- MODULE TailCycles -----------------------------
(* The rejection of mutual tail recursion (check/drop_graph.rs): the tail-   *)
(* call graph of a module's words, built from names alone, and the search    *)
(* for a cycle in it (CycleSearch, where a word's call of itself is the loop *)
(* it compiles to).  It runs before any body is checked, so which candidate  *)
(* of a name a call means is not known yet.  What is called in tail position *)
(* is an input; LoopSplice has the walk that finds it.                       *)
EXTENDS CycleSearch, FiniteSets

CONSTANTS
  Words,
  Names, BuiltinNames,
  Drop,     \* the name every destructor overload has
  None

ASSUME TailCyclesAssumption ==
  /\ SkipSelf = TRUE /\ IsFiniteSet(Words)
  /\ BuiltinNames \subseteq Names /\ Drop \in BuiltinNames /\ None \notin Words

VARIABLES
  name,       \* word -> its name
  overloads,  \* drop_overload_indices: the destructors, all of the name Drop
  calls       \* word -> the names it calls in tail position

program == <<name, overloads, calls>>
vars == <<program, searchVars>>

\* name_to_idx: the names that stand for one word.
CountedLast(n) == \* mutant: with several candidates one of them is kept
  LET C == {w \in Words \ overloads : name[w] = n} IN IF C = {} THEN {} ELSE {CHOOSE w \in C : TRUE}
Counted(n) == {w \in Words \ overloads : name[w] = n}
Indexed(n) == IF n \in BuiltinNames \/ Cardinality(Counted(n)) # 1 THEN {} ELSE Counted(n)
Callees == [w \in Words |-> UNION {Indexed(n) : n \in calls[w]}]

Init ==
  /\ name \in [Words -> Names] /\ calls \in [Words -> SUBSET Names]
  /\ overloads \in SUBSET {w \in Words : name[w] = Drop}
  /\ AtRest

\* adj is what the search is given.
Build == adj = <<>> /\ Words # {} /\ Begin(Callees) /\ UNCHANGED program
Search == adj # <<>> /\ SearchNext /\ UNCHANGED program

Next == Build \/ Search
Spec == Init /\ [][Next]_vars /\ WF_vars(Next)
-----------------------------------------------------------------------------
TypeOK ==
  /\ name \in [Words -> Names] /\ calls \in [Words -> SUBSET Names]
  /\ overloads \in SUBSET Words
  /\ SearchTypeOK

\* All that a call of the name may turn out to mean once operands are known.
Meanings(n) == {w \in Words : name[w] = n} \cup (IF n \in BuiltinNames THEN {None} ELSE {})

\* The words reported call each other in tail position, whatever the calls
\* turn out to mean: no valid program is rejected for a name's other meaning.
NoFabricatedCycle ==
  verdict = "cycle" => \A k \in 1..Len(cycle) :
    LET callee == cycle[IF k = Len(cycle) THEN 1 ELSE k + 1]
    IN callee # cycle[k] /\ name[callee] \in calls[cycle[k]] /\ Meanings(name[callee]) = {callee}

\* Words whose names have one meaning do not call each other in a circle in
\* tail position, in a module that is not rejected: however deep such a chain
\* of tail calls goes, it ends or is one word's loop.
NoMutualTailCalls ==
  verdict = "acyclic" => \A S \in SUBSET Words : S # {} =>
    \E u \in S : \A v \in S \ {u} : ~(name[v] \in calls[u] /\ Meanings(name[v]) = {v})
=============================================================================
