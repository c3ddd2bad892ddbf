-------------------------- MODULE CallGraphProofs --------------------------
(* Proofs about the two graphs of check/drop_graph.rs, for modules of every  *)
(* size: the tail calls of TailCycles, over any finite set of words with any *)
(* names, and the calls and disposals of DropGraph, over any finite set of   *)
(* types with any fields.  And about what the tail walk of the same file     *)
(* lets a splice do: LoopSplice, for bodies of any length.                   *)
EXTENDS TailCycles, DropGraph, LoopSplice, CycleSearchProofs, Integers, FiniteSetTheorems, NaturalsInduction, WellFoundedInduction

-----------------------------------------------------------------------------
(* TailCycles: names.                                                       *)

ProgramOK ==
  /\ name \in [Words -> Names] /\ calls \in [Words -> SUBSET Names]
  /\ overloads \subseteq {w \in Words : name[w] = Drop}

\* a name leads to the word it means when it can mean nothing else
LEMMA IndexedIsMeaning ==
  ASSUME ProgramOK, NEW n, NEW v \in Words
  PROVE  v \in Indexed(n) <=> Meanings(n) = {v}
<1>1. n \in BuiltinNames => Indexed(n) = {} /\ None \in Meanings(n) /\ None # v
  BY TailCyclesAssumption DEF Indexed, Meanings
<1>2. CASE n \in BuiltinNames
  BY <1>1, <1>2
<1>3. CASE n \notin BuiltinNames
  <2>1. \A w \in Words : name[w] = n => w \notin overloads
    BY <1>3, TailCyclesAssumption DEF ProgramOK
  <2>2. Counted(n) = {w \in Words : name[w] = n}
    BY <2>1 DEF Counted
  <2>3. Counted(n) = Meanings(n)
    BY <2>2, <1>3 DEF Meanings
  <2>4. IsFiniteSet(Counted(n))
    BY <2>2, TailCyclesAssumption, FS_Subset
  <2>5. Cardinality(Counted(n)) = 1 <=> \E x : Counted(n) = {x}
    BY <2>4, FS_Singleton
  <2>6. Indexed(n) = IF Cardinality(Counted(n)) # 1 THEN {} ELSE Counted(n)
    BY <1>3 DEF Indexed
  <2> QED BY <2>3, <2>5, <2>6
<1> QED BY <1>2, <1>3

\* the graph the search is given is one over the words
LEMMA CalleesIsGraph ==
  /\ DOMAIN Callees = Words
  /\ Callees \in [DOMAIN Callees -> SUBSET DOMAIN Callees]
BY DEF Callees, Indexed, Counted

-----------------------------------------------------------------------------
(* TailCycles: the invariant.                                               *)

TailInv ==
  /\ ProgramOK
  /\ adj = <<>> => AtRest
  /\ adj # <<>> => adj = Callees /\ SearchInv

\* the search runs on the call graph, once there is one
THEOREM TailInvariance == Spec => []TailInv
<1>1. Init => TailInv
  BY DEF Init, TailInv, ProgramOK, AtRest
<1>2. TailInv /\ [Next]_vars => TailInv'
  <2> SUFFICES ASSUME TailInv, [Next]_vars PROVE TailInv'
    OBVIOUS
  <2>1. CASE Build
    <3>1. /\ AtRest /\ Begin(Callees) /\ Words # {} /\ adj' = Callees
          /\ name' = name /\ calls' = calls /\ overloads' = overloads
      BY <2>1 DEF Build, Begin, TailInv, program
    <3>2. SearchInv'
      BY <3>1, BeginKeeps, CalleesIsGraph
    <3>3. Callees' = Callees
      BY <3>1 DEF Callees, Indexed, Counted
    <3>4. DOMAIN Callees # DOMAIN <<>>
      BY <3>1, CalleesIsGraph
    <3>5. ProgramOK'
      BY <3>1 DEF TailInv, ProgramOK
    <3> QED BY <3>1, <3>2, <3>3, <3>4, <3>5 DEF TailInv
  <2>2. CASE Search
    <3>1. /\ adj # <<>> /\ SearchNext
          /\ name' = name /\ calls' = calls /\ overloads' = overloads
      BY <2>2 DEF Search, program
    <3>2. SearchInv'
      BY <3>1, SearchKeeps DEF TailInv
    <3>3. adj' = adj
      BY <3>1 DEF SearchNext, StartAt, Descend, Enter, Pass, Report, Finish, Exhausted
    <3>4. Callees' = Callees
      BY <3>1 DEF Callees, Indexed, Counted
    <3>5. ProgramOK'
      BY <3>1 DEF TailInv, ProgramOK
    <3> QED BY <3>1, <3>2, <3>3, <3>4, <3>5 DEF TailInv
  <2>3. CASE UNCHANGED vars
    <3>1. /\ UNCHANGED searchVars /\ adj' = adj
          /\ name' = name /\ calls' = calls /\ overloads' = overloads
      BY <2>3 DEF vars, program, searchVars
    <3>2. AtRest => AtRest'
      BY <3>1 DEF AtRest, searchVars, search
    <3>3. SearchInv => SearchInv'
      BY <3>1, SearchStutters
    <3>4. Callees' = Callees
      BY <3>1 DEF Callees, Indexed, Counted
    <3>5. ProgramOK'
      BY <3>1 DEF TailInv, ProgramOK
    <3> QED BY <3>1, <3>2, <3>3, <3>4, <3>5 DEF TailInv
  <2> QED BY <2>1, <2>2, <2>3 DEF Next
<1> QED BY <1>1, <1>2, PTL DEF Spec

-----------------------------------------------------------------------------
(* What the rejection is worth.                                            *)

\* no valid program is rejected for a name's other meaning
THEOREM NoFalseRejection == Spec => []NoFabricatedCycle
<1>1. TailInv => NoFabricatedCycle
  <2> SUFFICES ASSUME TailInv, verdict = "cycle", NEW k \in 1..Len(cycle)
               PROVE  LET callee == cycle[IF k = Len(cycle) THEN 1 ELSE k + 1]
                      IN /\ callee # cycle[k] /\ name[callee] \in calls[cycle[k]]
                         /\ Meanings(name[callee]) = {callee}
    BY DEF NoFabricatedCycle
  <2> DEFINE m == IF k = Len(cycle) THEN 1 ELSE k + 1
  <2>1. adj = Callees /\ SearchInv /\ ProgramOK
    BY DEF TailInv, AtRest
  <2>2. Nodes = Words /\ cycle \in Seq(Words) /\ CycleIsReal
    BY <2>1, CalleesIsGraph DEF SearchInv, SearchTypeOK, Nodes
  <2>3. /\ Len(cycle) \in Nat /\ Len(cycle) > 1
        /\ \A p, q \in 1..Len(cycle) : cycle[p] = cycle[q] => p = q
        /\ cycle[m] \in adj[cycle[k]]
    BY <2>2, TailCyclesAssumption DEF CycleIsReal
  <2>4. m \in 1..Len(cycle) /\ m # k
    BY <2>3
  <2>5. cycle[m] # cycle[k] /\ cycle[m] \in Words /\ cycle[k] \in Words
    BY <2>2, <2>3, <2>4
  <2>6. PICK n \in calls[cycle[k]] : cycle[m] \in Indexed(n)
    BY <2>1, <2>3, <2>5 DEF Callees
  <2>7. Meanings(n) = {cycle[m]}
    BY <2>1, <2>5, <2>6, IndexedIsMeaning
  <2>8. name[cycle[m]] = n
    BY <2>5, <2>6 DEF Indexed, Counted
  <2> QED BY <2>5, <2>6, <2>7, <2>8
<1> QED BY <1>1, TailInvariance, PTL

\* a module that is not rejected has no circle of tail calls
THEOREM NoCircleAccepted == Spec => []NoMutualTailCalls
<1>1. TailInv => NoMutualTailCalls
  <2> SUFFICES ASSUME TailInv, verdict = "acyclic", NEW S \in SUBSET Words, S # {}
               PROVE  \E u \in S : \A v \in S \ {u} :
                        ~(name[v] \in calls[u] /\ Meanings(name[v]) = {v})
    BY DEF NoMutualTailCalls
  <2>1. adj = Callees /\ SearchInv /\ ProgramOK
    BY DEF TailInv, AtRest
  <2>2. Nodes = Words
    BY <2>1, CalleesIsGraph DEF Nodes
  <2>3. PICK u \in S : Succ(u) \cap S = {}
    BY <2>1, <2>2, SearchMissesNone DEF NoCycleMissed
  <2>4. ASSUME NEW v \in S \ {u}, name[v] \in calls[u], Meanings(name[v]) = {v}
        PROVE  FALSE
    <3>1. v \in Indexed(name[v])
      BY <2>1, <2>4, IndexedIsMeaning
    <3>2. v \in Callees[u]
      BY <2>4, <3>1 DEF Callees
    <3> QED BY <2>1, <2>3, <2>4, <3>2 DEF Succ
  <2> QED BY <2>4
<1> QED BY <1>1, TailInvariance, PTL

-----------------------------------------------------------------------------
(* DropGraph.                                                                *)

\* some natural numbers have a least one
LEMMA LeastOfNaturals ==
  ASSUME NEW S \in SUBSET Nat, S # {}
  PROVE  \E n \in S : \A k \in S : n <= k
<1> DEFINE Less == OpToRel(<, Nat)
<1>1. IsWellFoundedOn(Less, Nat)
  BY NatLessThanWellFounded
<1>2. PICK n \in S : \A k \in S : <<k, n>> \notin Less
  <2> HIDE DEF Less
  <2> QED BY <1>1, WFMin
<1>3. \A k \in S : ~(k < n)
  BY <1>2 DEF OpToRel
<1> QED BY <1>3

\* What DropInit says of the module the search is given.
DeclaredOK ==
  /\ DOMAIN override \subseteq Types /\ override \in [DOMAIN override -> AllWords]
  /\ label \in [AllWords \ Destructors -> Labels]
  /\ mentions \in [AllWords -> (SUBSET Labels) \X (SUBSET Types)]
  /\ generic \subseteq AllWords \ Destructors
  /\ fields \subseteq Types \X Types
  /\ Has("overloadedHelper") \/ \A v, w \in AllWords \ Destructors : label[v] = label[w] => v = w
  /\ Has("genericHelper") \/ \A w \in generic : mentions[w][2] = {}

-----------------------------------------------------------------------------
(* collect_drop_targets.  That the function which counts its calls exists is *)
(* shown by filling it in up to one number after the other.                  *)

Most == Cardinality(Types)
Begun(t) == [seen |-> {}, todo |-> {t}]
CountedTo(f, t, n) == f = [k \in 0..n |-> IF k = 0 THEN Begun(t) ELSE Called(f[k - 1])]

LEMMA CountsFurther ==
  ASSUME NEW t, NEW n \in Nat, NEW f, CountedTo(f, t, n)
  PROVE  \E g : CountedTo(g, t, n + 1)
<1> DEFINE g == [k \in 0..(n + 1) |-> IF k = n + 1 THEN Called(f[n]) ELSE f[k]]
<1>1. f = [k \in 0..n |-> IF k = 0 THEN Begun(t) ELSE Called(f[k - 1])]
  BY DEF CountedTo
<1>2. ASSUME NEW k \in 0..(n + 1) PROVE g[k] = IF k = 0 THEN Begun(t) ELSE Called(g[k - 1])
  <2>1. g[k] = IF k = n + 1 THEN Called(f[n]) ELSE f[k]
    OBVIOUS
  <2>2. k # 0 => k - 1 \in 0..(n + 1) /\ k - 1 # n + 1 /\ g[k - 1] = f[k - 1]
    OBVIOUS
  <2>3. k # n + 1 => k \in 0..n /\ f[k] = IF k = 0 THEN Begun(t) ELSE Called(f[k - 1])
    BY <1>1
  <2>4. k = n + 1 => k # 0 /\ k - 1 = n
    OBVIOUS
  <2> HIDE DEF g
  <2> QED BY <2>1, <2>2, <2>3, <2>4
<1>3. g = [k \in 0..(n + 1) |-> g[k]]
  OBVIOUS
<1> HIDE DEF g
<1>4. g = [k \in 0..(n + 1) |-> IF k = 0 THEN Begun(t) ELSE Called(g[k - 1])]
  BY <1>2, <1>3
<1> QED BY <1>4 DEF CountedTo

LEMMA CountsUpTo ==
  ASSUME NEW t, NEW m \in Nat
  PROVE  \E f : CountedTo(f, t, m)
<1> DEFINE Short == {n \in Nat : ~\E f : CountedTo(f, t, n)}
<1>1. SUFFICES ASSUME Short # {} PROVE FALSE
  OBVIOUS
<1>2. PICK n \in Short : \A k \in Short : n <= k
  <2>1. Short \in SUBSET Nat
    OBVIOUS
  <2> HIDE DEF Short
  <2> QED BY <1>1, <2>1, LeastOfNaturals
<1>3. CASE n = 0
  <2> DEFINE f == [k \in 0..0 |-> Begun(t)]
  <2>1. \A k \in 0..0 : k = 0
    OBVIOUS
  <2>2. f = [k \in 0..0 |-> IF k = 0 THEN Begun(t) ELSE Called(f[k - 1])]
    <3> HIDE DEF f
    <3> QED BY <2>1 DEF f
  <2>3. CountedTo(f, t, 0)
    <3> HIDE DEF f
    <3> QED BY <2>2 DEF CountedTo
  <2> QED BY <1>3, <2>3
<1>4. CASE n # 0
  <2>1. n - 1 \in Nat /\ n - 1 < n /\ (n - 1) + 1 = n
    BY <1>4
  <2>2. PICK f : CountedTo(f, t, n - 1)
    BY <1>2, <2>1
  <2> QED BY <2>1, <2>2, CountsFurther
<1> QED BY <1>3, <1>4

\* one call after the other
LEMMA CollectionCounts ==
  ASSUME NEW t, NEW n \in 0..Most
  PROVE  Collection(t)[n] = IF n = 0 THEN Begun(t) ELSE Called(Collection(t)[n - 1])
<1>1. Most \in Nat
  BY DropGraphAssumption, FS_CardinalityType DEF Most
<1>2. PICK f : CountedTo(f, t, Most)
  BY <1>1, CountsUpTo
<1> DEFINE C == CHOOSE g : g = [k \in 0..Most |-> IF k = 0 THEN Begun(t) ELSE Called(g[k - 1])]
<1>3. C = [k \in 0..Most |-> IF k = 0 THEN Begun(t) ELSE Called(C[k - 1])]
  BY <1>2 DEF CountedTo
<1>4. Collection(t) = C
  BY Zenon DEF Collection, Begun, Most
<1> HIDE DEF C
<1> QED BY <1>3, <1>4

-----------------------------------------------------------------------------
(* What is collected from t: the types that a chain of fields leads to from  *)
(* t, with no overridden struct before its end.                              *)

Leads(t, u, n) ==
  \E p \in Seq(Types) : /\ Len(p) \in 1..n /\ p[1] = t /\ p[Len(p)] = u
                        /\ \A k \in 1..Len(p) - 1 : p[k + 1] \in Below(p[k])
Collecting(t, c) ==
  /\ c.seen \subseteq Types /\ c.todo \subseteq Types /\ c.seen \cap c.todo = {} /\ t \in c.seen \cup c.todo
  /\ \A u \in c.seen : Below(u) \subseteq c.seen \cup c.todo
  /\ \A u \in c.seen : Leads(t, u, Cardinality(c.seen))
  /\ \A u \in c.todo : Leads(t, u, Cardinality(c.seen) + 1)

LEMMA BelowTyped ==
  ASSUME DeclaredOK, NEW t
  PROVE  Below(t) \subseteq Types
BY DEF DeclaredOK, Below, Fields

LEMMA LeadsOn ==
  ASSUME NEW t, NEW u, NEW n \in Nat, Leads(t, u, n), NEW v \in Types, v \in Below(u)
  PROVE  Leads(t, v, n + 1)
<1>1. PICK p \in Seq(Types) : /\ Len(p) \in 1..n /\ p[1] = t /\ p[Len(p)] = u
                              /\ \A k \in 1..Len(p) - 1 : p[k + 1] \in Below(p[k])
  BY DEF Leads
<1> DEFINE q == Append(p, v)
<1>2. /\ q \in Seq(Types) /\ Len(q) = Len(p) + 1 /\ q[Len(p) + 1] = v
      /\ \A k \in 1..Len(p) : q[k] = p[k]
  BY <1>1, AppendProperties
<1>3. Len(p) \in Nat /\ Len(p) >= 1
  BY <1>1
<1> HIDE DEF q
<1>4. \A k \in 1..Len(q) - 1 : q[k + 1] \in Below(q[k])
  <2> SUFFICES ASSUME NEW k \in 1..Len(q) - 1 PROVE q[k + 1] \in Below(q[k])
    OBVIOUS
  <2>1. CASE k = Len(p)
    BY <1>1, <1>2, <1>3, <2>1
  <2>2. CASE k # Len(p)
    <3>1. k \in 1..Len(p) - 1 /\ k \in 1..Len(p) /\ k + 1 \in 1..Len(p)
      BY <1>2, <1>3, <2>2
    <3> QED BY <1>1, <1>2, <3>1
  <2> QED BY <2>1, <2>2
<1>5. q[1] = t /\ q[Len(q)] = v /\ Len(q) \in 1..(n + 1)
  BY <1>1, <1>2, <1>3
<1> QED BY <1>2, <1>4, <1>5 DEF Leads

LEMMA LeadsWeaken ==
  ASSUME NEW t, NEW u, NEW n \in Nat, NEW m \in Nat, n <= m, Leads(t, u, n)
  PROVE  Leads(t, u, m)
BY DEF Leads

LEMMA CalledKeeps ==
  ASSUME DeclaredOK, NEW t, NEW c, Collecting(t, c), c.todo # {}
  PROVE  /\ Collecting(t, Called(c))
         /\ Cardinality(Called(c).seen) = Cardinality(c.seen) + 1
<1> DEFINE u == CHOOSE v \in c.todo : TRUE
           d == [seen |-> c.seen \cup {u}, todo |-> (c.todo \cup Below(u)) \ (c.seen \cup {u})]
           size == Cardinality(c.seen)
<1>1. u \in c.todo
  OBVIOUS
<1>2. Called(c) = d
  BY DEF Called
<1> HIDE DEF u
<1>3. d.seen = c.seen \cup {u} /\ d.todo = (c.todo \cup Below(u)) \ (c.seen \cup {u})
  OBVIOUS
<1> HIDE DEF d
<1>4. IsFiniteSet(c.seen) /\ size \in Nat
  BY DropGraphAssumption, FS_Subset, FS_CardinalityType DEF Collecting
<1>5. Cardinality(d.seen) = size + 1
  BY <1>1, <1>3, <1>4, FS_AddElement DEF Collecting
<1>6. Below(u) \subseteq Types
  BY BelowTyped
<1>7. /\ d.seen \subseteq Types /\ d.todo \subseteq Types /\ d.seen \cap d.todo = {} /\ t \in d.seen \cup d.todo
      /\ \A v \in d.seen : Below(v) \subseteq d.seen \cup d.todo
  BY <1>1, <1>3, <1>6 DEF Collecting
<1>8. Leads(t, u, size + 1)
  BY <1>1 DEF Collecting
<1>9. ASSUME NEW v \in d.seen PROVE Leads(t, v, size + 1)
  <2>1. CASE v \in c.seen
    <3>1. Leads(t, v, size)
      BY <2>1 DEF Collecting
    <3> QED BY <1>4, <3>1, LeadsWeaken
  <2> QED BY <1>3, <1>8, <1>9, <2>1
<1>10. ASSUME NEW v \in d.todo PROVE Leads(t, v, size + 2)
  <2>1. CASE v \in c.todo
    <3>1. Leads(t, v, size + 1)
      BY <2>1 DEF Collecting
    <3> QED BY <1>4, <3>1, LeadsWeaken
  <2>2. CASE v \in Below(u)
    <3>1. Leads(t, v, (size + 1) + 1)
      BY <1>4, <1>6, <1>8, <2>2, LeadsOn
    <3>2. (size + 1) + 1 = size + 2
      BY <1>4
    <3> QED BY <3>1, <3>2
  <2> QED BY <1>3, <1>10, <2>1, <2>2
<1>11. size + 2 = Cardinality(d.seen) + 1
  BY <1>4, <1>5
<1> HIDE DEF size
<1>12. Collecting(t, d)
  BY <1>5, <1>7, <1>9, <1>10, <1>11 DEF Collecting
<1> QED BY <1>2, <1>5, <1>12 DEF size

\* after as many calls as there are types none is left
LEMMA CollectionEnds ==
  ASSUME DeclaredOK, NEW t \in Types, NEW n \in 0..Most
  PROVE  /\ Collecting(t, Collection(t)[n])
         /\ Collection(t)[n].todo = {} \/ Cardinality(Collection(t)[n].seen) = n
<1> DEFINE Good(k) == /\ Collecting(t, Collection(t)[k])
                      /\ Collection(t)[k].todo = {} \/ Cardinality(Collection(t)[k].seen) = k
           Bad == {k \in 0..Most : ~Good(k)}
<1>0. Most \in Nat
  BY DropGraphAssumption, FS_CardinalityType DEF Most
<1>1. SUFFICES ASSUME Bad # {} PROVE FALSE
  OBVIOUS
<1>2. PICK k \in Bad : \A m \in Bad : k <= m
  <2>1. Bad \in SUBSET Nat
    OBVIOUS
  <2> HIDE DEF Bad
  <2> QED BY <1>1, <2>1, LeastOfNaturals
<1>3. k \in 0..Most /\ ~Good(k)
  OBVIOUS
<1>4. CASE k = 0
  <2>1. Collection(t)[0] = Begun(t)
    <3>1. 0 \in 0..Most
      BY <1>0
    <3> HIDE DEF Good, Bad
    <3> QED BY <3>1, CollectionCounts
  <2>2. Leads(t, t, 1)
    <3> DEFINE p == <<t>>
    <3>1. p \in Seq(Types) /\ Len(p) = 1 /\ p[1] = t
      OBVIOUS
    <3> HIDE DEF p
    <3>2. \A k1 \in 1..Len(p) - 1 : FALSE
      BY <3>1
    <3>3. Len(p) \in 1..1 /\ p[Len(p)] = t
      BY <3>1
    <3>4. \A k1 \in 1..Len(p) - 1 : p[k1 + 1] \in Below(p[k1])
      BY <3>2
    <3> QED BY <3>1, <3>3, <3>4, Zenon DEF Leads
  <2>3. Cardinality({}) = 0
    BY FS_EmptySet
  <2>4. Collecting(t, Begun(t))
    BY <2>2, <2>3 DEF Collecting, Begun
  <2> QED BY <1>3, <1>4, <2>1, <2>3, <2>4 DEF Begun
<1>5. CASE k # 0
  <2> DEFINE c == Collection(t)[k - 1]
  <2>1. k - 1 \in 0..Most /\ ~(k <= k - 1) /\ k - 1 >= 0 /\ (k - 1) + 1 = k
    BY <1>0, <1>3, <1>5
  <2>2. Good(k - 1)
    BY <1>2, <2>1
  <2>3. Collection(t)[k] = Called(c)
    BY <1>3, <1>5, CollectionCounts
  <2>4. Collecting(t, c) /\ (c.todo = {} \/ Cardinality(c.seen) = k - 1)
    BY <2>2
  <2> HIDE DEF c
  <2>5. CASE c.todo = {}
    <3>1. Called(c) = c
      BY <2>5 DEF Called
    <3> QED BY <1>3, <2>3, <2>4, <2>5, <3>1
  <2>6. CASE c.todo # {}
    <3>1. Collecting(t, Called(c)) /\ Cardinality(Called(c).seen) = k
      BY <2>1, <2>4, <2>6, CalledKeeps
    <3> QED BY <1>3, <2>3, <3>1
  <2> QED BY <2>5, <2>6
<1> QED BY <1>4, <1>5

LEMMA CollectedIsClosed ==
  ASSUME DeclaredOK, NEW t \in Types
  PROVE  /\ t \in Collected(t) /\ Collected(t) \subseteq Types
         /\ \A u \in Collected(t) : Below(u) \subseteq Collected(t) /\ Leads(t, u, Most)
<1> DEFINE c == Collection(t)[Most]
<1>0. Most \in Nat /\ Most \in 0..Most
  BY DropGraphAssumption, FS_CardinalityType DEF Most
<1>1. Collecting(t, c) /\ (c.todo = {} \/ Cardinality(c.seen) = Most)
  BY <1>0, CollectionEnds
<1>2. Collected(t) = c.seen
  BY DEF Collected, Most
<1> HIDE DEF c
<1>3. c.seen \subseteq Types /\ IsFiniteSet(c.seen) /\ Cardinality(c.seen) \in Nat /\ Cardinality(c.seen) <= Most
  BY <1>1, DropGraphAssumption, FS_Subset, FS_CardinalityType DEF Collecting, Most
<1>4. c.todo = {}
  <2>1. CASE Cardinality(c.seen) = Most
    <3>1. c.seen = Types
      BY <1>3, <2>1, DropGraphAssumption, FS_Subset DEF Most
    <3> QED BY <1>1, <3>1 DEF Collecting
  <2> QED BY <1>1, <2>1
<1>5. ASSUME NEW u \in c.seen PROVE Leads(t, u, Most)
  <2>1. Leads(t, u, Cardinality(c.seen))
    BY <1>1 DEF Collecting
  <2> QED BY <1>0, <1>3, <2>1, LeadsWeaken
<1> QED BY <1>1, <1>2, <1>3, <1>4, <1>5 DEF Collecting

\* the call sites of a destructor are those that the glue of a type leads to
LEMMA TargetsAreDisposed ==
  ASSUME DeclaredOK, NEW t \in Types
  PROVE  DropTargets(t) = Disposes(t)
<1>0. Most \in Nat
  BY DropGraphAssumption, FS_CardinalityType DEF Most
<1>1. ASSUME NEW u \in Collected(t) \cap DOMAIN override
      PROVE  \E p \in Paths(t) : p[Len(p)] = u
  <2>1. PICK p \in Seq(Types) : /\ Len(p) \in 1..Most /\ p[1] = t /\ p[Len(p)] = u
                                 /\ \A k \in 1..Len(p) - 1 : p[k + 1] \in Below(p[k])
    BY CollectedIsClosed DEF Leads
  <2>2. p \in [1..Len(p) -> Types]
    OBVIOUS
  <2>3. \A k \in 1..Len(p) - 1 : p[k + 1] \in Fields(p[k]) /\ p[k] \notin DOMAIN override
    BY <2>1 DEF Below
  <2> QED BY <2>1, <2>2, <2>3 DEF Paths, Most
<1>2. ASSUME NEW p \in Paths(t) PROVE p[Len(p)] \in Collected(t)
  <2>1. PICK n \in 1..Most : p \in [1..n -> Types]
    BY DEF Paths, Most
  <2>2. n \in Nat /\ n >= 1 /\ Len(p) = n
    BY <1>0, <2>1
  <2>3. p[1] = t /\ \A k \in 1..n - 1 : p[k + 1] \in Below(p[k])
    BY <2>2 DEF Paths, Below
  <2> DEFINE Bad == {k \in 1..n : p[k] \notin Collected(t)}
  <2>4. SUFFICES ASSUME Bad # {} PROVE FALSE
    BY <2>2
  <2>5. PICK k \in Bad : \A m \in Bad : k <= m
    <3>1. Bad \in SUBSET Nat
      BY <2>2
    <3> HIDE DEF Bad
    <3> QED BY <2>4, <3>1, LeastOfNaturals
  <2>6. k # 1
    BY <2>3, CollectedIsClosed
  <2>7. k - 1 \in 1..n /\ k - 1 \in 1..n - 1 /\ ~(k <= k - 1) /\ (k - 1) + 1 = k
    BY <2>2, <2>6
  <2>8. p[k - 1] \in Collected(t)
    BY <2>5, <2>7
  <2>9. p[k] \in Below(p[k - 1])
    BY <2>3, <2>7
  <2> QED BY <2>8, <2>9, CollectedIsClosed
<1>3. \A u : u \in Collected(t) \cap DOMAIN override <=> \E p \in Paths(t) : p[Len(p)] \in DOMAIN override /\ p[Len(p)] = u
  BY <1>1, <1>2
<1> QED BY <1>3 DEF DropTargets, Disposes

-----------------------------------------------------------------------------
(* The graph against what runs.                                              *)

LEMMA ReachesIs ==
  ASSUME NEW w, NEW v
  PROVE  v \in Reaches(w) <=> (\E n \in mentions[w][1] : v \in Callee(n)) \/ (\E t \in Recorded(w) : v \in DropTargets(t))
<1> DEFINE A == UNION {Callee(n) : n \in mentions[w][1]}
           B == UNION {DropTargets(t) : t \in Recorded(w)}
<1>1. Reaches(w) = A \cup B
  BY DEF Reaches
<1>2. v \in A <=> \E n \in mentions[w][1] : v \in Callee(n)
  OBVIOUS
<1>3. v \in B <=> \E t \in Recorded(w) : v \in DropTargets(t)
  OBVIOUS
<1> HIDE DEF A, B
<1> QED BY <1>1, <1>2, <1>3

LEMMA ReachesOnlyWhatRuns ==
  ASSUME DeclaredOK, NEW w \in AllWords
  PROVE  Reaches(w) \subseteq Runs(w)
<1>1. \A n \in mentions[w][1] : Callee(n) \subseteq {v \in AllWords \ Destructors : label[v] \in mentions[w][1]}
  BY DEF Callee
<1>2. Recorded(w) \subseteq mentions[w][2] /\ mentions[w][2] \subseteq Types
  BY DEF Recorded, DeclaredOK
<1>3. \A t \in Recorded(w) : DropTargets(t) = Disposes(t)
  BY <1>2, TargetsAreDisposed
<1> SUFFICES ASSUME NEW v \in Reaches(w) PROVE v \in Runs(w)
  OBVIOUS
<1>4. CASE \E n \in mentions[w][1] : v \in Callee(n)
  BY <1>1, <1>4 DEF Runs
<1>5. ASSUME NEW t \in Recorded(w), v \in DropTargets(t) PROVE v \in Runs(w)
  <2>1. t \in mentions[w][2] /\ v \in Disposes(t)
    BY <1>2, <1>3, <1>5
  <2> QED BY <2>1 DEF Runs
<1> QED BY <1>4, <1>5, ReachesIs

LEMMA ReachesAllThatRuns ==
  ASSUME DeclaredOK, Shapes \cap {"overloadedHelper", "genericHelper"} = {}, NEW w \in AllWords
  PROVE  Runs(w) \subseteq Reaches(w)
<1>1. \A u, v \in AllWords \ Destructors : label[u] = label[v] => u = v
  BY DEF DeclaredOK, Has
<1>2. ASSUME NEW v \in AllWords \ Destructors, label[v] \in mentions[w][1]
      PROVE  v \in Callee(label[v])
  <2>1. v <= v
    BY DropGraphAssumption
  <2> QED BY <1>1, <2>1 DEF Callee
<1>3. Recorded(w) = mentions[w][2] /\ mentions[w][2] \subseteq Types
  BY DEF Recorded, DeclaredOK, Has
<1>4. \A t \in mentions[w][2] : DropTargets(t) = Disposes(t)
  BY <1>3, TargetsAreDisposed
<1> SUFFICES ASSUME NEW v \in Runs(w) PROVE v \in Reaches(w)
  OBVIOUS
<1>5. CASE v \in AllWords \ Destructors /\ label[v] \in mentions[w][1]
  BY <1>2, <1>5, ReachesIs
<1>6. CASE v \in UNION {Disposes(t) : t \in mentions[w][2]}
  <2>1. PICK t \in mentions[w][2] : v \in Disposes(t)
    BY <1>6
  <2>2. t \in Recorded(w) /\ v \in DropTargets(t)
    BY <1>3, <1>4, <2>1
  <2> QED BY <2>2, ReachesIs
<1> QED BY <1>5, <1>6 DEF Runs

LEMMA ReachesTyped ==
  ASSUME DeclaredOK, NEW w \in AllWords
  PROVE  Reaches(w) \subseteq AllWords
<1>2. \A t : DropTargets(t) \subseteq AllWords
  BY DEF DropTargets, DeclaredOK
<1>3. \A n : Callee(n) \subseteq AllWords
  BY DEF Callee
<1> QED BY <1>2, <1>3, ReachesIs

-----------------------------------------------------------------------------
(* The invariant.                                                            *)

\* a destructor that no chain of calls from it leads back to
Safe(w) == \E S \in SUBSET AllWords : w \in S /\ \A v \in S : Reaches(v) \subseteq S \ {w}

\* The chain is one of calls, and a word on it has passed what is not in
\* `rest`: words seen before, and none the start.
ChainHolds ==
  /\ chain # <<>> => target # 0 /\ chain[1] = Start
  /\ \A k \in 1..Len(chain) :
       /\ chain[k] \in visited /\ rest[k] \subseteq Reaches(chain[k])
       /\ \A v \in Reaches(chain[k]) : v \in rest[k] \/ (v \in visited /\ v # Start)
  /\ \A k \in 1..Len(chain) - 1 : chain[k + 1] \in Reaches(chain[k])

\* A word that was left leads only to words seen, and not to the start.
LeftHolds ==
  /\ target # 0 => Start \in visited
  /\ \A w \in visited : (\E k \in 1..Len(chain) : chain[k] = w) \/ \A v \in Reaches(w) : v \in visited /\ v # Start

ActiveHolds ==
  /\ active # <<>> => stage = "accepted"
  /\ \A k \in 1..Len(active) - 1 : active[k + 1] \in Runs(active[k])

LookTypeOK ==
  /\ stage \in {"search", "refused", "accepted"} /\ target \in {0} \cup DOMAIN override
  /\ visited \subseteq AllWords /\ chain \in Seq(AllWords) /\ rest \in Seq(SUBSET AllWords) /\ Len(rest) = Len(chain)
  /\ active \in Seq(AllWords)

IInv ==
  /\ DeclaredOK /\ LookTypeOK /\ ChainHolds /\ LeftHolds /\ ActiveHolds
  /\ \A t \in DOMAIN override : t < target => Safe(override[t])
  /\ stage = "accepted" => chain = <<>> /\ \A t \in DOMAIN override : t <= target
  /\ stage = "refused" => chain # <<>> /\ Start \in rest[Here]

LEMMA DeclaredStays ==
  ASSUME UNCHANGED declared
  PROVE  /\ (DeclaredOK' <=> DeclaredOK) /\ override' = override
         /\ \A w : Reaches(w)' = Reaches(w) /\ Runs(w)' = Runs(w) /\ (Safe(w)' <=> Safe(w))
<1>1. UNCHANGED <<label, override, mentions, generic, fields>>
  BY DEF declared
<1>2. Destructors' = Destructors
  BY <1>1 DEF Destructors
<1>3. DeclaredOK' <=> DeclaredOK
  BY <1>1, <1>2 DEF DeclaredOK
<1>4. \A t : Fields(t)' = Fields(t)
  BY <1>1 DEF Fields
<1>5. \A t : Below(t)' = Below(t)
  BY <1>1, <1>4 DEF Below
<1>6. \A c : Called(c)' = Called(c)
  BY <1>5 DEF Called
<1>7. \A t : Collection(t)' = Collection(t)
  BY <1>6 DEF Collection
<1>8. \A t : Collected(t)' = Collected(t)
  BY <1>7 DEF Collected
<1>9. \A t : DropTargets(t)' = DropTargets(t)
  BY <1>1, <1>8 DEF DropTargets
<1>10. \A n : Callee(n)' = Callee(n)
  BY <1>1, <1>2 DEF Callee
<1>11. \A w : Recorded(w)' = Recorded(w)
  BY <1>1 DEF Recorded
<1>12. \A w : Reaches(w)' = Reaches(w)
  BY <1>1, <1>9, <1>10, <1>11 DEF Reaches
<1>13. \A t : Paths(t)' = Paths(t)
  BY <1>1, <1>4 DEF Paths
<1>14. \A t : Disposes(t)' = Disposes(t)
  BY <1>1, <1>13 DEF Disposes
<1>15. \A w : Runs(w)' = Runs(w)
  BY <1>1, <1>2, <1>14 DEF Runs
<1>16. \A w : Safe(w)' <=> Safe(w)
  BY <1>12 DEF Safe
<1> QED BY <1>1, <1>3, <1>12, <1>15, <1>16

LEMMA DropStarts == DropInit => IInv
<1> SUFFICES ASSUME DropInit PROVE IInv
  OBVIOUS
<1>1. DeclaredOK
  BY DropGraphAssumption DEF DropInit, DeclaredOK
<1>2. stage = "search" /\ target = 0 /\ visited = {} /\ chain = <<>> /\ rest = <<>> /\ active = <<>>
  BY DEF DropInit
<1>3. LookTypeOK /\ ChainHolds /\ LeftHolds /\ ActiveHolds
  BY <1>2 DEF LookTypeOK, ChainHolds, LeftHolds, ActiveHolds
<1>4. \A t \in DOMAIN override : ~(t < 0)
  BY <1>1, DropGraphAssumption DEF DeclaredOK
<1> QED BY <1>1, <1>2, <1>3, <1>4 DEF IInv

\* the destructors whose search is over
LEMMA SearchedAreSafe ==
  ASSUME IInv, chain = <<>>, NEW t \in DOMAIN override, t <= target
  PROVE  Safe(override[t])
<1>1. t \in Nat /\ target \in Nat
  BY DropGraphAssumption DEF IInv, DeclaredOK, LookTypeOK
<1>2. CASE t < target
  BY <1>2 DEF IInv
<1>3. CASE t = target
  <2>1. target # 0
    BY <1>3, DropGraphAssumption DEF IInv, DeclaredOK
  <2>2. Start \in visited /\ visited \in SUBSET AllWords
    BY <2>1 DEF IInv, LeftHolds, LookTypeOK
  <2>3. \A w \in visited : Reaches(w) \subseteq visited \ {Start}
    BY DEF IInv, LeftHolds
  <2> QED BY <1>3, <2>2, <2>3 DEF Safe, Start
<1> QED BY <1>1, <1>2, <1>3

\* the next search begins: nothing but its start is marked
LEMMA NextTargetKeeps ==
  ASSUME IInv, NextTarget
  PROVE  IInv'
<1> DEFINE start == override[target']
<1>1. /\ stage = "search" /\ chain = <<>> /\ stage' = "search" /\ UNCHANGED <<declared, active>>
      /\ target' \in DOMAIN override /\ \A t \in DOMAIN override : t > target => target' <= t
  BY DEF NextTarget
<1>2. visited' = {start} /\ chain' = <<start>> /\ rest' = <<Reaches(start)>>
  BY DEF NextTarget, Marked
<1>3. /\ DeclaredOK /\ DeclaredOK' /\ override' = override
      /\ \A w : Reaches(w)' = Reaches(w) /\ Runs(w)' = Runs(w) /\ (Safe(w)' <=> Safe(w))
  BY <1>1, DeclaredStays DEF IInv
<1>4. start \in AllWords /\ target' # 0 /\ Start' = start
  BY <1>1, <1>3, DropGraphAssumption DEF DeclaredOK, Start
<1>5. Reaches(start) \subseteq AllWords
  BY <1>3, <1>4, ReachesTyped
<1> HIDE DEF start
<1>6. Len(chain') = 1 /\ Len(rest') = 1 /\ chain'[1] = start /\ rest'[1] = Reaches(start)
  BY <1>2
<1>7. chain' \in Seq(AllWords) /\ rest' \in Seq(SUBSET AllWords)
  BY <1>2, <1>4, <1>5
<1>8. active = <<>> /\ active' = <<>>
  BY <1>1 DEF IInv, ActiveHolds
<1>9. LookTypeOK'
  BY <1>1, <1>2, <1>3, <1>4, <1>6, <1>7, <1>8 DEF LookTypeOK
<1>10. ChainHolds'
  <2>1. \A k \in 1..Len(chain') : k = 1
    BY <1>6
  <2>2. \A k \in 1..Len(chain') - 1 : FALSE
    BY <1>6
  <2> QED BY <1>2, <1>3, <1>4, <1>6, <2>1, <2>2 DEF ChainHolds
<1>11. LeftHolds'
  BY <1>2, <1>4, <1>6 DEF LeftHolds
<1>12. ActiveHolds'
  <2>1. \A k \in 1..Len(active') - 1 : FALSE
    BY <1>8
  <2> QED BY <1>8, <2>1 DEF ActiveHolds
<1>13. ASSUME NEW t \in DOMAIN override, t < target' PROVE Safe(override[t])
  <2>1. ~(t > target)
    BY <1>1, <1>3, <1>13, DropGraphAssumption DEF DeclaredOK
  <2>2. t <= target
    BY <2>1, <1>3, DropGraphAssumption DEF IInv, LookTypeOK, DeclaredOK
  <2> QED BY <1>1, <2>2, SearchedAreSafe
<1> QED BY <1>1, <1>3, <1>9, <1>10, <1>11, <1>12, <1>13 DEF IInv

\* all are searched
LEMMA AcceptKeeps ==
  ASSUME IInv, Accept
  PROVE  IInv'
<1>1. /\ stage = "search" /\ chain = <<>> /\ stage' = "accepted" /\ UNCHANGED <<declared, looking, active>>
      /\ \A t \in DOMAIN override : t <= target
  BY DEF Accept
<1>2. UNCHANGED <<target, visited, chain, rest, active, override>>
  BY <1>1, DeclaredStays DEF looking
<1>3. /\ (DeclaredOK' <=> DeclaredOK) /\ Start' = Start
      /\ \A w : Reaches(w)' = Reaches(w) /\ Runs(w)' = Runs(w) /\ (Safe(w)' <=> Safe(w))
  BY <1>1, <1>2, DeclaredStays DEF Start
<1>4. LookTypeOK'
  BY <1>1, <1>2 DEF IInv, LookTypeOK
<1>5. ChainHolds' /\ LeftHolds'
  BY <1>2, <1>3 DEF IInv, ChainHolds, LeftHolds
<1>6. ActiveHolds'
  BY <1>1, <1>2, <1>3 DEF IInv, ActiveHolds
<1> QED BY <1>1, <1>2, <1>3, <1>4, <1>5, <1>6 DEF IInv

\* the start is reached
LEMMA ReachedKeeps ==
  ASSUME IInv, Reached
  PROVE  IInv'
<1>1. /\ stage = "search" /\ chain # <<>> /\ Start \in rest[Here] /\ stage' = "refused"
      /\ UNCHANGED <<declared, looking, active>>
  BY DEF Reached
<1>2. UNCHANGED <<target, visited, chain, rest, active, override>>
  BY <1>1, DeclaredStays DEF looking
<1>3. /\ (DeclaredOK' <=> DeclaredOK) /\ Start' = Start /\ Here' = Here
      /\ \A w : Reaches(w)' = Reaches(w) /\ Runs(w)' = Runs(w) /\ (Safe(w)' <=> Safe(w))
  BY <1>1, <1>2, DeclaredStays DEF Start, Here
<1>4. LookTypeOK'
  BY <1>1, <1>2 DEF IInv, LookTypeOK
<1>5. ChainHolds' /\ LeftHolds'
  BY <1>2, <1>3 DEF IInv, ChainHolds, LeftHolds
<1>6. ActiveHolds'
  BY <1>1, <1>2, <1>3 DEF IInv, ActiveHolds
<1> QED BY <1>1, <1>2, <1>3, <1>4, <1>5, <1>6 DEF IInv

\* what every step of reaches_start leaves as it is
LEMMA LookStays ==
  ASSUME IInv, stage = "search", chain # <<>>, UNCHANGED <<declared, stage, target, active>>
  PROVE  /\ DeclaredOK /\ DeclaredOK' /\ override' = override /\ Start' = Start /\ active = <<>> /\ ActiveHolds'
         /\ \A w : Reaches(w)' = Reaches(w) /\ (Safe(w)' <=> Safe(w))
         /\ Here \in Nat \ {0} /\ Here = Len(chain) /\ Len(rest) = Here
         /\ chain \in Seq(AllWords) /\ rest \in Seq(SUBSET AllWords) /\ visited \subseteq AllWords
         /\ chain[1] = Start /\ target # 0
<1>1. /\ DeclaredOK' /\ DeclaredOK /\ override' = override
      /\ \A w : Reaches(w)' = Reaches(w) /\ (Safe(w)' <=> Safe(w))
  BY DeclaredStays DEF IInv
<1>2. Start' = Start
  BY <1>1 DEF Start
<1>3. active = <<>>
  BY DEF IInv, ActiveHolds
<1>4. ActiveHolds'
  <2>1. active' = <<>> /\ \A k \in 1..Len(active') - 1 : FALSE
    BY <1>3
  <2> QED BY <2>1 DEF ActiveHolds
<1>5. /\ chain \in Seq(AllWords) /\ rest \in Seq(SUBSET AllWords) /\ visited \subseteq AllWords
      /\ Len(rest) = Len(chain) /\ chain[1] = Start /\ target # 0
  BY DEF IInv, LookTypeOK, ChainHolds
<1>6. Here = Len(chain) /\ Here \in Nat \ {0}
  BY <1>5 DEF Here
<1> QED BY <1>1, <1>2, <1>3, <1>4, <1>5, <1>6

\* a word of the chain passes one successor
Without(r, h, v) == [r EXCEPT ![h] = @ \ {v}]
LEMMA Passed ==
  ASSUME NEW r \in Seq(SUBSET AllWords), NEW h \in 1..Len(r), NEW v
  PROVE  /\ Without(r, h, v) \in Seq(SUBSET AllWords) /\ Len(Without(r, h, v)) = Len(r)
         /\ Without(r, h, v)[h] = r[h] \ {v} /\ \A k \in 1..Len(r) : k # h => Without(r, h, v)[k] = r[k]
<1> DEFINE e == r[h] \ {v}
           q == Without(r, h, v)
<1>1. e \in SUBSET AllWords
  <2>1. r[h] \in SUBSET AllWords
    BY ElementOfSeq
  <2> QED BY <2>1
<1>2. q = [r EXCEPT ![h] = e]
  BY DEF Without
<1>3. \A k \in 1..Len(r) : k = h => r[k] \ {v} = e
  OBVIOUS
<1> HIDE DEF e, q
<1>4. q \in Seq(SUBSET AllWords)
  BY <1>1, <1>2, ExceptSeq
<1>5. Len(q) = Len(r)
  BY <1>1, <1>2, ExceptSeq
<1>6. \A k \in 1..Len(r) : q[k] = IF k = h THEN e ELSE r[k]
  <2>1. DOMAIN r = 1..Len(r)
    OBVIOUS
  <2> QED BY <1>2, <2>1
<1> QED BY <1>3, <1>4, <1>5, <1>6 DEF q

LEMMA PassOverKeeps ==
  ASSUME IInv, stage = "search", chain # <<>>, UNCHANGED <<declared, stage, target, active>>, PassOver
  PROVE  IInv'
<1>1. PICK v \in (rest[Here] \ {Start}) \cap visited :
        rest' = [rest EXCEPT ![Here] = @ \ {v}] /\ UNCHANGED <<visited, chain>>
  BY DEF PassOver
<1>2. /\ DeclaredOK /\ DeclaredOK' /\ override' = override /\ Start' = Start /\ active = <<>> /\ ActiveHolds'
      /\ \A w : Reaches(w)' = Reaches(w) /\ (Safe(w)' <=> Safe(w))
      /\ Here \in Nat \ {0} /\ Here = Len(chain) /\ Len(rest) = Here
      /\ chain \in Seq(AllWords) /\ rest \in Seq(SUBSET AllWords) /\ visited \subseteq AllWords
      /\ chain[1] = Start /\ target # 0
  BY LookStays
<1>3. /\ rest' \in Seq(SUBSET AllWords) /\ Len(rest') = Len(chain)
      /\ \A k \in 1..Len(chain) : rest'[k] = IF k = Here THEN rest[k] \ {v} ELSE rest[k]
  <2>1. Here \in 1..Len(rest)
    BY <1>2
  <2>2. rest' = Without(rest, Here, v)
    BY <1>1 DEF Without
  <2>3. rest \in Seq(SUBSET AllWords)
    BY <1>2
  <2>4. /\ Without(rest, Here, v) \in Seq(SUBSET AllWords) /\ Len(Without(rest, Here, v)) = Len(rest)
        /\ Without(rest, Here, v)[Here] = rest[Here] \ {v}
        /\ \A k \in 1..Len(rest) : k # Here => Without(rest, Here, v)[k] = rest[k]
    BY <2>1, <2>3, Passed
  <2> QED BY <1>2, <2>2, <2>4
<1>4. LookTypeOK'
  BY <1>1, <1>2, <1>3 DEF IInv, LookTypeOK
<1>5. ChainHolds'
  <2>1. ASSUME NEW k \in 1..Len(chain)
        PROVE  /\ rest'[k] \subseteq Reaches(chain[k])
               /\ \A w \in Reaches(chain[k]) : w \in rest'[k] \/ (w \in visited /\ w # Start)
    BY <1>1, <1>3 DEF IInv, ChainHolds
  <2> QED BY <1>1, <1>2, <2>1 DEF IInv, ChainHolds
<1>6. LeftHolds'
  BY <1>1, <1>2 DEF IInv, LeftHolds
<1> QED BY <1>1, <1>2, <1>4, <1>5, <1>6 DEF IInv

LEMMA DeeperKeeps ==
  ASSUME IInv, stage = "search", chain # <<>>, UNCHANGED <<declared, stage, target, active>>, Deeper
  PROVE  IInv'
<1>1. PICK v \in rest[Here] \ {Start} :
        /\ v \notin visited
        /\ visited' = visited \cup {v} /\ chain' = Append(chain, v)
        /\ rest' = Append([rest EXCEPT ![Here] = @ \ {v}], Reaches(v))
  BY DEF Deeper
<1>2. /\ DeclaredOK /\ DeclaredOK' /\ override' = override /\ Start' = Start /\ active = <<>> /\ ActiveHolds'
      /\ \A w : Reaches(w)' = Reaches(w) /\ (Safe(w)' <=> Safe(w))
      /\ Here \in Nat \ {0} /\ Here = Len(chain) /\ Len(rest) = Here
      /\ chain \in Seq(AllWords) /\ rest \in Seq(SUBSET AllWords) /\ visited \subseteq AllWords
      /\ chain[1] = Start /\ target # 0
  BY LookStays
<1>3. v \in AllWords /\ Reaches(v) \subseteq AllWords
  BY <1>1, <1>2, ReachesTyped
<1>4. /\ chain' \in Seq(AllWords) /\ Len(chain') = Here + 1 /\ chain'[Here + 1] = v
      /\ \A k \in 1..Here : chain'[k] = chain[k]
  BY <1>1, <1>2, <1>3, AppendProperties
<1> DEFINE passed == [rest EXCEPT ![Here] = @ \ {v}]
<1>5. /\ passed \in Seq(SUBSET AllWords) /\ Len(passed) = Here
      /\ \A k \in 1..Here : passed[k] = IF k = Here THEN rest[k] \ {v} ELSE rest[k]
  <2>1. Here \in 1..Len(rest)
    BY <1>2
  <2>2. passed = Without(rest, Here, v)
    BY DEF Without
  <2> HIDE DEF passed
  <2>3. rest \in Seq(SUBSET AllWords)
    BY <1>2
  <2>4. /\ Without(rest, Here, v) \in Seq(SUBSET AllWords) /\ Len(Without(rest, Here, v)) = Len(rest)
        /\ Without(rest, Here, v)[Here] = rest[Here] \ {v}
        /\ \A k \in 1..Len(rest) : k # Here => Without(rest, Here, v)[k] = rest[k]
    BY <2>1, <2>3, Passed
  <2> QED BY <1>2, <2>2, <2>4
<1>6. rest' = Append(passed, Reaches(v))
  BY <1>1
<1> HIDE DEF passed
<1>7. /\ rest' \in Seq(SUBSET AllWords) /\ Len(rest') = Here + 1 /\ rest'[Here + 1] = Reaches(v)
      /\ \A k \in 1..Here : rest'[k] = IF k = Here THEN rest[k] \ {v} ELSE rest[k]
  <2>1. Reaches(v) \in SUBSET AllWords
    BY <1>3
  <2>2. rest' \in Seq(SUBSET AllWords) /\ Len(rest') = Len(passed) + 1 /\ rest'[Len(passed) + 1] = Reaches(v)
        /\ \A k \in 1..Len(passed) : rest'[k] = passed[k]
    BY <1>5, <1>6, <2>1, AppendProperties
  <2> QED BY <1>5, <2>2
<1>8. LookTypeOK'
  BY <1>1, <1>2, <1>3, <1>4, <1>7 DEF IInv, LookTypeOK
<1>9. ChainHolds'
  <2>1. chain' # <<>> /\ chain'[1] = Start
    BY <1>2, <1>4
  <2>2. ASSUME NEW k \in 1..Here
        PROVE  /\ chain'[k] \in visited' /\ rest'[k] \subseteq Reaches(chain'[k])
               /\ \A w \in Reaches(chain'[k]) : w \in rest'[k] \/ (w \in visited' /\ w # Start)
    BY <1>1, <1>2, <1>4, <1>7 DEF IInv, ChainHolds
  <2>3. /\ chain'[Here + 1] \in visited' /\ rest'[Here + 1] \subseteq Reaches(chain'[Here + 1])
        /\ \A w \in Reaches(chain'[Here + 1]) : w \in rest'[Here + 1]
    BY <1>1, <1>4, <1>7
  <2>4. ASSUME NEW k \in 1..Here PROVE chain'[k + 1] \in Reaches(chain'[k])
    <3>1. CASE k = Here
      BY <1>1, <1>2, <1>4, <3>1 DEF IInv, ChainHolds
    <3>2. CASE k # Here
      <4>1. k \in 1..Len(chain) - 1 /\ k \in 1..Here /\ k + 1 \in 1..Here
        BY <1>2, <3>2
      <4> QED BY <1>4, <4>1 DEF IInv, ChainHolds
    <3> QED BY <3>1, <3>2
  <2>5. \A k \in 1..Len(chain') : k \in 1..Here \/ k = Here + 1
    BY <1>2, <1>4
  <2>6. \A k \in 1..Len(chain') - 1 : k \in 1..Here
    BY <1>2, <1>4
  <2> QED BY <1>2, <2>1, <2>2, <2>3, <2>4, <2>5, <2>6 DEF ChainHolds
<1>10. LeftHolds'
  <2>1. Start' \in visited'
    BY <1>1, <1>2 DEF IInv, LeftHolds
  <2>2. ASSUME NEW w \in visited'
        PROVE  (\E k \in 1..Len(chain') : chain'[k] = w) \/ \A u \in Reaches(w) : u \in visited' /\ u # Start
    <3>1. CASE w = v
      BY <1>2, <1>4, <3>1
    <3>2. CASE \E k \in 1..Len(chain) : chain[k] = w
      BY <1>2, <1>4, <3>2
    <3> QED BY <1>1, <3>1, <3>2 DEF IInv, LeftHolds
  <2> QED BY <1>2, <2>1, <2>2 DEF LeftHolds
<1> QED BY <1>1, <1>2, <1>8, <1>9, <1>10 DEF IInv

LEMMA LeaveKeeps ==
  ASSUME IInv, stage = "search", chain # <<>>, UNCHANGED <<declared, stage, target, active>>, Leave
  PROVE  IInv'
<1>1. /\ rest[Here] = {} /\ chain' = SubSeq(chain, 1, Here - 1) /\ rest' = SubSeq(rest, 1, Here - 1)
      /\ visited' = visited
  BY DEF Leave
<1>2. /\ DeclaredOK /\ DeclaredOK' /\ override' = override /\ Start' = Start /\ active = <<>> /\ ActiveHolds'
      /\ \A w : Reaches(w)' = Reaches(w) /\ (Safe(w)' <=> Safe(w))
      /\ Here \in Nat \ {0} /\ Here = Len(chain) /\ Len(rest) = Here
      /\ chain \in Seq(AllWords) /\ rest \in Seq(SUBSET AllWords) /\ visited \subseteq AllWords
      /\ chain[1] = Start /\ target # 0
  BY LookStays
<1>3. /\ chain' \in Seq(AllWords) /\ Len(chain') = Here - 1 /\ \A k \in 1..Here - 1 : chain'[k] = chain[k]
  BY <1>1, <1>2, SubSeqProperties
<1>4. /\ rest' \in Seq(SUBSET AllWords) /\ Len(rest') = Here - 1 /\ \A k \in 1..Here - 1 : rest'[k] = rest[k]
  BY <1>1, <1>2, SubSeqProperties
<1>5. LookTypeOK'
  BY <1>1, <1>2, <1>3, <1>4 DEF IInv, LookTypeOK
<1>6. ChainHolds'
  <2>1. \A k \in 1..Len(chain') : k \in 1..Here - 1 /\ k \in 1..Len(chain)
    BY <1>2, <1>3
  <2>2. \A k \in 1..Len(chain') - 1 : k \in 1..Here - 1 /\ k + 1 \in 1..Here - 1 /\ k \in 1..Len(chain) - 1
    BY <1>2, <1>3
  <2>3. chain' # <<>> => 1 \in 1..Here - 1
    BY <1>2, <1>3
  <2> QED BY <1>1, <1>2, <1>3, <1>4, <2>1, <2>2, <2>3 DEF IInv, ChainHolds
<1>7. LeftHolds'
  <2>1. \A u \in Reaches(chain[Here]) : u \in visited /\ u # Start
    BY <1>1, <1>2 DEF IInv, ChainHolds
  <2>2. ASSUME NEW w \in visited
        PROVE  (\E k \in 1..Len(chain') : chain'[k] = w) \/ \A u \in Reaches(w) : u \in visited /\ u # Start
    <3>1. ASSUME NEW k \in 1..Len(chain), chain[k] = w PROVE w = chain[Here] \/ \E m \in 1..Len(chain') : chain'[m] = w
      BY <1>2, <1>3, <3>1
    <3> QED BY <2>1, <3>1 DEF IInv, LeftHolds
  <2> QED BY <1>1, <1>2, <2>2 DEF IInv, LeftHolds
<1> QED BY <1>1, <1>2, <1>5, <1>6, <1>7 DEF IInv

\* a word becomes active
LEMMA RunsTyped ==
  ASSUME DeclaredOK, NEW w, NEW v \in Runs(w)
  PROVE  v \in AllWords
<1>1. v \in AllWords \/ \E t \in mentions[w][2] : v \in Disposes(t)
  BY DEF Runs
<1>2. \A t : Disposes(t) \subseteq AllWords
  BY DEF Disposes, DeclaredOK
<1> QED BY <1>1, <1>2

LEMMA RunKeeps ==
  ASSUME IInv, Run
  PROVE  IInv'
<1>1. stage = "accepted" /\ UNCHANGED <<declared, stage, looking>>
  BY DEF Run
<1>2. /\ DeclaredOK /\ DeclaredOK' /\ override' = override
      /\ \A w : Reaches(w)' = Reaches(w) /\ Runs(w)' = Runs(w) /\ (Safe(w)' <=> Safe(w))
  BY <1>1, DeclaredStays DEF IInv
<1>3. UNCHANGED <<target, visited, chain, rest>> /\ Start' = Start /\ active \in Seq(AllWords)
  BY <1>1, <1>2 DEF looking, Start, IInv, LookTypeOK
<1>4. /\ active' \in Seq(AllWords)
      /\ \A k \in 1..Len(active') - 1 : active'[k + 1] \in Runs(active'[k])
  <2>1. CASE active = <<>>
    <3>1. PICK w \in Destructors : active' = <<w>>
      BY <2>1 DEF Run, Dispose
    <3>2. w \in AllWords
      BY <1>2, <3>1 DEF Destructors, DeclaredOK
    <3>3. Len(active') = 1 /\ active' \in Seq(AllWords)
      BY <3>1, <3>2
    <3>4. \A k \in 1..Len(active') - 1 : FALSE
      BY <3>3
    <3> QED BY <3>3, <3>4
  <2>2. CASE active # <<>>
    <3>1. PICK w \in Runs(active[Len(active)]) : active' = Append(active, w)
      BY <2>2 DEF Run, Activate
    <3>2. w \in AllWords
      BY <1>2, <3>1, RunsTyped
    <3>3. /\ active' \in Seq(AllWords) /\ Len(active') = Len(active) + 1 /\ active'[Len(active) + 1] = w
          /\ \A k \in 1..Len(active) : active'[k] = active[k]
      BY <1>3, <3>1, <3>2, AppendProperties
    <3>4. ASSUME NEW k \in 1..Len(active') - 1 PROVE active'[k + 1] \in Runs(active'[k])
      <4>1. Len(active) \in Nat /\ Len(active) >= 1
        BY <1>3, <2>2
      <4>2. CASE k = Len(active)
        BY <3>1, <3>3, <4>1, <4>2
      <4>3. CASE k # Len(active)
        <5>1. k \in 1..Len(active) - 1 /\ k \in 1..Len(active) /\ k + 1 \in 1..Len(active)
          BY <3>3, <4>1, <4>3
        <5> QED BY <3>3, <5>1 DEF IInv, ActiveHolds
      <4> QED BY <4>2, <4>3
    <3> QED BY <3>3, <3>4
  <2> QED BY <2>1, <2>2
<1>5. LookTypeOK'
  BY <1>1, <1>2, <1>3, <1>4 DEF IInv, LookTypeOK
<1>6. ChainHolds' /\ LeftHolds'
  BY <1>2, <1>3 DEF IInv, ChainHolds, LeftHolds
<1>7. ActiveHolds'
  BY <1>1, <1>2, <1>4 DEF ActiveHolds
<1> QED BY <1>1, <1>2, <1>3, <1>5, <1>6, <1>7 DEF IInv

LEMMA DropStutters ==
  ASSUME IInv, UNCHANGED dropVars
  PROVE  IInv'
<1>1. UNCHANGED <<declared, stage, target, visited, chain, rest, active>>
  BY DEF dropVars, looking
<1>2. /\ DeclaredOK /\ DeclaredOK' /\ override' = override
      /\ \A w : Reaches(w)' = Reaches(w) /\ Runs(w)' = Runs(w) /\ (Safe(w)' <=> Safe(w))
  BY <1>1, DeclaredStays DEF IInv
<1>3. Start' = Start /\ Here' = Here
  BY <1>1, <1>2 DEF Start, Here
<1>4. LookTypeOK'
  BY <1>1, <1>2 DEF IInv, LookTypeOK
<1>5. ChainHolds' /\ LeftHolds'
  BY <1>1, <1>2, <1>3 DEF IInv, ChainHolds, LeftHolds
<1>6. ActiveHolds'
  BY <1>1, <1>2 DEF IInv, ActiveHolds
<1> QED BY <1>1, <1>2, <1>3, <1>4, <1>5, <1>6 DEF IInv

\* The search from each destructor leaves it safe, and what is active is a
\* chain of calls.
THEOREM DropInvariance == DropSpec => []IInv
<1>1. DropInit => IInv
  BY DropStarts
<1>2. IInv /\ [DropNext]_dropVars => IInv'
  <2> SUFFICES ASSUME IInv, [DropNext]_dropVars PROVE IInv'
    OBVIOUS
  <2>1. CASE NextTarget
    BY <2>1, NextTargetKeeps
  <2>2. CASE Accept
    BY <2>2, AcceptKeeps
  <2>3. CASE Reached
    BY <2>3, ReachedKeeps
  <2>4. CASE Look
    <3>1. stage = "search" /\ chain # <<>> /\ UNCHANGED <<declared, stage, target, active>> /\ (Deeper \/ PassOver \/ Leave)
      BY <2>4 DEF Look
    <3> QED BY <3>1, DeeperKeeps, PassOverKeeps, LeaveKeeps
  <2>5. CASE Run
    BY <2>5, RunKeeps
  <2>6. CASE UNCHANGED dropVars
    BY <2>6, DropStutters
  <2> QED BY <2>1, <2>2, <2>3, <2>4, <2>5, <2>6 DEF DropNext
<1> QED BY <1>1, <1>2, PTL DEF DropSpec

THEOREM DropTypes == DropSpec => []DropTypeOK
<1>1. IInv => DropTypeOK
  BY DEF IInv, LookTypeOK, DropTypeOK
<1> QED BY <1>1, DropInvariance, PTL

\* what is active after a safe destructor is never that destructor
LEMMA NeverBack ==
  ASSUME IInv, Shapes \cap {"overloadedHelper", "genericHelper"} = {},
         NEW i \in 1..Len(active), Safe(active[i]), NEW j \in 1..Len(active), i < j
  PROVE  active[j] # active[i]
<1>1. PICK S \in SUBSET AllWords : active[i] \in S /\ \A v \in S : Reaches(v) \subseteq S \ {active[i]}
  BY DEF Safe
<1>2. DeclaredOK /\ active \in Seq(AllWords) /\ Len(active) \in Nat
  BY DEF IInv, LookTypeOK
<1>3. \A k \in 1..Len(active) - 1 : active[k + 1] \in Runs(active[k])
  BY DEF IInv, ActiveHolds
<1> DEFINE Bad == {k \in (i + 1)..Len(active) : active[k] \notin S \ {active[i]}}
<1>4. SUFFICES ASSUME Bad # {} PROVE FALSE
  <2>1. j \in (i + 1)..Len(active)
    BY <1>2
  <2> QED BY <1>4, <2>1
<1>5. PICK k \in Bad : \A m \in Bad : k <= m
  <2>1. Bad \in SUBSET Nat
    BY <1>2
  <2> HIDE DEF Bad
  <2> QED BY <1>4, <2>1, LeastOfNaturals
<1>6. k \in (i + 1)..Len(active) /\ active[k] \notin S \ {active[i]}
  OBVIOUS
<1>7. k - 1 \in 1..Len(active) - 1 /\ (k - 1) + 1 = k /\ ~(k <= k - 1)
  BY <1>2, <1>6
<1>8. active[k - 1] \in S
  <2>1. CASE k - 1 = i
    BY <1>1, <2>1
  <2>2. CASE k - 1 # i
    <3>1. k - 1 \in (i + 1)..Len(active)
      BY <1>2, <1>6, <2>2
    <3> QED BY <1>5, <1>7, <3>1
  <2> QED BY <2>1, <2>2
<1>9. active[k] \in Runs(active[k - 1])
  BY <1>3, <1>7
<1>10. active[k] \in Reaches(active[k - 1])
  BY <1>1, <1>2, <1>8, <1>9, ReachesAllThatRuns
<1> QED BY <1>1, <1>6, <1>8, <1>10

\* No destructor of an accepted module is running twice at once, in modules
\* where a name means one helper and no generic one disposes: of the two
\* shapes each breaks it.
THEOREM NoReentry ==
  ASSUME Shapes \cap {"overloadedHelper", "genericHelper"} = {}
  PROVE  DropSpec => []NoDestructorReenters
<1>1. IInv => NoDestructorReenters
  <2>0. ASSUME IInv PROVE active \in Seq(AllWords)
    BY <2>0 DEF IInv, LookTypeOK
  <2> SUFFICES ASSUME IInv, NEW i \in 1..Len(active), NEW j \in 1..Len(active), i < j,
                      active[i] = active[j], active[i] \in Destructors
               PROVE  FALSE
    <3>1. IInv => \A m, n \in 1..Len(active) : m # n => m < n \/ n < m
      BY <2>0
    <3> QED BY <3>1 DEF NoDestructorReenters
  <2>1. PICK t \in DOMAIN override : active[i] = override[t]
    BY DEF Destructors
  <2>2. stage = "accepted"
    <3>1. active # <<>>
      OBVIOUS
    <3> QED BY <3>1 DEF IInv, ActiveHolds
  <2>3. chain = <<>> /\ t <= target
    BY <2>2 DEF IInv
  <2>4. Safe(active[i])
    BY <2>1, <2>3, SearchedAreSafe
  <2> QED BY <2>4, NeverBack
<1> QED BY <1>1, DropInvariance, PTL

\* What a module is refused for is a circle: each word of the chain can run
\* the next, and the last one the first.  It holds of every shape.
THEOREM RefusedRightly == DropSpec => []RefusedForACircle
<1>1. IInv => RefusedForACircle
  <2> SUFFICES ASSUME IInv, stage = "refused"
               PROVE  /\ \A k \in 1..Len(chain) - 1 : chain[k + 1] \in Runs(chain[k])
                      /\ chain[1] \in Runs(chain[Here])
    BY DEF RefusedForACircle
  <2>1. DeclaredOK /\ chain \in Seq(AllWords) /\ chain # <<>> /\ Start \in rest[Here] /\ chain[1] = Start
    BY DEF IInv, LookTypeOK, ChainHolds
  <2>2. Here \in 1..Len(chain)
    BY <2>1 DEF Here
  <2>3. \A k \in 1..Len(chain) : chain[k] \in AllWords
    BY <2>1
  <2>4. \A k \in 1..Len(chain) - 1 : k \in 1..Len(chain) /\ chain[k + 1] \in Reaches(chain[k])
    BY <2>1 DEF IInv, ChainHolds
  <2>5. chain[1] \in Reaches(chain[Here])
    BY <2>1, <2>2 DEF IInv, ChainHolds
  <2> QED BY <2>1, <2>2, <2>3, <2>4, <2>5, ReachesOnlyWhatRuns
<1> QED BY <1>1, DropInvariance, PTL

-----------------------------------------------------------------------------
(* LoopSplice: walks.                                                       *)

\* f has the states of the walk of the first n terms of a line
WalkFits(f, m, line, n) == DOMAIN f = 0..n /\ f[0] = m /\ \A i \in 1..n : f[i] = WalkTerm(f[i - 1], line[i])

LEMMA WalkExists ==
  ASSUME NEW m, NEW line
  PROVE  \A n \in Nat : \E f : WalkFits(f, m, line, n) /\ f = [i \in 0..n |-> f[i]]
<1> DEFINE Fail == {n \in Nat : ~\E f : WalkFits(f, m, line, n) /\ f = [i \in 0..n |-> f[i]]}
<1> SUFFICES ASSUME Fail # {} PROVE FALSE
  OBVIOUS
<1>1. PICK n \in Fail : \A k \in Fail : n <= k
  <2>1. Fail \in SUBSET Nat
    OBVIOUS
  <2> HIDE DEF Fail
  <2> QED BY <2>1, LeastOfNaturals
<1>2. n \in Nat /\ ~\E f : WalkFits(f, m, line, n) /\ f = [i \in 0..n |-> f[i]]
  BY <1>1
<1>3. CASE n = 0
  <2> DEFINE f == [i \in 0..0 |-> m]
  <2>1. WalkFits(f, m, line, 0)
    BY DEF WalkFits
  <2>2. f = [i \in 0..0 |-> f[i]]
    OBVIOUS
  <2> QED BY <1>2, <1>3, <2>1, <2>2
<1>4. CASE n > 0
  <2>1. n - 1 \in Nat /\ n - 1 \notin Fail
    BY <1>1, <1>2, <1>4
  <2>2. PICK g : WalkFits(g, m, line, n - 1)
    BY <2>1
  <2> DEFINE f == [i \in 0..n |-> IF i <= n - 1 THEN g[i] ELSE WalkTerm(g[n - 1], line[n])]
  <2>3. \A i \in 0..n - 1 : i \in 0..n /\ i <= n - 1
    BY <1>2, <1>4
  <2>4. \A i \in 0..n - 1 : f[i] = g[i]
    BY <2>3
  <2>5. f[n] = WalkTerm(g[n - 1], line[n])
    BY <1>2, <1>4
  <2>6. DOMAIN f = 0..n /\ f = [i \in 0..n |-> f[i]]
    OBVIOUS
  <2> HIDE DEF f
  <2>7. \A i \in 1..n : f[i] = WalkTerm(f[i - 1], line[i])
    <3> SUFFICES ASSUME NEW i \in 1..n PROVE f[i] = WalkTerm(f[i - 1], line[i])
      OBVIOUS
    <3>1. CASE i = n
      BY <1>2, <1>4, <2>4, <2>5, <3>1
    <3>2. CASE i # n
      <4>1. i \in 1..n - 1 /\ i \in 0..n - 1 /\ i - 1 \in 0..n - 1
        BY <1>2, <3>2
      <4>2. g[i] = WalkTerm(g[i - 1], line[i])
        BY <2>2, <4>1 DEF WalkFits
      <4> QED BY <2>4, <4>1, <4>2
    <3> QED BY <3>1, <3>2
  <2>8. f[0] = m
    BY <1>2, <1>4, <2>2, <2>4 DEF WalkFits
  <2>9. WalkFits(f, m, line, n)
    BY <2>6, <2>7, <2>8 DEF WalkFits
  <2> QED BY <1>2, <2>6, <2>9
<1> QED BY <1>2, <1>3, <1>4

\* what holds of the first state and is kept by every term holds of the last
LEMMA WalkFitsStays ==
  ASSUME NEW m, NEW line, NEW n \in Nat, NEW f, WalkFits(f, m, line, n), NEW K, m \in K,
         \A k \in K : \A i \in 1..n : WalkTerm(k, line[i]) \in K
  PROVE  f[n] \in K
<1> DEFINE Fail == {i \in 0..n : f[i] \notin K}
<1> SUFFICES ASSUME Fail # {} PROVE FALSE
  <2>1. n \in 0..n
    OBVIOUS
  <2> QED BY <2>1
<1>1. PICK i \in Fail : \A j \in Fail : i <= j
  <2>1. Fail \in SUBSET Nat
    OBVIOUS
  <2> HIDE DEF Fail
  <2> QED BY <2>1, LeastOfNaturals
<1>2. i \in 0..n /\ f[i] \notin K
  BY <1>1
<1>3. i # 0
  BY <1>2 DEF WalkFits
<1>4. i \in 1..n /\ i - 1 \in 0..n /\ i - 1 \notin Fail
  BY <1>1, <1>2, <1>3
<1>5. f[i - 1] \in K /\ f[i] = WalkTerm(f[i - 1], line[i])
  BY <1>4 DEF WalkFits
<1> QED BY <1>2, <1>4, <1>5

SameStart(a, b, n, j, k) == n \in Nat /\ j \in Nat /\ k \in Nat /\ n <= j /\ n <= k /\ \A i \in 1..n : a[i] = b[i]

LEMMA WalkFitsAgree ==
  ASSUME NEW m, NEW n, NEW a, NEW b, NEW j, NEW k, SameStart(a, b, n, j, k),
         NEW f, NEW g, WalkFits(f, m, a, j), WalkFits(g, m, b, k)
  PROVE  f[n] = g[n]
<1>6. n \in Nat /\ j \in Nat /\ k \in Nat /\ n <= j /\ n <= k /\ \A i \in 1..n : a[i] = b[i]
  BY DEF SameStart
<1> DEFINE Fail == {i \in 0..n : f[i] # g[i]}
<1> SUFFICES ASSUME Fail # {} PROVE FALSE
  <2>1. n \in 0..n
    BY <1>6
  <2> QED BY <2>1
<1>1. PICK i \in Fail : \A h \in Fail : i <= h
  <2>1. Fail \in SUBSET Nat
    BY <1>6
  <2> HIDE DEF Fail
  <2> QED BY <2>1, LeastOfNaturals
<1>2. i \in 0..n /\ f[i] # g[i]
  BY <1>1
<1>3. i # 0
  BY <1>2 DEF WalkFits
<1>4. i \in 1..n /\ i - 1 \in 0..n /\ i - 1 \notin Fail /\ i \in 1..j /\ i \in 1..k
  BY <1>1, <1>2, <1>3, <1>6
<1>5. f[i - 1] = g[i - 1] /\ f[i] = WalkTerm(f[i - 1], a[i]) /\ g[i] = WalkTerm(g[i - 1], b[i]) /\ a[i] = b[i]
  BY <1>4, <1>6 DEF WalkFits
<1> QED BY <1>2, <1>5

LEMMA WalkLineFits ==
  ASSUME NEW m, NEW line, Len(line) \in Nat
  PROVE  \E f : WalkFits(f, m, line, Len(line)) /\ WalkLine(m, line) = f[Len(line)]
<1> DEFINE n == Len(line)
           states(h) == [i \in 0..n |-> IF i = 0 THEN m ELSE WalkTerm(h[i - 1], line[i])]
           after == CHOOSE h : h = states(h)
<1>1. PICK g : WalkFits(g, m, line, n) /\ g = [i \in 0..n |-> g[i]]
  BY WalkExists, ZenonT(40)
<1>2. g = states(g)
  <2>1. \A i \in 0..n : g[i] = IF i = 0 THEN m ELSE WalkTerm(g[i - 1], line[i])
    BY <1>1 DEF WalkFits
  <2>2. states(g) = [i \in 0..n |-> g[i]]
    BY <2>1
  <2> QED BY <1>1, <2>2
<1>3. after = states(after)
  BY <1>2
<1>4. WalkFits(after, m, line, n)
  <2> HIDE DEF after
  <2>1. DOMAIN after = 0..n
    BY <1>3
  <2>2. \A i \in 0..n : after[i] = IF i = 0 THEN m ELSE WalkTerm(after[i - 1], line[i])
    BY <1>3
  <2>3. after[0] = m /\ \A i \in 1..n : after[i] = WalkTerm(after[i - 1], line[i])
    BY <2>2
  <2> QED BY <2>1, <2>3 DEF WalkFits
<1>5. WalkLine(m, line) = after[n]
  BY DEF WalkLine
<1> HIDE DEF after
<1> QED BY <1>4, <1>5

\* any such states are those of WalkLine
LEMMA WalkLineIs ==
  ASSUME NEW m, NEW line, NEW n \in Nat, Len(line) = n, NEW f, WalkFits(f, m, line, n)
  PROVE  WalkLine(m, line) = f[n]
<1>1. PICK g : WalkFits(g, m, line, n) /\ WalkLine(m, line) = g[n]
  BY WalkLineFits
<1>2. SameStart(line, line, n, n, n)
  BY DEF SameStart
<1>3. f[n] = g[n]
  BY <1>1, <1>2, WalkFitsAgree
<1> QED BY <1>1, <1>3

LEMMA WalkStays ==
  ASSUME NEW m, NEW S, NEW line \in Seq(S), NEW K, m \in K, \A k \in K : \A t \in S : WalkTerm(k, t) \in K
  PROVE  WalkLine(m, line) \in K
<1> DEFINE n == Len(line)
<1>1. n \in Nat /\ \A i \in 1..n : line[i] \in S
  OBVIOUS
<1>2. PICK f : WalkFits(f, m, line, n) /\ WalkLine(m, line) = f[n]
  BY WalkLineFits, <1>1
<1> HIDE DEF n
<1> QED BY <1>1, <1>2, WalkFitsStays

LEMMA WalkEmpty ==
  ASSUME NEW m
  PROVE  WalkLine(m, <<>>) = m
<1>1. Len(<<>>) = 0
  OBVIOUS
<1>2. PICK f : WalkFits(f, m, <<>>, 0) /\ WalkLine(m, <<>>) = f[0]
  BY WalkLineFits, <1>1
<1> QED BY <1>2 DEF WalkFits

LEMMA WalkConcat ==
  ASSUME NEW m, NEW S, NEW a \in Seq(S), NEW b \in Seq(S)
  PROVE  WalkLine(m, a \o b) = WalkLine(WalkLine(m, a), b)
<1> DEFINE j == Len(a)
           k == Len(b)
           ab == a \o b
<1>1. /\ j \in Nat /\ k \in Nat /\ j + k \in Nat /\ Len(ab) = j + k
      /\ \A i \in 1..j : ab[i] = a[i]
      /\ \A i \in 1..k : ab[j + i] = b[i]
  OBVIOUS
<1>2. PICK f : WalkFits(f, m, ab, j + k) /\ WalkLine(m, ab) = f[j + k]
  BY WalkLineFits, <1>1
<1>3. PICK g : WalkFits(g, m, a, j) /\ WalkLine(m, a) = g[j]
  BY WalkLineFits, <1>1
<1>9. Len(b) = k /\ Len(a) = j
  OBVIOUS
<1> HIDE DEF j, k, ab
<1>4. f[j] = g[j]
  <2>1. SameStart(ab, a, j, j + k, j)
    BY <1>1 DEF SameStart
  <2> QED BY <1>2, <1>3, <2>1, WalkFitsAgree
<1> DEFINE h == [i \in 0..k |-> f[j + i]]
<1>5. WalkFits(h, g[j], b, k)
  <2>1. DOMAIN h = 0..k /\ h[0] = g[j]
    BY <1>1, <1>4
  <2>2. \A i \in 1..k : h[i] = WalkTerm(h[i - 1], b[i])
    <3> SUFFICES ASSUME NEW i \in 1..k PROVE h[i] = WalkTerm(h[i - 1], b[i])
      OBVIOUS
    <3>1. i \in 0..k /\ i - 1 \in 0..k /\ j + i \in 1..j + k /\ j + i - 1 = j + (i - 1)
      BY <1>1
    <3>4. \A l \in 1..j + k : f[l] = WalkTerm(f[l - 1], ab[l])
      BY <1>2 DEF WalkFits
    <3>5. PICK l : l = j + i
      OBVIOUS
    <3>2. f[l] = WalkTerm(f[l - 1], ab[l])
      BY <3>1, <3>4, <3>5
    <3>3. h[i] = f[l] /\ h[i - 1] = f[l - 1] /\ ab[l] = b[i]
      BY <1>1, <3>1, <3>5
    <3> QED BY <3>2, <3>3
  <2> HIDE DEF h
  <2> QED BY <2>1, <2>2 DEF WalkFits
<1>6. h[k] = f[j + k]
  BY <1>1
<1> HIDE DEF h
<1>7. WalkLine(g[j], b) = h[k]
  BY <1>1, <1>5, <1>9, WalkLineIs
<1> QED BY <1>2, <1>3, <1>6, <1>7 DEF ab

LEMMA WalkSingle ==
  ASSUME NEW m, NEW t
  PROVE  WalkLine(m, <<t>>) = WalkTerm(m, t)
<1>1. Len(<<t>>) = 1 /\ <<t>>[1] = t
  OBVIOUS
<1>2. PICK f : WalkFits(f, m, <<t>>, 1) /\ WalkLine(m, <<t>>) = f[1]
  BY WalkLineFits, <1>1
<1>3. 1 \in 1..1 /\ 1 - 1 = 0
  OBVIOUS
<1>4. f[1] = WalkTerm(f[0], t) /\ f[0] = m
  BY <1>1, <1>2, <1>3 DEF WalkFits
<1> QED BY <1>2, <1>4

LEMMA HeadTakenOff ==
  ASSUME NEW S, NEW s \in Seq(S), s # <<>>
  PROVE  <<Head(s)>> \in Seq(S) /\ Tail(s) \in Seq(S) /\ s = <<Head(s)>> \o Tail(s)
<1> DEFINE h == <<Head(s)>>
           tl == Tail(s)
           r == h \o tl
<1>1. /\ tl \in Seq(S) /\ Len(s) \in Nat /\ Len(s) >= 1 /\ Len(tl) = Len(s) - 1
      /\ \A i \in 1..Len(s) - 1 : tl[i] = s[i + 1]
  BY HeadTailProperties
<1>2. h \in Seq(S) /\ Len(h) = 1 /\ h[1] = s[1]
  <2>1. Head(s) \in S
    BY HeadTailProperties
  <2>2. Head(s) = s[1]
    OBVIOUS
  <2> QED BY <2>1, <2>2
<1> HIDE DEF h, tl
<1>3. /\ r \in Seq(S) /\ Len(r) = Len(s) /\ r[1] = s[1]
      /\ \A i \in 1..Len(s) : i # 1 => r[i] = tl[i - 1]
  <2>1. /\ r \in Seq(S) /\ Len(r) = Len(h) + Len(tl)
        /\ \A i \in 1..Len(h) + Len(tl) : r[i] = IF i <= Len(h) THEN h[i] ELSE tl[i - Len(h)]
    <3>1. h \in Seq(S) /\ tl \in Seq(S)
      BY <1>1, <1>2
    <3> QED BY <3>1, ConcatProperties, Zenon
  <2> HIDE DEF r
  <2> QED BY <1>1, <1>2, <2>1
<1> HIDE DEF r
<1>4. \A i \in 1..Len(s) : r[i] = s[i]
  <2> SUFFICES ASSUME NEW i \in 1..Len(s), i # 1 PROVE r[i] = s[i]
    BY <1>3
  <2>1. PICK j : j = i - 1
    OBVIOUS
  <2>2. j \in 1..Len(s) - 1 /\ j + 1 = i
    BY <1>1, <2>1
  <2>3. tl[j] = s[j + 1]
    BY <1>1, <2>2
  <2> QED BY <1>3, <2>1, <2>2, <2>3
<1>5. r = s
  BY <1>3, <1>4, SeqEqual
<1> QED BY <1>1, <1>2, <1>5 DEF h, tl, r

LEMMA WalkFirst ==
  ASSUME NEW m, NEW S, NEW line \in Seq(S), line # <<>>
  PROVE  WalkLine(m, line) = WalkLine(WalkTerm(m, Head(line)), Tail(line))
<1> DEFINE h == <<Head(line)>>
           tl == Tail(line)
<1>1. h \in Seq(S) /\ tl \in Seq(S) /\ line = h \o tl
  BY HeadTakenOff
<1>2. WalkLine(m, h) = WalkTerm(m, Head(line))
  BY WalkSingle
<1> HIDE DEF h, tl
<1>3. WalkLine(m, h \o tl) = WalkLine(WalkLine(m, h), tl)
  BY <1>1, WalkConcat
<1> QED BY <1>1, <1>2, <1>3 DEF tl

LEMMA FirstOfConcat ==
  ASSUME NEW S, NEW a \in Seq(S), NEW b \in Seq(S), a # <<>>
  PROVE  a \o b # <<>> /\ Head(a \o b) = Head(a) /\ Tail(a \o b) = Tail(a) \o b
<1> DEFINE ab == a \o b
           tl == Tail(ab)
           left == Tail(a)
           other == left \o b
<1>1. /\ Len(a) \in Nat /\ Len(a) >= 1 /\ Len(b) \in Nat
      /\ ab \in Seq(S) /\ Len(ab) = Len(a) + Len(b)
      /\ \A i \in 1..Len(a) + Len(b) : ab[i] = IF i <= Len(a) THEN a[i] ELSE b[i - Len(a)]
  BY ConcatProperties
<1>2. left \in Seq(S) /\ Len(left) = Len(a) - 1 /\ \A i \in 1..Len(left) : left[i] = a[i + 1]
  BY HeadTailProperties
<1>3. ab # <<>> /\ Head(ab) = ab[1] /\ Head(a) = a[1] /\ ab[1] = a[1]
  <2> HIDE DEF ab
  <2>1. ab # <<>>
    BY <1>1
  <2>2. ab[1] = a[1]
    BY <1>1
  <2> QED BY <1>1, <2>1, <2>2
<1> HIDE DEF ab, left
<1>4. tl \in Seq(S) /\ Len(tl) = Len(ab) - 1 /\ \A i \in 1..Len(tl) : tl[i] = ab[i + 1]
  BY <1>1, <1>3, HeadTailProperties
<1>5. /\ other \in Seq(S) /\ Len(other) = Len(left) + Len(b)
      /\ \A i \in 1..Len(left) + Len(b) : other[i] = IF i <= Len(left) THEN left[i] ELSE b[i - Len(left)]
  BY <1>2, ConcatProperties, Zenon
<1> HIDE DEF tl, other
<1>6. Len(tl) = Len(other)
  BY <1>1, <1>2, <1>4, <1>5
<1>7. \A i \in 1..Len(tl) : tl[i] = other[i]
  <2> SUFFICES ASSUME NEW i \in 1..Len(tl) PROVE tl[i] = other[i]
    OBVIOUS
  <2>1. PICK j : j = i + 1
    OBVIOUS
  <2>2. j \in 1..Len(a) + Len(b) /\ tl[i] = ab[j] /\ i \in 1..Len(left) + Len(b)
    BY <1>1, <1>2, <1>4, <2>1
  <2>3. CASE i <= Len(left)
    BY <1>1, <1>2, <1>5, <2>1, <2>2, <2>3
  <2>4. CASE ~(i <= Len(left))
    <3>1. other[i] = b[i - Len(left)] /\ ab[j] = b[j - Len(a)] /\ j - Len(a) = i - Len(left)
      BY <1>1, <1>2, <1>5, <2>1, <2>2, <2>4
    <3> QED BY <2>2, <3>1
  <2> QED BY <2>3, <2>4
<1>8. tl = other
  BY <1>4, <1>5, <1>6, <1>7, SeqEqual
<1> QED BY <1>3, <1>8 DEF ab, tl, left, other

-----------------------------------------------------------------------------
(* LoopSplice: the splice and its execution.                                 *)

Doomed == {"maybe", "refused"}
WalkStates == {"live", "moved", "maybe", "refused"}
Custody == IF disposed = 0 THEN "live" ELSE "moved"
AllKeep == \A s \in Slots : lits[s] = "keeps"
Settled(s) == IsArm(s) \/ lits[s] = "keeps"
LitLines == Seq(Slots)

\* before the branch the walk of the rest, by either arm, ends where the check
\* ended; after it the rest has no branch
AheadIn(r) ==
  /\ r \in LitLines /\ pending = r \o <<"branch">> \o body.post
  /\ \A arm \in {body.then, body.else} : WalkLine(Custody, r \o arm \o body.post) = moves
Past == pending \in LitLines /\ WalkLine(Custody, pending) = moves

Looping == AllKeep /\ moves = "live" /\ disposed = 0
Straight ==
  /\ body.pre \in LitLines /\ body.then \in LitLines /\ body.else \in LitLines /\ body.post \in LitLines
  /\ Past \/ \E r \in LitLines : AheadIn(r)

SpliceInv ==
  /\ SpliceTypeOK
  /\ status \notin {"run", "returned"} => disposed = 0
  /\ status \in {"probe p", "probe q", "splice"} => ~Cyclic(body)
  /\ status \in {"defined", "probe p", "probe q", "splice"} => moves = "live"
  /\ status \in {"probe q", "splice"} => Settled("p")
  /\ status = "splice" => Settled("q")
  /\ status = "run" => disposed <= 1 /\ moves \in {"live", "moved"} /\ (Looping \/ Straight)
  /\ status = "returned" => disposed = 1
  /\ \A s \in Slots : lits[s] = "consumes" => runs[s] <= disposed

LEMMA WalkTermTypes ==
  ASSUME lits \in [Slots -> Literals], NEW m \in WalkStates, NEW t \in Slots \cup {"self"}
  PROVE  WalkTerm(m, t) \in WalkStates
BY DEF WalkTerm, LitMoves, WalkStates

LEMMA WalkLineTypes ==
  ASSUME lits \in [Slots -> Literals], NEW m \in WalkStates, NEW line \in Lines
  PROVE  WalkLine(m, line) \in WalkStates
<1>1. \A k \in WalkStates : \A t \in Slots \cup {"self"} : WalkTerm(k, t) \in WalkStates
  BY WalkTermTypes
<1> QED BY <1>1, WalkStays DEF Lines

\* no walk comes back from a refusal, nor from a local consumed on one path
LEMMA DoomStays ==
  ASSUME lits \in [Slots -> Literals], NEW m \in Doomed, NEW line \in Lines
  PROVE  WalkLine(m, line) \in Doomed
<1>1. \A k \in Doomed : \A t \in Slots \cup {"self"} : WalkTerm(k, t) \in Doomed
  BY DEF WalkTerm, LitRefused, LitMoves, Doomed
<1> QED BY <1>1, WalkStays DEF Lines

LEMMA KeepingWalk ==
  ASSUME AllKeep, NEW line \in Lines
  PROVE  WalkLine("live", line) = "live"
<1>1. \A k \in {"live"} : \A t \in Slots \cup {"self"} : WalkTerm(k, t) \in {"live"}
  BY DEF WalkTerm, LitRefused, LitMoves, AllKeep
<1>2. WalkLine("live", line) \in {"live"}
  BY <1>1, WalkStays DEF Lines
<1> QED BY <1>2

LEMMA SoundTerm ==
  ASSUME lits \in [Slots -> Literals], NEW c \in {"live", "moved"}, NEW s \in Slots, WalkTerm(c, s) \notin Doomed
  PROVE  \/ lits[s] = "keeps" /\ WalkTerm(c, s) = c
         \/ lits[s] = "consumes" /\ c = "live" /\ WalkTerm(c, s) = "moved"
<1>1. lits[s] \in Literals /\ s # "self"
  BY DEF Slots
<1> QED BY <1>1 DEF WalkTerm, LitRefused, LitMoves, Literals, Doomed

\* one term of a walk that ends well is a step of the execution
LEMMA StepOfWalk ==
  ASSUME lits \in [Slots -> Literals], NEW c \in {"live", "moved"}, NEW line \in LitLines, line # <<>>,
         WalkLine(c, line) \notin Doomed
  PROVE  LET s == Head(line) IN
           /\ s \in Slots /\ Tail(line) \in LitLines
           /\ \/ lits[s] = "keeps" /\ WalkTerm(c, s) = c
              \/ lits[s] = "consumes" /\ c = "live" /\ WalkTerm(c, s) = "moved"
           /\ WalkLine(WalkTerm(c, s), Tail(line)) = WalkLine(c, line)
<1> DEFINE s == Head(line)
           tl == Tail(line)
           d == WalkTerm(c, s)
<1>1. s \in Slots /\ tl \in LitLines
  BY HeadTailProperties DEF LitLines
<1>2. WalkLine(d, tl) = WalkLine(c, line)
  BY WalkFirst DEF LitLines
<1>3. tl \in Lines
  BY <1>1 DEF LitLines, Lines
<1> HIDE DEF s, tl
<1>4. d \notin Doomed
  BY <1>2, <1>3, DoomStays
<1>6. (lits[s] = "keeps" /\ d = c) \/ (lits[s] = "consumes" /\ c = "live" /\ d = "moved")
  BY <1>1, <1>4, SoundTerm
<1> QED BY <1>1, <1>2, <1>6 DEF s, tl

\* without a self-call in tail position an accepted body has none
LEMMA NoSelfAtAll ==
  ASSUME NEW b \in [pre : Lines, then : Lines, else : Lines, post : Lines], ~Cyclic(b), ~SelfTail(b)
  PROVE  b.pre \in LitLines /\ b.then \in LitLines /\ b.else \in LitLines /\ b.post \in LitLines
<1>1. ASSUME NEW line \in Lines, Occurrences(line) = {} PROVE line \in LitLines
  <2>1. \A i \in 1..Len(line) : line[i] \in Slots
    BY <1>1 DEF Occurrences, Lines
  <2> QED BY <1>1, <2>1 DEF LitLines, Lines
<1>2. ASSUME NEW line \in Lines, ~NotLast(line), "self" \notin LastOf(line) PROVE Occurrences(line) = {}
  <2>1. \A i \in Occurrences(line) : i \in 1..Len(line) /\ i = Len(line) /\ line # <<>> /\ line[i] = "self"
    BY <1>2 DEF NotLast, Occurrences, Lines
  <2> QED BY <1>2, <2>1 DEF LastOf
<1>3. b.pre \in Lines /\ b.then \in Lines /\ b.else \in Lines /\ b.post \in Lines
  OBVIOUS
<1>4. Occurrences(b.pre) = {} /\ ~NotLast(b.then) /\ ~NotLast(b.else) /\ ~NotLast(b.post)
  BY DEF Cyclic
<1>5. CASE b.post = <<>>
  <2>1. "self" \notin LastOf(b.then) /\ "self" \notin LastOf(b.else) /\ "self" \notin LastOf(b.post)
    BY <1>5 DEF SelfTail, TailHits, LastOf
  <2> QED BY <1>1, <1>2, <1>3, <1>4, <2>1
<1>6. CASE b.post # <<>>
  <2>1. "self" \notin LastOf(b.post) /\ Occurrences(b.then) = {} /\ Occurrences(b.else) = {}
    BY <1>6 DEF SelfTail, TailHits, Cyclic
  <2> QED BY <1>1, <1>2, <1>3, <1>4, <2>1
<1> QED BY <1>5, <1>6

BodyType == body \in [pre : Lines, then : Lines, else : Lines, post : Lines]

\* where every literal keeps the local, the splice leaves it to the caller
LEMMA KeepingBody ==
  ASSUME BodyType, AllKeep
  PROVE  WalkBody("live", body) = "live"
<1>1. body.pre \in Lines /\ body.then \in Lines /\ body.else \in Lines /\ body.post \in Lines
  BY DEF BodyType
<1>2. /\ WalkLine("live", body.pre) = "live" /\ WalkLine("live", body.then) = "live"
      /\ WalkLine("live", body.else) = "live" /\ WalkLine("live", body.post) = "live"
  BY <1>1, KeepingWalk
<1> QED BY <1>2 DEF WalkBody, WalkBranch, Join

\* where the branch did not leave the local in doubt, the splice is the walk
\* of either path through the body
LEMMA EitherPath ==
  ASSUME BodyType, lits \in [Slots -> Literals], WalkBody("live", body) \notin Doomed, NEW arm \in {body.then, body.else}
  PROVE  WalkLine("live", body.pre \o arm \o body.post) = WalkBody("live", body)
<1>1. body.pre \in Lines /\ arm \in Lines /\ body.then \in Lines /\ body.else \in Lines /\ body.post \in Lines
  BY DEF BodyType
<1> DEFINE x == WalkLine("live", body.pre)
           y == WalkBranch(x, body)
<1>2. WalkBody("live", body) = WalkLine(y, body.post)
  BY DEF WalkBody
<1> HIDE DEF x
<1>3. y \notin Doomed
  BY <1>1, <1>2, DoomStays
<1>4. y = WalkLine(x, arm)
  BY <1>3 DEF WalkBranch, Join, Doomed
<1> HIDE DEF y
<1> DEFINE front == body.pre \o arm
<1>5. front \in Lines
  BY <1>1, ConcatProperties DEF Lines
<1>6. WalkLine("live", front) = WalkLine(x, arm)
  BY <1>1, WalkConcat DEF x, Lines
<1> HIDE DEF front
<1>7. WalkLine("live", front \o body.post) = WalkLine(WalkLine("live", front), body.post)
  BY <1>1, <1>5, WalkConcat DEF Lines
<1> QED BY <1>2, <1>4, <1>6, <1>7 DEF front

-----------------------------------------------------------------------------
(* LoopSplice: every step keeps the invariant.                               *)

NoLoopingArms == \A b \in Bodies : ~LoopingArm(b)

LEMMA SpliceInvTypes ==
  ASSUME SpliceInv
  PROVE  /\ BodyType /\ lits \in [Slots -> Literals] /\ disposed \in Nat /\ runs \in [Slots -> Nat]
         /\ body \in Bodies
BY LoopSpliceAssumption DEF SpliceInv, SpliceTypeOK, BodyType

LEMMA SpliceInitially == SpliceInit => SpliceInv
<1> SUFFICES ASSUME SpliceInit PROVE SpliceInv
  OBVIOUS
<1>1. SpliceTypeOK
  BY LoopSpliceAssumption DEF SpliceInit, SpliceTypeOK, MoveStates
<1> QED BY <1>1 DEF SpliceInit, SpliceInv

LEMMA CheckCyclesKeeps == SpliceInv /\ CheckCycles => SpliceInv'
<1> SUFFICES ASSUME SpliceInv, CheckCycles PROVE SpliceInv'
  OBVIOUS
<1>1. SpliceTypeOK'
  BY DEF SpliceInv, SpliceTypeOK, CheckCycles
<1> QED BY <1>1 DEF SpliceInv, CheckCycles

LEMMA ProbeSettles ==
  ASSUME SpliceInv, NEW s \in Slots, NEW now, NEW next, Probe(s, now, next), moves = "live",
         status' # "rejected"
  PROVE  moves' = "live" /\ Settled(s) /\ status' = next
<1>1. lits[s] \in Literals
  BY SpliceInvTypes
<1> QED BY <1>1 DEF Probe, ProbeRefused, ProbeMoves, LitMoves, Settled, Literals

LEMMA ProbeKeeps ==
  SpliceInv /\ (Probe("p", "probe p", "probe q") \/ Probe("q", "probe q", "splice")) => SpliceInv'
<1> SUFFICES ASSUME SpliceInv, NEW s \in Slots, NEW now, NEW next, Probe(s, now, next),
                    \/ s = "p" /\ now = "probe p" /\ next = "probe q"
                    \/ s = "q" /\ now = "probe q" /\ next = "splice"
             PROVE  SpliceInv'
  BY DEF Slots
<1>1. /\ status = now /\ moves = "live" /\ disposed = 0 /\ ~Cyclic(body)
      /\ UNCHANGED <<body, inline, lits, pending, turns, runs, disposed>>
  BY DEF Probe, SpliceInv
<1>2. CASE status' = "rejected"
  <2>1. moves' = moves
    BY <1>1, <1>2 DEF Probe
  <2>2. SpliceTypeOK'
    BY <1>1, <1>2, <2>1 DEF SpliceInv, SpliceTypeOK
  <2> QED BY <1>1, <1>2, <2>2 DEF SpliceInv
<1>3. CASE status' # "rejected"
  <2>1. moves' = "live" /\ Settled(s) /\ status' = next
    BY <1>1, <1>3, ProbeSettles
  <2>2. SpliceTypeOK'
    BY <1>1, <2>1 DEF SpliceInv, SpliceTypeOK, MoveStates
  <2>3. Settled(s)' /\ (Settled("p") => Settled("p")')
    BY <1>1, <2>1 DEF Settled, IsArm
  <2>4. now = "probe q" => Settled("p")
    BY <1>1 DEF SpliceInv
  <2> QED BY <1>1, <2>1, <2>2, <2>3, <2>4 DEF SpliceInv
<1> QED BY <1>2, <1>3

LEMMA SpliceKeeps ==
  ASSUME NoLoopingArms
  PROVE  SpliceInv /\ Splice => SpliceInv'
<1> SUFFICES ASSUME SpliceInv, Splice PROVE SpliceInv'
  OBVIOUS
<1> USE SpliceInvTypes
<1> DEFINE m == WalkBody(moves, body)
<1>1. /\ status = "splice" /\ moves = "live" /\ disposed = 0 /\ ~Cyclic(body)
      /\ Settled("p") /\ Settled("q")
      /\ UNCHANGED <<body, inline, lits, turns, runs, disposed>>
  BY DEF Splice, SpliceInv
<1>2. CASE m \in Doomed
  <2>1. status' = "rejected" /\ moves' = moves /\ pending' = pending
    BY <1>2 DEF Splice, Doomed
  <2>2. SpliceTypeOK'
    BY <1>1, <2>1 DEF SpliceInv, SpliceTypeOK
  <2> QED BY <1>1, <2>1, <2>2 DEF SpliceInv
<1>3. CASE m \notin Doomed
  <2>1. status' = "run" /\ moves' = m /\ pending' = body.pre \o <<"branch">> \o body.post
    BY <1>3 DEF Splice, Doomed
  <2>2. m \in {"live", "moved"}
    <3>1. \A arm \in {body.then, body.else} : m = WalkLine("live", body.pre \o arm \o body.post)
      BY <1>1, <1>3, EitherPath
    <3>2. body.pre \o body.then \o body.post \in Lines
      BY ConcatProperties DEF Lines, BodyType
    <3>3. m \in WalkStates
      BY <3>1, <3>2, WalkLineTypes DEF WalkStates
    <3> HIDE DEF m
    <3> QED BY <1>3, <3>3 DEF WalkStates, Doomed
  <2>3. pending' \in Seq(Slots \cup {"self", "branch"})
    <3>1. body.pre \in Seq(Slots \cup {"self", "branch"}) /\ body.post \in Seq(Slots \cup {"self", "branch"})
      BY DEF BodyType, Lines
    <3>2. <<"branch">> \in Seq(Slots \cup {"self", "branch"})
      OBVIOUS
    <3> QED BY <2>1, <3>1, <3>2, ConcatProperties
  <2>4. SpliceTypeOK'
    BY <1>1, <2>1, <2>2, <2>3 DEF SpliceInv, SpliceTypeOK, MoveStates
  <2>5. Looping' \/ Straight'
    <3>1. CASE SelfTail(body)
      <4>1. TailCalled(body) = {}
        BY <3>1 DEF NoLoopingArms, LoopingArm
      <4>2. AllKeep
        BY <1>1, <4>1 DEF Settled, IsArm, AllKeep, Slots
      <4>3. m = "live"
        BY <1>1, <4>2, KeepingBody
      <4> QED BY <1>1, <2>1, <4>2, <4>3 DEF Looping, AllKeep
    <3>2. CASE ~SelfTail(body)
      <4>1. body.pre \in LitLines /\ body.then \in LitLines /\ body.else \in LitLines /\ body.post \in LitLines
        BY <1>1, <3>2, NoSelfAtAll DEF BodyType
      <4>2. \A arm \in {body.then, body.else} : WalkLine("live", body.pre \o arm \o body.post)' = m
        <5>1. ASSUME NEW line PROVE WalkLine("live", line)' = WalkLine("live", line)
          BY <1>1 DEF WalkLine, WalkTerm, LitRefused, LitMoves
        <5> QED BY <1>1, <1>3, <5>1, EitherPath
      <4>3. AheadIn(body.pre)'
        BY <1>1, <2>1, <4>1, <4>2 DEF AheadIn, Custody
      <4> QED BY <1>1, <4>1, <4>3 DEF Straight, LitLines
    <3> QED BY <3>1, <3>2
  <2> QED BY <1>1, <2>1, <2>2, <2>4, <2>5 DEF SpliceInv
<1> QED BY <1>2, <1>3

\* the state of a local and what the execution did to it go together
LEMMA CallOnPath ==
  ASSUME SpliceInv, NEW s \in Slots, Call(s), moves \in {"live", "moved"}, disposed <= 1,
         NEW line \in LitLines, line # <<>>, Head(line) = s, WalkLine(Custody, line) = moves
  PROVE  /\ disposed' <= 1 /\ Tail(line) \in LitLines
         /\ WalkLine(Custody', Tail(line)) = moves
<1> USE SpliceInvTypes
<1>1. PICK d \in {0, 1} :
        (lits[s] = "keeps" => d = 0) /\ (lits[s] = "consumes" => d = 1) /\ disposed' = disposed + d
  BY DEF Call
<1>2. Custody \in {"live", "moved"} /\ WalkLine(Custody, line) \notin Doomed
  BY DEF Custody, Doomed
<1> DEFINE c == Custody
           tl == Tail(line)
<1>3. /\ tl \in LitLines
      /\ (lits[s] = "keeps" /\ WalkTerm(c, s) = c) \/ (lits[s] = "consumes" /\ c = "live" /\ WalkTerm(c, s) = "moved")
      /\ WalkLine(WalkTerm(c, s), tl) = WalkLine(c, line)
  BY <1>2, StepOfWalk
<1>4. WalkTerm(c, s) = Custody' /\ disposed' <= 1
  <2>1. CASE lits[s] = "keeps" /\ WalkTerm(c, s) = c
    BY <1>1, <2>1 DEF Custody
  <2>2. CASE lits[s] = "consumes" /\ c = "live" /\ WalkTerm(c, s) = "moved"
    <3>1. disposed = 0
      BY <2>2 DEF Custody
    <3> QED BY <1>1, <2>2, <3>1 DEF Custody
  <2> QED BY <1>3, <2>1, <2>2
<1> QED BY <1>3, <1>4

\* what lies ahead before the branch begins with a literal or with the branch
LEMMA FirstAhead ==
  ASSUME BodyType, body.post \in LitLines, NEW r \in LitLines
  PROVE  LET ahead == r \o <<"branch">> \o body.post IN
           /\ ahead # <<>>
           /\ r = <<>> => Head(ahead) = "branch" /\ Tail(ahead) = body.post
           /\ r # <<>> => /\ Head(ahead) = Head(r) /\ Head(r) \in Slots /\ Tail(r) \in LitLines
                          /\ Tail(ahead) = Tail(r) \o <<"branch">> \o body.post
<1> DEFINE Any == Slots \cup {"branch"}
           b == <<"branch">>
           front == r \o b
<1>1. r \in Seq(Any) /\ b \in Seq(Any) /\ body.post \in Seq(Any) /\ b # <<>> /\ Head(b) = "branch" /\ Tail(b) = <<>>
  BY DEF LitLines
<1> HIDE DEF b, Any
<1>2. front \in Seq(Any) /\ front # <<>>
  <2>1. front \in Seq(Any)
    BY <1>1, ConcatProperties
  <2>2. r \o b # <<>>
    BY <1>1, ConcatEqualIffEmpty
  <2> QED BY <2>1, <2>2
<1> HIDE DEF front
<1>3. /\ front \o body.post # <<>> /\ Head(front \o body.post) = Head(front)
      /\ Tail(front \o body.post) = Tail(front) \o body.post
  BY <1>1, <1>2, FirstOfConcat
<1>4. CASE r = <<>>
  <2>1. front = b
    BY <1>1, <1>4, ConcatEmptySeq DEF front
  <2>2. Tail(front) \o body.post = body.post
    BY <1>1, <2>1, ConcatEmptySeq
  <2> QED BY <1>1, <1>3, <1>4, <2>1, <2>2 DEF front, b
<1>5. CASE r # <<>>
  <2>1. Head(front) = Head(r) /\ Tail(front) = Tail(r) \o b
    BY <1>1, <1>5, FirstOfConcat DEF front
  <2>2. Head(r) \in Slots /\ Tail(r) \in LitLines
    BY <1>5, HeadTailProperties DEF LitLines
  <2> QED BY <1>3, <1>5, <2>1, <2>2 DEF front, b
<1> QED BY <1>4, <1>5

LEMMA FirstOnPath ==
  ASSUME NEW r \in LitLines, NEW arm \in LitLines, NEW post \in LitLines, r # <<>>
  PROVE  /\ r \o arm \o post \in LitLines /\ r \o arm \o post # <<>>
         /\ Head(r \o arm \o post) = Head(r) /\ Tail(r \o arm \o post) = Tail(r) \o arm \o post
<1> DEFINE front == r \o arm
<1>1. front \in LitLines /\ front # <<>> /\ Head(front) = Head(r) /\ Tail(front) = Tail(r) \o arm
  <2>1. front \in LitLines
    BY ConcatProperties DEF LitLines
  <2>2. r \in Seq(Slots) /\ arm \in Seq(Slots)
    BY DEF LitLines
  <2> QED BY <2>1, <2>2, FirstOfConcat
<1> HIDE DEF front
<1>2. front \o post \in LitLines
  BY <1>1, ConcatProperties DEF LitLines
<1>3. front \in Seq(Slots) /\ post \in Seq(Slots)
  BY <1>1 DEF LitLines
<1>4. front \o post # <<>> /\ Head(front \o post) = Head(front) /\ Tail(front \o post) = Tail(front) \o post
  BY <1>1, <1>3, FirstOfConcat
<1> QED BY <1>1, <1>2, <1>4 DEF front

\* the part of the invariant that speaks of a run
RunningWell == status = "run" /\ disposed <= 1 /\ moves \in {"live", "moved"}

\* the walk of a line depends on the literals only
LEMMA SameWalks ==
  ASSUME UNCHANGED lits, NEW m, NEW line
  PROVE  WalkLine(m, line)' = WalkLine(m, line)
BY DEF WalkLine, WalkTerm, LitRefused, LitMoves

LEMMA PendingTypes ==
  ASSUME SpliceInv, pending # <<>>
  PROVE  Tail(pending) \in Seq(Slots \cup {"self", "branch"})
BY HeadTailProperties DEF SpliceInv, SpliceTypeOK

LEMMA CallKeeps == SpliceInv /\ (\E s \in Slots : Call(s)) => SpliceInv'
<1> SUFFICES ASSUME SpliceInv, NEW s \in Slots, Call(s) PROVE SpliceInv'
  OBVIOUS
<1> USE SpliceInvTypes
<1>1. /\ RunningWell /\ pending # <<>> /\ Head(pending) = s /\ pending' = Tail(pending)
      /\ UNCHANGED <<body, inline, lits, status, moves, turns>>
      /\ runs' = [runs EXCEPT ![s] = @ + 1]
  BY DEF Call, SpliceInv, RunningWell
<1>2. PICK d \in {0, 1} :
        (lits[s] = "keeps" => d = 0) /\ (lits[s] = "consumes" => d = 1) /\ disposed' = disposed + d
  BY DEF Call
<1>3. SpliceTypeOK'
  <2>1. Tail(pending) \in Seq(Slots \cup {"self", "branch"})
    BY <1>1, PendingTypes
  <2>2. runs' \in [Slots -> Nat] /\ disposed' \in Nat
    BY <1>1, <1>2
  <2>3. pending' \in Seq(Slots \cup {"self", "branch"})
    BY <1>1, <2>1
  <2> QED BY <1>1, <2>2, <2>3 DEF SpliceInv, SpliceTypeOK
<1>4. disposed' <= 1 /\ (Looping' \/ Straight')
  <2>1. CASE Looping
    <3>1. d = 0
      BY <1>2, <2>1 DEF Looping, AllKeep
    <3> QED BY <1>1, <1>2, <2>1, <3>1 DEF Looping, AllKeep
  <2>2. CASE Straight /\ Past
    <3>1. disposed' <= 1 /\ Tail(pending) \in LitLines /\ WalkLine(Custody', Tail(pending)) = moves
      BY <1>1, <2>2, CallOnPath DEF Past, RunningWell
    <3>2. Past'
      BY <1>1, <3>1, SameWalks DEF Past, LitLines
    <3> QED BY <1>1, <2>2, <3>1, <3>2 DEF Straight, LitLines
  <2>3. CASE Straight /\ \E r \in LitLines : AheadIn(r)
    <3>1. PICK r \in LitLines : AheadIn(r)
      BY <2>3
    <3>2. body.then \in LitLines /\ body.else \in LitLines /\ body.post \in LitLines
      BY <2>3 DEF Straight
    <3>3. s # "branch"
      BY DEF Slots
    <3>4. r # <<>>
      BY <1>1, <3>1, <3>2, <3>3, FirstAhead DEF AheadIn
    <3>5. Head(r) = s /\ Tail(r) \in LitLines /\ pending' = Tail(r) \o <<"branch">> \o body.post
      BY <1>1, <3>1, <3>2, <3>4, FirstAhead DEF AheadIn
    <3>6. ASSUME NEW arm \in {body.then, body.else}
          PROVE  disposed' <= 1 /\ WalkLine(Custody', Tail(r) \o arm \o body.post) = moves
      <4> DEFINE line == r \o arm \o body.post
      <4>1. arm \in LitLines
        BY <3>2
      <4>2. /\ line \in LitLines /\ line # <<>> /\ Head(line) = s
            /\ Tail(line) = Tail(r) \o arm \o body.post
        <5>1. PICK post \in LitLines : post = body.post
          BY <3>2
        <5>2. /\ r \o arm \o post \in LitLines /\ r \o arm \o post # <<>>
              /\ Head(r \o arm \o post) = Head(r) /\ Tail(r \o arm \o post) = Tail(r) \o arm \o post
          BY <3>4, <4>1, FirstOnPath
        <5> QED BY <3>5, <5>1, <5>2, Zenon
      <4>3. WalkLine(Custody, line) = moves
        BY <3>1 DEF AheadIn
      <4> HIDE DEF line
      <4>4. disposed' <= 1 /\ WalkLine(Custody', Tail(line)) = moves
        BY <1>1, <4>2, <4>3, CallOnPath DEF RunningWell
      <4> QED BY <4>2, <4>4
    <3>7. AheadIn(Tail(r))'
      <4>1. \A arm \in {body.then, body.else} : WalkLine(Custody, Tail(r) \o arm \o body.post)' = moves
        <5> SUFFICES ASSUME NEW arm \in {body.then, body.else}
                     PROVE  WalkLine(Custody, Tail(r) \o arm \o body.post)' = moves
          OBVIOUS
        <5>1. PICK c : c = Custody'
          OBVIOUS
        <5>2. PICK line : line = Tail(r) \o arm \o body.post
          OBVIOUS
        <5>3. WalkLine(Custody, Tail(r) \o arm \o body.post)' = WalkLine(c, line)
          BY <1>1, <5>1, <5>2 DEF WalkLine, WalkTerm, LitRefused, LitMoves
        <5> QED BY <3>6, <5>1, <5>2, <5>3
      <4> QED BY <1>1, <3>5, <4>1 DEF AheadIn, LitLines
    <3> QED BY <1>1, <2>3, <3>5, <3>6, <3>7 DEF Straight, LitLines
  <2> QED BY <1>1, <2>1, <2>2, <2>3 DEF SpliceInv, RunningWell, Straight
<1>5. \A q \in Slots : lits'[q] = "consumes" => runs'[q] <= disposed'
  <2> SUFFICES ASSUME NEW q \in Slots, lits[q] = "consumes" PROVE runs'[q] <= disposed'
    BY <1>1
  <2>1. runs[q] <= disposed /\ runs[q] \in Nat
    BY DEF SpliceInv
  <2>2. CASE q = s
    <3>1. runs'[q] = runs[q] + 1 /\ d = 1
      BY <1>1, <1>2, <2>2
    <3> QED BY <1>2, <2>1, <3>1
  <2>3. CASE q # s
    <3>1. runs'[q] = runs[q]
      BY <1>1, <2>3
    <3> QED BY <1>2, <2>1, <3>1
  <2> QED BY <2>2, <2>3
<1> QED BY <1>1, <1>3, <1>4, <1>5 DEF SpliceInv, RunningWell

\* what a step that starts a line does to the invariant
LEMMA StartKeeps ==
  ASSUME SpliceInv, RunningWell, UNCHANGED <<body, inline, lits, status, moves, runs, disposed>>,
         pending' \in Seq(Slots \cup {"self", "branch"}), turns' \in 0..MaxTurns,
         Looping \/ (Straight /\ Past')
  PROVE  SpliceInv'
<1>1. SpliceTypeOK'
  BY DEF SpliceInv, SpliceTypeOK
<1>2. Looping' \/ Straight'
  BY DEF Looping, Straight, AllKeep, LitLines
<1> QED BY <1>1, <1>2 DEF SpliceInv, RunningWell

LEMMA BranchKeeps == SpliceInv /\ (Branch(body.then) \/ Branch(body.else)) => SpliceInv'
<1> SUFFICES ASSUME SpliceInv, NEW arm \in {body.then, body.else}, Branch(arm) PROVE SpliceInv'
  OBVIOUS
<1> USE SpliceInvTypes
<1>1. /\ RunningWell /\ pending # <<>> /\ Head(pending) = "branch" /\ pending' = arm \o Tail(pending)
      /\ UNCHANGED <<body, inline, lits, status, moves, turns, runs, disposed>>
      /\ Looping \/ Straight
  BY DEF Branch, SpliceInv, RunningWell
<1>2. pending' \in Seq(Slots \cup {"self", "branch"}) /\ turns' \in 0..MaxTurns
  <2>1. arm \in Seq(Slots \cup {"self", "branch"})
    BY DEF BodyType, Lines
  <2>2. Tail(pending) \in Seq(Slots \cup {"self", "branch"})
    BY <1>1, PendingTypes
  <2>3. turns \in 0..MaxTurns
    BY DEF SpliceInv, SpliceTypeOK
  <2> QED BY <1>1, <2>1, <2>2, <2>3, ConcatProperties
<1>3. Straight => Past'
  <2> SUFFICES ASSUME Straight PROVE Past'
    OBVIOUS
  <2>1. ~Past
    <3>1. "branch" \notin Slots
      BY DEF Slots
    <3> QED BY <1>1, <3>1, HeadTailProperties DEF Past, LitLines
  <2>2. PICK r \in LitLines : AheadIn(r)
    BY <2>1 DEF Straight
  <2>3. body.post \in LitLines /\ arm \in LitLines /\ "branch" \notin Slots
    BY DEF Straight, Slots
  <2>4. r = <<>> /\ Tail(pending) = body.post
    BY <1>1, <2>2, <2>3, FirstAhead DEF AheadIn
  <2>5. r \o arm \o body.post = arm \o body.post
    BY <2>3, <2>4, ConcatEmptySeq DEF LitLines
  <2>6. WalkLine(Custody, arm \o body.post) = moves
    BY <2>2, <2>5 DEF AheadIn
  <2>7. pending' = arm \o body.post /\ pending' \in LitLines
    BY <1>1, <2>3, <2>4, ConcatProperties DEF LitLines
  <2>8. WalkLine(Custody, pending)' = WalkLine(Custody, arm \o body.post)
    <3>1. PICK c : c = Custody
      OBVIOUS
    <3>2. PICK line : line = arm \o body.post
      OBVIOUS
    <3>3. Custody' = c /\ pending' = line
      BY <1>1, <2>7, <3>1, <3>2 DEF Custody
    <3>4. WalkLine(Custody, pending)' = WalkLine(c, line)
      <4>1. lits' = lits
        BY <1>1
      <4> QED BY <3>3, <4>1 DEF WalkLine, WalkTerm, LitRefused, LitMoves
    <3> QED BY <3>1, <3>2, <3>4
  <2> QED BY <1>1, <2>6, <2>7, <2>8 DEF Past, LitLines
<1> QED BY <1>1, <1>2, <1>3, StartKeeps

LEMMA AgainKeeps == SpliceInv /\ Again => SpliceInv'
<1> SUFFICES ASSUME SpliceInv, Again PROVE SpliceInv'
  OBVIOUS
<1> USE SpliceInvTypes
<1>1. /\ RunningWell /\ pending # <<>> /\ Head(pending) = "self" /\ turns < MaxTurns /\ turns' = turns + 1
      /\ pending' = body.pre \o <<"branch">> \o body.post
      /\ UNCHANGED <<body, inline, lits, status, moves, runs, disposed>>
      /\ Looping \/ Straight
  BY DEF Again, SpliceInv, RunningWell
<1>2. pending' \in Seq(Slots \cup {"self", "branch"}) /\ turns' \in 0..MaxTurns
  <2>1. body.pre \in Seq(Slots \cup {"self", "branch"}) /\ body.post \in Seq(Slots \cup {"self", "branch"})
    BY DEF BodyType, Lines
  <2>2. <<"branch">> \in Seq(Slots \cup {"self", "branch"})
    OBVIOUS
  <2>3. pending' \in Seq(Slots \cup {"self", "branch"})
    BY <1>1, <2>1, <2>2, ConcatProperties
  <2>4. turns \in 0..MaxTurns /\ MaxTurns \in Nat
    BY LoopSpliceAssumption DEF SpliceInv, SpliceTypeOK
  <2> QED BY <1>1, <2>3, <2>4
<1>3. ~Straight
  <2> SUFFICES ASSUME Straight PROVE FALSE
    OBVIOUS
  <2>1. "self" \notin Slots /\ "self" # "branch" /\ body.post \in LitLines
    BY DEF Slots, Straight
  <2>2. CASE Past
    BY <1>1, <2>1, <2>2, HeadTailProperties DEF Past, LitLines
  <2>3. ASSUME NEW r \in LitLines, AheadIn(r) PROVE FALSE
    <3>1. CASE r = <<>>
      BY <1>1, <2>1, <2>3, <3>1, FirstAhead DEF AheadIn
    <3>2. CASE r # <<>>
      BY <1>1, <2>1, <2>3, <3>2, FirstAhead DEF AheadIn
    <3> QED BY <3>1, <3>2
  <2> QED BY <2>2, <2>3 DEF Straight
<1> QED BY <1>1, <1>2, <1>3, StartKeeps

LEMMA ReturnKeeps == SpliceInv /\ Return => SpliceInv'
<1> SUFFICES ASSUME SpliceInv, Return PROVE SpliceInv'
  OBVIOUS
<1> USE SpliceInvTypes
<1>1. /\ RunningWell /\ pending = <<>> /\ status' = "returned"
      /\ disposed' = IF moves = "live" THEN disposed + 1 ELSE disposed
      /\ UNCHANGED <<body, inline, lits, moves, pending, turns, runs>>
      /\ Looping \/ Straight
  BY DEF Return, SpliceInv, RunningWell
<1>2. moves = "live" <=> disposed = 0
  <2>1. CASE Looping
    BY <2>1 DEF Looping
  <2>2. CASE Straight /\ Past
    <3>1. moves = Custody
      BY <1>1, <2>2, WalkEmpty DEF Past
    <3> QED BY <3>1 DEF Custody
  <2>3. ASSUME Straight, NEW r \in LitLines, AheadIn(r) PROVE FALSE
    <3>1. body.post \in LitLines
      BY <2>3 DEF Straight
    <3> QED BY <1>1, <2>3, <3>1, FirstAhead DEF AheadIn
  <2> QED BY <1>1, <2>1, <2>2, <2>3 DEF Straight
<1>3. disposed' = 1 /\ disposed <= disposed'
  BY <1>1, <1>2 DEF RunningWell
<1>4. SpliceTypeOK'
  <2>1. disposed' \in Nat /\ SpliceTypeOK
    BY <1>3 DEF SpliceInv
  <2>2. status' = "returned" /\ UNCHANGED <<body, inline, lits, moves, pending, turns, runs>>
    BY <1>1
  <2> QED BY <2>1, <2>2 DEF SpliceTypeOK
<1>5. \A s \in Slots : lits'[s] = "consumes" => runs'[s] <= disposed'
  <2> SUFFICES ASSUME NEW s \in Slots, lits[s] = "consumes" PROVE runs[s] <= disposed'
    BY <1>1
  <2>1. runs[s] <= disposed /\ runs[s] \in Nat
    BY DEF SpliceInv
  <2> QED BY <1>3, <2>1
<1> QED BY <1>1, <1>3, <1>4, <1>5 DEF SpliceInv

\* SpliceInv holds in every reachable state: before the run nothing is disposed
\* of and every literal that is not an arm leaves the local alone; during the run
\* either no literal touches the local, however often the body loops, or there is
\* no loop and what the checker's walk says of the rest is what the rest does.
THEOREM SpliceInvariance ==
  ASSUME NoLoopingArms
  PROVE  SpliceSpec => []SpliceInv
<1>1. SpliceInit => SpliceInv
  BY SpliceInitially
<1>2. SpliceInv /\ [SpliceNext]_spliceVars => SpliceInv'
  <2> SUFFICES ASSUME SpliceInv, [SpliceNext]_spliceVars PROVE SpliceInv'
    OBVIOUS
  <2>1. CASE SpliceNext
    BY <2>1, CheckCyclesKeeps, ProbeKeeps, SpliceKeeps, CallKeeps, BranchKeeps, AgainKeeps, ReturnKeeps DEF SpliceNext
  <2>2. CASE UNCHANGED spliceVars
    <3>1. UNCHANGED <<body, inline, lits, status, moves, pending, turns, runs, disposed>>
      BY <2>2 DEF spliceVars
    <3>2. SpliceTypeOK'
      BY <3>1 DEF SpliceInv, SpliceTypeOK
    <3>3. Straight => Straight'
      <4> SUFFICES ASSUME Straight PROVE Straight'
        OBVIOUS
      <4>1. Past => Past'
        BY <3>1, SameWalks DEF Past, Custody, LitLines
      <4>2. ASSUME NEW r \in LitLines, AheadIn(r) PROVE AheadIn(r)'
        <5>1. ASSUME NEW arm \in {body.then, body.else} PROVE WalkLine(Custody, r \o arm \o body.post)' = moves
          <6>1. WalkLine(Custody, r \o arm \o body.post) = moves
            BY <4>2, <5>1 DEF AheadIn
          <6>2. WalkLine(Custody, r \o arm \o body.post)' = WalkLine(Custody, r \o arm \o body.post)
            BY <3>1 DEF Custody, WalkLine, WalkTerm, LitRefused, LitMoves
          <6> QED BY <6>1, <6>2
        <5> QED BY <3>1, <4>2, <5>1 DEF AheadIn, LitLines
      <4> QED BY <3>1, <4>1, <4>2 DEF Straight, LitLines
    <3>4. Looping => Looping'
      BY <3>1 DEF Looping, AllKeep
    <3> QED BY <3>1, <3>2, <3>3, <3>4 DEF SpliceInv, Settled, IsArm
  <2> QED BY <2>1, <2>2
<1> QED BY <1>1, <1>2, PTL DEF SpliceSpec

LEMMA DisposedAtMostOnce == SpliceInv => disposed <= 1 /\ (status = "returned" => disposed = 1)
<1> SUFFICES ASSUME SpliceInv PROVE disposed <= 1 /\ (status = "returned" => disposed = 1)
  OBVIOUS
<1>1. CASE status = "run"
  BY <1>1 DEF SpliceInv
<1>2. CASE status = "returned"
  <2>1. disposed = 1
    BY <1>2 DEF SpliceInv
  <2> QED BY <2>1
<1>3. CASE status \notin {"run", "returned"}
  <2>1. disposed = 0
    BY <1>3 DEF SpliceInv
  <2> QED BY <1>3, <2>1
<1> QED BY <1>1, <1>2, <1>3

\* DisposedOnce, for bodies of any length and any number of turns: unless a body
\* loops in one arm and tail-calls a literal in the other, an accepted splice
\* disposes of the captured local exactly once.
THEOREM CapturedOnce ==
  ASSUME NoLoopingArms
  PROVE  SpliceSpec => []DisposedOnce
<1>1. SpliceInv => DisposedOnce
  BY DisposedAtMostOnce DEF DisposedOnce
<1> QED BY <1>1, SpliceInvariance, PTL

\* ArmRunsAtMostOnce: what check.rs says of arms holds of every such body.
THEOREM ArmsRunOnce ==
  ASSUME NoLoopingArms
  PROVE  SpliceSpec => []ArmRunsAtMostOnce
<1>1. SpliceInv => ArmRunsAtMostOnce
  <2> SUFFICES ASSUME SpliceInv, NEW s \in Slots, status \in {"run", "returned"}, lits[s] = "consumes"
               PROVE  runs[s] <= 1
    BY DEF ArmRunsAtMostOnce
  <2>1. runs[s] <= disposed
    BY DEF SpliceInv
  <2>2. runs[s] \in Nat /\ disposed \in Nat
    BY SpliceInvTypes
  <2> QED BY <2>1, <2>2, DisposedAtMostOnce
<1> QED BY <1>1, SpliceInvariance, PTL

=============================================================================
