-------------------------- MODULE CycleSearchProofs --------------------------
(***************************************************************************)
(* Proofs about CycleSearch, for every graph, finite or not.  The search   *)
(* is a part of other modules, so the results are about its steps: a       *)
(* module that runs it has SearchInv as an invariant once it has begun.    *)
(***************************************************************************)
EXTENDS CycleSearch, SequenceTheorems, TLAPS

-----------------------------------------------------------------------------
(* The invariant.                                                          *)

\* The path is a path of the graph, each node once, and the gray nodes are its.
PathIsGray ==
  /\ \A m, n \in 1..Len(path) : path[m] = path[n] => m = n
  /\ \A k \in 1..Len(path) : color[path[k]] = 1
  /\ \A u \in Nodes : color[u] = 1 => \E k \in 1..Len(path) : path[k] = u
  /\ \A k \in 1..Len(path) : k + 1 <= Len(path) => path[k + 1] \in Succ(path[k])

\* What an activation has passed is done, but for the node it called for.
PassedIsDone ==
  \A k \in 1..Len(path) :
    /\ todo[path[k]] \subseteq Succ(path[k])
    /\ \A v \in Succ(path[k]) \ todo[path[k]] :
         color[v] = 2 \/ (k + 1 <= Len(path) /\ v = path[k + 1])

\* The nodes that are done: closed under edges, and without a cycle.
DoneIsClosed ==
  \A u \in Nodes : color[u] = 2 => \A v \in Succ(u) : color[v] = 2

DoneIsAcyclic ==
  \A S \in SUBSET Nodes :
    (S # {} /\ \A u \in S : color[u] = 2) => \E u \in S : Succ(u) \cap S = {}

SearchInv ==
  /\ SearchTypeOK /\ PathIsGray /\ PassedIsDone /\ DoneIsClosed /\ DoneIsAcyclic
  /\ verdict = "acyclic" => \A u \in Nodes : color[u] = 2
  /\ CycleIsReal

\* successors are nodes
LEMMA SuccIsNodes ==
  ASSUME SearchTypeOK
  PROVE  \A u \in Nodes : Succ(u) \subseteq Nodes /\ Succ(u) \subseteq adj[u]
BY DEF SearchTypeOK, Succ

\* the top of a path
LEMMA TopProps ==
  ASSUME SearchTypeOK, path # <<>>
  PROVE  /\ Len(path) \in Nat \ {0}
         /\ Len(path) \in 1..Len(path)
         /\ Top \in Nodes
BY DEF SearchTypeOK, Top

-----------------------------------------------------------------------------
(* A search begins.                                                        *)

LEMMA BeginKeeps ==
  ASSUME NEW g, g \in [DOMAIN g -> SUBSET DOMAIN g],
         AtRest, Begin(g)
  PROVE  SearchInv'
<1>1. /\ adj' = g /\ path' = <<>> /\ cycle' = <<>> /\ verdict' = "searching"
      /\ color' = [u \in DOMAIN g |-> 0] /\ todo' = [u \in DOMAIN g |-> {}]
  BY DEF AtRest, Begin
<1>2. Len(path') = 0 /\ path' \in Seq(DOMAIN g) /\ cycle' \in Seq(DOMAIN g)
  BY <1>1
<1>3. SearchTypeOK'
  BY <1>1, <1>2 DEF SearchTypeOK, Nodes
<1>4. PathIsGray' /\ PassedIsDone'
  BY <1>1, <1>2 DEF PathIsGray, PassedIsDone, Nodes
<1>5. DoneIsClosed' /\ DoneIsAcyclic'
  BY <1>1 DEF DoneIsClosed, DoneIsAcyclic, Nodes
<1> QED BY <1>1, <1>3, <1>4, <1>5 DEF SearchInv, CycleIsReal

-----------------------------------------------------------------------------
(* Entering a node.                                                        *)

LEMMA EnterKeeps ==
  ASSUME SearchInv, verdict = "searching",
         NEW v \in Nodes, color[v] = 0, Enter(v),
         path # <<>> => v \in todo[Top]
  PROVE  SearchInv'
<1> USE DEF Nodes
<1>0. /\ SearchTypeOK /\ PathIsGray /\ PassedIsDone /\ DoneIsClosed /\ DoneIsAcyclic
  BY DEF SearchInv
<1>1. /\ adj' = adj /\ cycle' = cycle /\ verdict' = "searching" /\ Nodes' = Nodes
      /\ color' = [color EXCEPT ![v] = 1] /\ path' = Append(path, v)
      /\ todo' = [u \in Nodes |-> IF u = v THEN Succ(v)
                                  ELSE IF path # <<>> /\ u = Top THEN todo[u] \ {v} ELSE todo[u]]
  BY DEF Enter
<1>2. \A u \in Nodes : Succ(u)' = Succ(u) /\ Succ(u) \subseteq Nodes
  BY <1>0, <1>1, SuccIsNodes DEF Succ
<1>3. /\ path \in Seq(Nodes) /\ Len(path) \in Nat /\ Len(path') = Len(path) + 1
      /\ path' \in Seq(Nodes)
      /\ \A k \in 1..Len(path) : path'[k] = path[k] /\ path[k] \in Nodes /\ path[k] # v
      /\ path'[Len(path) + 1] = v
  BY <1>0, <1>1, AppendProperties DEF SearchTypeOK, PathIsGray
<1>4. /\ color \in [Nodes -> 0..2] /\ color' \in [Nodes -> 0..2]
      /\ color'[v] = 1 /\ \A u \in Nodes \ {v} : color'[u] = color[u]
      /\ todo \in [Nodes -> SUBSET Nodes] /\ todo' \in [Nodes -> SUBSET Nodes]
  BY <1>0, <1>1, <1>2 DEF SearchTypeOK
<1>5. SearchTypeOK'
  BY <1>0, <1>1, <1>3, <1>4 DEF SearchTypeOK
<1>6. PathIsGray'
  <2>1. \A m, n \in 1..Len(path') : path'[m] = path'[n] => m = n
    BY <1>0, <1>3 DEF PathIsGray
  <2>2. \A k \in 1..Len(path') : color'[path'[k]] = 1
    BY <1>0, <1>3, <1>4 DEF PathIsGray
  <2>3. ASSUME NEW u \in Nodes, color'[u] = 1
        PROVE  \E k \in 1..Len(path') : path'[k] = u
    <3>1. CASE u = v
      BY <3>1, <1>3
    <3>2. CASE u # v
      <4>1. PICK k \in 1..Len(path) : path[k] = u
        BY <2>3, <3>2, <1>0, <1>4 DEF PathIsGray
      <4> QED BY <4>1, <1>3
    <3> QED BY <3>1, <3>2
  <2>4. ASSUME NEW k \in 1..Len(path'), k + 1 <= Len(path')
        PROVE  path'[k + 1] \in Succ(path[k])'
    <3>1. CASE k = Len(path)
      <4>1. path # <<>> /\ Top = path[k] /\ v \in todo[Top]
        BY <3>1, <1>3 DEF Top
      <4>2. v \in Succ(path[k])
        BY <4>1, <3>1, <1>0, <1>3 DEF PassedIsDone
      <4> QED BY <4>2, <3>1, <1>2, <1>3
    <3>2. CASE k # Len(path)
      <4>1. k \in 1..Len(path) /\ k + 1 \in 1..Len(path)
        BY <3>2, <2>4, <1>3
      <4>2. path[k + 1] \in Succ(path[k])
        BY <4>1, <1>0 DEF PathIsGray
      <4> QED BY <4>1, <4>2, <1>2, <1>3
    <3> QED BY <3>1, <3>2
  <2> QED BY <2>1, <2>2, <2>3, <2>4, <1>1 DEF PathIsGray
<1>7. PassedIsDone'
  <2> SUFFICES ASSUME NEW k \in 1..Len(path')
               PROVE  /\ todo'[path'[k]] \subseteq Succ(path[k])'
                      /\ \A w \in Succ(path[k])' \ todo'[path'[k]] :
                           color'[w] = 2 \/ (k + 1 <= Len(path') /\ w = path'[k + 1])
    BY DEF PassedIsDone
  <2>1. CASE k = Len(path) + 1
    BY <2>1, <1>1, <1>2, <1>3
  <2>2. CASE k # Len(path) + 1
    <3>1. k \in 1..Len(path) /\ path'[k] = path[k] /\ path[k] \in Nodes /\ path[k] # v
          /\ k + 1 <= Len(path')
      BY <2>2, <1>3
    <3>2. /\ todo[path[k]] \subseteq Succ(path[k])
          /\ \A w \in Succ(path[k]) \ todo[path[k]] :
               color[w] = 2 \/ (k + 1 <= Len(path) /\ w = path[k + 1])
      BY <3>1, <1>0 DEF PassedIsDone
    <3>3. \A w \in Nodes : color[w] = 2 => color'[w] = 2
      BY <1>4
    <3>4. CASE k = Len(path)
      <4>1. Top = path[k] /\ path # <<>> /\ todo'[path[k]] = todo[path[k]] \ {v}
        BY <3>1, <3>4, <1>1, <1>3 DEF Top
      <4>2. path'[k + 1] = v
        BY <3>4, <1>3
      <4>3. \A w \in Succ(path[k]) \ todo'[path[k]] : color[w] = 2 \/ w = v
        BY <3>1, <3>2, <3>4, <4>1, <1>3
      <4> QED BY <3>1, <3>2, <3>3, <4>1, <4>2, <4>3, <1>2
    <3>5. CASE k # Len(path)
      <4>1. k + 1 \in 1..Len(path) /\ path'[k + 1] = path[k + 1]
        BY <3>1, <3>5, <1>3
      <4>2. path[k] # path[Len(path)]
        BY <3>1, <3>5, <1>0, <1>3 DEF PathIsGray
      <4>3. todo'[path[k]] = todo[path[k]]
        BY <3>1, <4>2, <1>1 DEF Top
      <4> QED BY <3>1, <3>2, <3>3, <4>1, <4>3, <1>2
    <3> QED BY <3>4, <3>5
  <2> QED BY <2>1, <2>2
<1>8. \A u \in Nodes : color'[u] = 2 <=> color[u] = 2
  BY <1>4
<1>9. DoneIsClosed'
  BY <1>0, <1>1, <1>2, <1>8 DEF DoneIsClosed
<1>10. DoneIsAcyclic'
  <2> SUFFICES ASSUME NEW S \in SUBSET Nodes, S # {}, \A u \in S : color'[u] = 2
               PROVE  \E u \in S : Succ(u)' \cap S = {}
    BY <1>1 DEF DoneIsAcyclic
  <2>1. \E u \in S : Succ(u) \cap S = {}
    BY <1>0, <1>8 DEF DoneIsAcyclic
  <2> QED BY <2>1, <1>2
<1> QED BY <1>1, <1>5, <1>6, <1>7, <1>9, <1>10 DEF SearchInv, CycleIsReal

-----------------------------------------------------------------------------
(* The other steps.                                                        *)

LEMMA PassKeeps ==
  ASSUME SearchInv, Pass
  PROVE  SearchInv'
<1> USE DEF Nodes
<1>0. /\ SearchTypeOK /\ PathIsGray /\ PassedIsDone /\ DoneIsClosed /\ DoneIsAcyclic
  BY DEF SearchInv
<1>1. PICK v \in todo[Top] : /\ color[v] # 1 /\ color[v] # 0
                             /\ todo' = [todo EXCEPT ![Top] = @ \ {v}]
  BY DEF Pass, Closes, Fresh
<1>2. /\ adj' = adj /\ color' = color /\ path' = path /\ cycle' = cycle /\ verdict' = verdict
      /\ Nodes' = Nodes /\ verdict = "searching" /\ path # <<>>
  BY DEF Pass
<1>3. /\ Top \in Nodes /\ v \in Nodes /\ color[v] = 2
      /\ todo \in [Nodes -> SUBSET Nodes] /\ todo' \in [Nodes -> SUBSET Nodes]
      /\ todo'[Top] = todo[Top] \ {v} /\ \A u \in Nodes \ {Top} : todo'[u] = todo[u]
  BY <1>0, <1>1, <1>2, TopProps DEF SearchTypeOK
<1>4. SearchTypeOK'
  BY <1>0, <1>2, <1>3 DEF SearchTypeOK
<1>5. PathIsGray' /\ DoneIsClosed' /\ DoneIsAcyclic'
  BY <1>0, <1>2 DEF PathIsGray, DoneIsClosed, DoneIsAcyclic, Succ
<1>6. PassedIsDone'
  <2> SUFFICES ASSUME NEW k \in 1..Len(path)
               PROVE  /\ todo'[path[k]] \subseteq Succ(path[k])
                      /\ \A w \in Succ(path[k]) \ todo'[path[k]] :
                           color[w] = 2 \/ (k + 1 <= Len(path) /\ w = path[k + 1])
    BY <1>2 DEF PassedIsDone, Succ
  <2>1. path[k] \in Nodes
    BY <1>0 DEF SearchTypeOK
  <2>2. /\ todo[path[k]] \subseteq Succ(path[k])
        /\ \A w \in Succ(path[k]) \ todo[path[k]] :
             color[w] = 2 \/ (k + 1 <= Len(path) /\ w = path[k + 1])
    BY <1>0 DEF PassedIsDone
  <2>3. CASE path[k] = Top
    BY <2>2, <2>3, <1>3
  <2>4. CASE path[k] # Top
    BY <2>1, <2>2, <2>4, <1>3
  <2> QED BY <2>3, <2>4
<1> QED BY <1>2, <1>4, <1>5, <1>6 DEF SearchInv, CycleIsReal

LEMMA ReportKeeps ==
  ASSUME SearchInv, Report
  PROVE  SearchInv'
<1> USE DEF Nodes
<1>0. /\ SearchTypeOK /\ PathIsGray /\ PassedIsDone /\ DoneIsClosed /\ DoneIsAcyclic
  BY DEF SearchInv
<1>1. PICK v \in todo[Top], k \in 1..Len(path) :
        /\ path[k] = v /\ cycle' = SubSeq(path, k, Len(path))
  BY DEF Report
<1>2. /\ adj' = adj /\ color' = color /\ path' = path /\ todo' = todo /\ verdict' = "cycle"
      /\ Nodes' = Nodes /\ path # <<>>
  BY DEF Report
<1>3. /\ Len(path) \in Nat \ {0} /\ Len(path) \in 1..Len(path) /\ Top = path[Len(path)]
      /\ k \in Nat /\ \A n \in 1..Len(path) : path[n] \in Nodes
  BY <1>0, <1>2, TopProps DEF SearchTypeOK, Top
<1>4. v \in Succ(Top) /\ path[Len(path)] = Top
  BY <1>0, <1>1, <1>3 DEF PassedIsDone
<1>5. /\ cycle' \in Seq(Nodes) /\ Len(cycle') = Len(path) - k + 1
      /\ \A n \in 1..Len(path) - k + 1 : cycle'[n] = path[k + n - 1]
  <2>1. \A n \in k..Len(path) : path[n] \in Nodes
    BY <1>3
  <2>2. k \in Int /\ Len(path) \in Int /\ k <= Len(path)
    BY <1>3
  <2> QED BY <2>1, <2>2, <1>1, SubSeqProperties
<1>6. SearchTypeOK'
  BY <1>0, <1>2, <1>5 DEF SearchTypeOK
<1>7. PathIsGray' /\ PassedIsDone' /\ DoneIsClosed' /\ DoneIsAcyclic'
  <2>1. PathIsGray'
    BY <1>0, <1>2 DEF PathIsGray, Succ
  <2>2. PassedIsDone'
    BY <1>0, <1>2 DEF PassedIsDone, Succ
  <2>3. DoneIsClosed' /\ DoneIsAcyclic'
    BY <1>0, <1>2 DEF DoneIsClosed, DoneIsAcyclic, Succ
  <2> QED BY <2>1, <2>2, <2>3
<1>8. CycleIsReal'
  <2>1. Len(cycle') \in Nat \ {0} /\ cycle' # <<>>
    BY <1>3, <1>5
  <2>2. SkipSelf => Len(cycle') > 1
    <3> SUFFICES ASSUME SkipSelf PROVE k # Len(path)
      BY <1>3, <1>5
    <3> QED BY <1>1, <1>4 DEF Succ
  <2>3. ASSUME NEW n \in 1..Len(cycle')
        PROVE  cycle'[IF n = Len(cycle') THEN 1 ELSE n + 1] \in adj[cycle'[n]]
    <3>1. CASE n = Len(cycle')
      <4>1. cycle'[n] = Top /\ cycle'[1] = v
        BY <3>1, <1>1, <1>3, <1>5
      <4>2. v \in adj[Top]
        BY <1>4 DEF Succ
      <4> QED BY <3>1, <4>1, <4>2
    <3>2. CASE n # Len(cycle')
      <4>0. /\ n \in 1..Len(path) - k + 1 /\ n + 1 \in 1..Len(path) - k + 1
            /\ k + (n + 1) - 1 = k + n - 1 + 1
            /\ k + n - 1 \in 1..Len(path) /\ k + n - 1 + 1 <= Len(path)
        BY <3>2, <1>3, <1>5
      <4>1. cycle'[n] = path[k + n - 1] /\ cycle'[n + 1] = path[k + n - 1 + 1]
        BY <4>0, <1>5
      <4>2. path[k + n - 1 + 1] \in Succ(path[k + n - 1])
        BY <4>0, <1>0 DEF PathIsGray
      <4>3. path[k + n - 1 + 1] \in adj[path[k + n - 1]]
        BY <4>2 DEF Succ
      <4> QED BY <3>2, <4>1, <4>3
    <3> QED BY <3>1, <3>2
  <2>4. ASSUME NEW m \in 1..Len(cycle'), NEW n \in 1..Len(cycle'), cycle'[m] = cycle'[n]
        PROVE  m = n
    <3>1. /\ k + m - 1 \in 1..Len(path) /\ k + n - 1 \in 1..Len(path)
          /\ m \in 1..Len(path) - k + 1 /\ n \in 1..Len(path) - k + 1
      BY <1>3, <1>5
    <3>2. path[k + m - 1] = path[k + n - 1]
      BY <2>4, <3>1, <1>5
    <3>3. k + m - 1 = k + n - 1
      BY <3>1, <3>2, <1>0 DEF PathIsGray
    <3> QED BY <3>3, <1>3
  <2> QED BY <2>1, <2>2, <2>3, <2>4, <1>2 DEF CycleIsReal
<1> QED BY <1>2, <1>6, <1>7, <1>8 DEF SearchInv

LEMMA FinishKeeps ==
  ASSUME SearchInv, Finish
  PROVE  SearchInv'
<1> USE DEF Nodes
<1> DEFINE t == Top
           last == Len(path)
<1>0. /\ SearchTypeOK /\ PathIsGray /\ PassedIsDone /\ DoneIsClosed /\ DoneIsAcyclic
  BY DEF SearchInv
<1>1. /\ adj' = adj /\ todo' = todo /\ cycle' = cycle /\ verdict' = verdict /\ Nodes' = Nodes
      /\ verdict = "searching" /\ path # <<>> /\ todo[t] = {}
      /\ color' = [color EXCEPT ![t] = 2] /\ path' = SubSeq(path, 1, last - 1)
  BY DEF Finish, ColorDone
<1>2. /\ last \in Nat \ {0} /\ last \in 1..last /\ t = path[last] /\ t \in Nodes /\ color[t] = 1
      /\ \A n \in 1..last : path[n] \in Nodes
  <2>1. last \in Nat \ {0} /\ last \in 1..last /\ t = path[last] /\ t \in Nodes
    BY <1>0, <1>1, TopProps DEF Top
  <2> QED BY <2>1, <1>0 DEF SearchTypeOK, PathIsGray
<1>3. /\ path' \in Seq(Nodes) /\ Len(path') = last - 1
      /\ \A n \in 1..last - 1 : path'[n] = path[n]
  <2>1. PICK m \in Nat : last = m + 1 /\ last - 1 = m
    BY <1>2
  <2>2. path' = SubSeq(path, 1, m) /\ \A n \in 1..m : path[n] \in Nodes
    BY <2>1, <1>1, <1>2
  <2>3. /\ path' \in Seq(Nodes)
        /\ Len(path') = IF 1 <= m THEN m - 1 + 1 ELSE 0
        /\ \A n \in 1..(m - 1 + 1) : path'[n] = path[1 + n - 1]
    BY <2>2, SubSeqProperties
  <2>4. Len(path') = m /\ \A n \in 1..m : path'[n] = path[n]
    BY <2>3
  <2> QED BY <2>1, <2>3, <2>4
<1>4. /\ color' \in [Nodes -> 0..2] /\ color'[t] = 2 /\ \A u \in Nodes \ {t} : color'[u] = color[u]
  BY <1>0, <1>1, <1>2 DEF SearchTypeOK
<1>5. \A u \in Nodes : Succ(u)' = Succ(u) /\ Succ(u) \subseteq Nodes
  BY <1>0, <1>1, SuccIsNodes DEF Succ
<1>6. \A w \in Succ(t) : color[w] = 2 /\ w # t
  BY <1>0, <1>1, <1>2 DEF PassedIsDone
<1>7. SearchTypeOK'
  BY <1>0, <1>1, <1>3, <1>4 DEF SearchTypeOK
<1>8. PathIsGray'
  <2>1. \A n \in 1..last - 1 : path[n] # t /\ n \in 1..last
    BY <1>0, <1>2 DEF PathIsGray
  <2>2. \A m, n \in 1..Len(path') : path'[m] = path'[n] => m = n
    BY <2>1, <1>0, <1>3 DEF PathIsGray
  <2>3. \A n \in 1..Len(path') : color'[path'[n]] = 1
    BY <2>1, <1>0, <1>2, <1>3, <1>4 DEF PathIsGray
  <2>4. ASSUME NEW u \in Nodes, color'[u] = 1
        PROVE  \E n \in 1..Len(path') : path'[n] = u
    <3>1. u # t /\ color[u] = 1
      BY <2>4, <1>4
    <3>2. PICK n \in 1..last : path[n] = u
      BY <3>1, <1>0 DEF PathIsGray
    <3>3. n # last
      BY <3>1, <3>2, <1>2
    <3> QED BY <3>2, <3>3, <1>2, <1>3
  <2>5. ASSUME NEW n \in 1..Len(path'), n + 1 <= Len(path')
        PROVE  path'[n + 1] \in Succ(path[n])
    <3>1. /\ n \in 1..last /\ n + 1 <= last /\ path'[n + 1] = path[n + 1]
      BY <2>5, <1>2, <1>3
    <3> QED BY <3>1, <1>0 DEF PathIsGray
  <2> QED BY <2>2, <2>3, <2>4, <2>5, <1>1, <1>3 DEF PathIsGray, Succ
<1>9. PassedIsDone'
  <2> SUFFICES ASSUME NEW n \in 1..Len(path')
               PROVE  /\ todo[path[n]] \subseteq Succ(path[n])
                      /\ \A w \in Succ(path[n]) \ todo[path[n]] :
                           color'[w] = 2 \/ (n + 1 <= Len(path') /\ w = path'[n + 1])
    BY <1>1, <1>3 DEF PassedIsDone, Succ
  <2>1. n \in 1..last /\ n + 1 <= last /\ path[n] \in Nodes
    BY <1>2, <1>3
  <2>2. /\ todo[path[n]] \subseteq Succ(path[n])
        /\ \A w \in Succ(path[n]) \ todo[path[n]] :
             color[w] = 2 \/ (n + 1 <= last /\ w = path[n + 1])
    BY <2>1, <1>0 DEF PassedIsDone
  <2>3. \A w \in Nodes : color[w] = 2 => color'[w] = 2
    BY <1>4
  <2>4. CASE n + 1 = last
    BY <2>1, <2>2, <2>3, <2>4, <1>2, <1>4, <1>5
  <2>5. CASE n + 1 # last
    <3>1. n + 1 <= Len(path') /\ path'[n + 1] = path[n + 1]
      BY <2>1, <2>5, <1>2, <1>3
    <3> QED BY <2>1, <2>2, <2>3, <3>1, <1>5
  <2> QED BY <2>4, <2>5
<1>10. DoneIsClosed'
  <2> SUFFICES ASSUME NEW u \in Nodes, color'[u] = 2, NEW w \in Succ(u)
               PROVE  color'[w] = 2
    BY <1>1 DEF DoneIsClosed, Succ
  <2>1. color[w] = 2 /\ w \in Nodes
    BY <1>0, <1>4, <1>5, <1>6 DEF DoneIsClosed
  <2> QED BY <2>1, <1>4
<1>11. DoneIsAcyclic'
  <2> SUFFICES ASSUME NEW S \in SUBSET Nodes, S # {}, \A u \in S : color'[u] = 2
               PROVE  \E u \in S : Succ(u) \cap S = {}
    BY <1>1 DEF DoneIsAcyclic, Succ
  <2>1. CASE t \notin S
    <3>1. \A u \in S : color[u] = 2
      BY <2>1, <1>4
    <3> QED BY <3>1, <1>0 DEF DoneIsAcyclic
  <2>2. CASE S = {t}
    BY <2>2, <1>6
  <2>3. CASE t \in S /\ S # {t}
    <3>1. S \ {t} # {} /\ \A u \in S \ {t} : color[u] = 2
      BY <2>3, <1>4
    <3>2. PICK u \in S \ {t} : Succ(u) \cap (S \ {t}) = {}
      BY <3>1, <1>0 DEF DoneIsAcyclic
    <3>3. t \notin Succ(u)
      BY <3>1, <3>2, <1>0, <1>2 DEF DoneIsClosed
    <3> QED BY <3>2, <3>3
  <2> QED BY <2>1, <2>2, <2>3
<1> QED BY <1>1, <1>7, <1>8, <1>9, <1>10, <1>11 DEF SearchInv, CycleIsReal

LEMMA ExhaustedKeeps ==
  ASSUME SearchInv, Exhausted
  PROVE  SearchInv'
<1> USE DEF Nodes
<1>1. /\ adj' = adj /\ color' = color /\ path' = path /\ todo' = todo /\ cycle' = cycle
      /\ verdict' = "acyclic" /\ path = <<>> /\ \A u \in Nodes : color[u] # 0
  BY DEF Exhausted
<1>2. /\ SearchTypeOK /\ PathIsGray /\ PassedIsDone /\ DoneIsClosed /\ DoneIsAcyclic
  BY DEF SearchInv
<1>3. SearchTypeOK' /\ PathIsGray' /\ PassedIsDone' /\ DoneIsClosed' /\ DoneIsAcyclic'
  BY <1>1, <1>2 DEF SearchTypeOK, PathIsGray, PassedIsDone, DoneIsClosed, DoneIsAcyclic, Succ
<1>4. \A u \in Nodes : color[u] = 2
  <2>1. \A u \in Nodes : color[u] # 1
    BY <1>1, <1>2 DEF PathIsGray
  <2> QED BY <2>1, <1>1, <1>2 DEF SearchTypeOK
<1> QED BY <1>1, <1>3, <1>4 DEF SearchInv, CycleIsReal

-----------------------------------------------------------------------------
(* The results.                                                            *)

\* every step of the search keeps the invariant
LEMMA SearchKeeps ==
  ASSUME SearchInv, SearchNext
  PROVE  SearchInv'
<1>0. SearchTypeOK
  BY DEF SearchInv
<1>1. CASE StartAt
  BY <1>1, EnterKeeps DEF StartAt
<1>2. CASE Descend
  <2>1. PICK v \in todo[Top] : color[v] = 0 /\ Enter(v)
    BY <1>2 DEF Descend, Fresh
  <2>2. verdict = "searching" /\ v \in Nodes
    BY <1>0, <1>2, TopProps DEF Descend, SearchTypeOK
  <2> QED BY <2>1, <2>2, EnterKeeps
<1>3. CASE Pass
  BY <1>3, PassKeeps
<1>4. CASE Report
  BY <1>4, ReportKeeps
<1>5. CASE Finish
  BY <1>5, FinishKeeps
<1>6. CASE Exhausted
  BY <1>6, ExhaustedKeeps
<1> QED BY <1>1, <1>2, <1>3, <1>4, <1>5, <1>6 DEF SearchNext

\* a step that leaves the search alone keeps it too
LEMMA SearchStutters ==
  ASSUME SearchInv, UNCHANGED searchVars
  PROVE  SearchInv'
<1>1. /\ adj' = adj /\ color' = color /\ path' = path /\ todo' = todo /\ cycle' = cycle
      /\ verdict' = verdict
  BY DEF searchVars, search
<1>2. SearchTypeOK'
  BY <1>1 DEF SearchInv, SearchTypeOK, Nodes
<1>3. PathIsGray'
  BY <1>1 DEF SearchInv, PathIsGray, Succ, Nodes
<1>4. PassedIsDone'
  BY <1>1 DEF SearchInv, PassedIsDone, Succ
<1>5. DoneIsClosed' /\ DoneIsAcyclic'
  BY <1>1 DEF SearchInv, DoneIsClosed, DoneIsAcyclic, Succ, Nodes
<1>6. CycleIsReal'
  BY <1>1 DEF SearchInv, CycleIsReal
<1> QED BY <1>1, <1>2, <1>3, <1>4, <1>5, <1>6 DEF SearchInv, Nodes

\* a graph the search calls acyclic has no cycle
LEMMA SearchMissesNone ==
  ASSUME SearchInv
  PROVE  NoCycleMissed
BY DEF SearchInv, NoCycleMissed, DoneIsAcyclic
=============================================================================
