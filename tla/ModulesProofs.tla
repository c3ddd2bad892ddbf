----------------------------- MODULE ModulesProofs -----------------------------
(* Proofs about Closure, Origins and Instances: which modules a program is   *)
(* made of, what the names of those modules mean, and which instances of     *)
(* their generic words are compiled.                                         *)
EXTENDS Closure, Origins, Instances, CycleSearchProofs, Integers, SequenceTheorems, FiniteSetTheorems, NaturalsInduction, WellFoundedInduction

-----------------------------------------------------------------------------
(* Closure, for every set of files and of packages, every tree of them, and  *)
(* whatever the files and the manifests say.                                 *)

-----------------------------------------------------------------------------
(* The inductive invariant.                                                *)

TreeOK == tree \in DOMAIN Trees

Governed(f) == IsReal(SiteOf(f)) => manifests[SiteOf(f).pkg] # Unread

\* how far the walk has come
WalkAt ==
  /\ Len(targets) <= Len(nodes)
  /\ phase = "site" => i = Len(targets) + 1 /\ i <= Len(nodes) + 1
  /\ phase = "imports" => i = Len(targets) /\ site = SiteOf(nodes[i])
  /\ phase \in {"search", "audit", "accepted"} => Len(targets) = Len(nodes)
  /\ \A n \in 1..Len(targets) :
       /\ Governed(nodes[n]) /\ Len(targets[n]) <= Len(lines[n])
       /\ phase # "refused" => (phase = "imports" /\ n = i) \/ Len(targets[n]) = Len(lines[n])

NodesOnce == \A m, n \in 1..Len(nodes) : nodes[m] = nodes[n] => m = n

\* what has come of line k of file n
Outcome(n, k) ==
  IF lines[n][k].kind = "intrinsics" THEN targets[n][k] = None
  ELSE IF targets[n][k] = None THEN <<n, k>> \in unresolved
  ELSE /\ Imported(<<n, k>>) = lines[n][k].file /\ LawfulImport(<<n, k>>)
       /\ lines[n][k].kind = "dep" => manifests[Owner[Imported(<<n, k>>)]] # Unread
Outcomes == \A n \in 1..Len(targets) : \A k \in 1..Len(targets[n]) : Outcome(n, k)

SearchAt ==
  /\ phase \in {"site", "imports"} => AtRest
  /\ phase \in {"search", "audit", "accepted"} => adj = Graph /\ SearchInv
  /\ phase \in {"audit", "accepted"} => verdict = "acyclic"

\* the manifests audited are those read, and what one says holds once it is
\* neither waiting nor being gone through
AuditAt ==
  /\ phase \in {"site", "imports", "search"} => auditing = None
  /\ phase \in {"audit", "accepted"} =>
       /\ audited = {p \in Pkgs : manifests[p] # Unread} /\ pending \subseteq audited
       /\ auditing # None =>
            auditing \in audited
            /\ \A k \in DOMAIN DependsAt : k < j => EntryHolds(manifests[auditing], DependsAt[k])
       /\ \A p \in audited \ (pending \cup {auditing}) :
            \A k \in DOMAIN manifests[p].depends : EntryHolds(manifests[p], manifests[p].depends[k])
       /\ phase = "accepted" => pending = {} /\ auditing = None /\ unresolved = {}

IInv ==
  /\ TreeOK /\ TypeOK /\ WalkAt /\ NodesOnce /\ Outcomes /\ SearchAt /\ AuditAt

-----------------------------------------------------------------------------
(* What the build is, and what stays as it goes on.                        *)

LEMMA TreeProps ==
  ASSUME TreeOK
  PROVE  /\ Entry \in Files /\ Owner \in [Files -> Pkgs \cup {None}] /\ Override \in Pkgs \cup {None}
         /\ UserDepends = None \/ UserDepends \in Seq(DependsEntries)
         /\ \A x \in Texts : x \in Seq(ImportLines)
         /\ Unread \notin Manifests
         /\ \A m \in Manifests : m.layer \in Nat /\ m.depends \in Seq(DependsEntries)
BY ClosureAssumption DEF TreeOK, Entry, Owner, Override, UserDepends, Texts, Manifests

LEMMA SiteProps ==
  ASSUME TreeOK, NEW f \in Files
  PROVE  /\ SiteOf(f) \in Sites
         /\ IsReal(SiteOf(f)) => SiteOf(f).pkg \in Pkgs
         /\ SiteOf(f).origin = "ancestor" => SiteOf(f).pkg = Owner[f] /\ Owner[f] # None
         /\ SiteOf(f).origin = "user" => UserDepends # None
BY TreeProps DEF SiteOf, Sites, IsReal

LEMMA SameTree ==
  ASSUME tree' = tree
  PROVE  /\ TreeOK' = TreeOK /\ Entry' = Entry /\ Owner' = Owner /\ Texts' = Texts /\ Manifests' = Manifests
         /\ UserDepends' = UserDepends /\ Override' = Override
         /\ \A f : SiteOf(f)' = SiteOf(f)
BY DEF TreeOK, Entry, Owner, Texts, Manifests, UserDepends, Override, SiteOf

\* manifests are read, and never read again
Grows ==
  /\ manifests' \in [Pkgs -> Manifests \cup {Unread}]
  /\ \A p \in Pkgs : manifests[p] # Unread => manifests'[p] = manifests[p]

LEMMA LoadsGrow ==
  ASSUME TreeOK, TypeOK, NEW p \in Pkgs, manifests' \in Loads(p)
  PROVE  Grows /\ manifests'[p] # Unread /\ manifests'[p] \in Manifests
         /\ \A q \in Pkgs : q # p => manifests'[q] = manifests[q]
<1>1. manifests \in [Pkgs -> Manifests \cup {Unread}] /\ Unread \notin Manifests
  BY TreeProps DEF TypeOK
<1> QED BY <1>1 DEF Loads, Grows

LEMMA NoneRead ==
  ASSUME TypeOK, UNCHANGED manifests, TreeOK
  PROVE  Grows
BY DEF TypeOK, Grows

\* a file keeps its id and its lines, an import what it came to
Lasts ==
  /\ Len(nodes) <= Len(nodes')
  /\ \A n \in 1..Len(nodes) : nodes'[n] = nodes[n] /\ lines'[n] = lines[n]
  /\ unresolved \subseteq unresolved'

LEMMA LineTyped ==
  ASSUME TreeOK, TypeOK, NEW n \in 1..Len(nodes), NEW k \in 1..Len(lines[n])
  PROVE  lines[n][k] \in ImportLines /\ lines[n] \in Seq(ImportLines) /\ DOMAIN lines[n] = 1..Len(lines[n])
<1>1. lines[n] \in Texts
  BY DEF TypeOK
<1> QED BY <1>1, TreeProps

LEMMA TargetsTyped ==
  ASSUME TypeOK
  PROVE  /\ Len(targets) \in Nat /\ DOMAIN targets = 1..Len(targets)
         /\ \A n \in 1..Len(targets) :
              /\ targets[n] \in Seq(1..Len(nodes) \cup {None}) /\ Len(targets[n]) \in Nat
              /\ DOMAIN targets[n] = 1..Len(targets[n])
              /\ \A k \in 1..Len(targets[n]) : targets[n][k] \in 1..Len(nodes) \cup {None}
<1>1. targets \in Seq(Seq(1..Len(nodes) \cup {None}))
  BY DEF TypeOK
<1>2. \A n \in 1..Len(targets) : targets[n] \in Seq(1..Len(nodes) \cup {None})
  BY <1>1, ElementOfSeq
<1>3. Len(targets) \in Nat /\ DOMAIN targets = 1..Len(targets)
  BY <1>1, LenProperties
<1>4. ASSUME NEW n \in 1..Len(targets)
      PROVE  /\ Len(targets[n]) \in Nat /\ DOMAIN targets[n] = 1..Len(targets[n])
             /\ \A k \in 1..Len(targets[n]) : targets[n][k] \in 1..Len(nodes) \cup {None}
  BY <1>2, LenProperties, ElementOfSeq
<1> QED BY <1>2, <1>3, <1>4

LEMMA GovernedStays ==
  ASSUME TreeOK, tree' = tree, Grows, NEW f \in Files, Governed(f)
  PROVE  Governed(f)'
BY SiteProps, SameTree DEF Governed, IsReal, Grows

LEMMA NodeTyped ==
  ASSUME TreeOK, TypeOK
  PROVE  /\ Len(nodes) \in Nat
         /\ \A m \in 1..Len(nodes) : nodes[m] \in Files /\ Len(lines[m]) \in Nat
<1>1. nodes \in Seq(Files) /\ lines \in Seq(Texts) /\ Len(lines) = Len(nodes)
  BY DEF TypeOK
<1>2. \A m \in 1..Len(nodes) : nodes[m] \in Files /\ lines[m] \in Texts
  BY <1>1
<1>3. \A x \in Texts : Len(x) \in Nat
  BY TreeProps
<1> QED BY <1>1, <1>2, <1>3

LEMMA TargetWithin ==
  ASSUME TreeOK, TypeOK, WalkAt, NEW n \in 1..Len(targets)
  PROVE  n \in 1..Len(nodes) /\ 1..Len(targets[n]) \subseteq 1..Len(lines[n])
<1>1. Len(targets) \in Nat /\ Len(targets[n]) \in Nat
  BY TargetsTyped
<1>2. Len(targets) <= Len(nodes) /\ Len(targets[n]) <= Len(lines[n])
  BY DEF WalkAt
<1>3. n \in 1..Len(nodes)
  BY <1>1, <1>2, NodeTyped
<1>4. Len(lines[n]) \in Nat
  BY <1>3, NodeTyped
<1> QED BY <1>1, <1>2, <1>3, <1>4

LEMMA OutcomeStays ==
  ASSUME TreeOK, TypeOK, WalkAt, tree' = tree, Grows, Lasts,
         NEW n \in 1..Len(targets), NEW k \in 1..Len(targets[n]), Outcome(n, k),
         targets'[n][k] = targets[n][k]
  PROVE  Outcome(n, k)'
<1> DEFINE t == targets[n][k]
           l == lines[n][k]
           f == nodes[n]
           s == SiteOf(f)
<1>1. /\ n \in 1..Len(nodes) /\ k \in 1..Len(lines[n]) /\ t \in 1..Len(nodes) \cup {None}
      /\ Len(nodes) \in Nat /\ \A m \in 1..Len(nodes) : nodes[m] \in Files
  BY TargetsTyped, TargetWithin, NodeTyped
<1>2. l \in ImportLines /\ lines'[n][k] = l /\ nodes'[n] = f /\ f \in Files /\ SiteOf(f)' = s
  <2>1. lines'[n] = lines[n] /\ nodes'[n] = f
    BY <1>1 DEF Lasts
  <2>2. SiteOf(f)' = s
    BY SameTree, <2>1
  <2> QED BY <1>1, <2>1, <2>2, LineTyped
<1>3. CASE l.kind = "intrinsics" \/ t = None
  BY <1>2, <1>3 DEF Outcome, Lasts
<1>4. CASE l.kind # "intrinsics" /\ t # None
  <2> DEFINE g == nodes[t]
  <2>1. t \in 1..Len(nodes) /\ nodes'[t] = g /\ g \in Files
    BY <1>1, <1>4 DEF Lasts
  <2>2. /\ Imported(<<n, k>>) = g /\ Imported(<<n, k>>)' = g /\ Line(<<n, k>>) = l /\ Line(<<n, k>>)' = l
        /\ Importer(<<n, k>>) = f /\ Importer(<<n, k>>)' = f
    BY <1>2, <2>1 DEF Imported, Line, Importer
  <2>3. Owner' = Owner /\ UserDepends' = UserDepends /\ Owner \in [Files -> Pkgs \cup {None}]
    BY SameTree, TreeProps
  <2>4. g = l.file /\ LawfulImport(<<n, k>>) /\ (l.kind = "dep" => manifests[Owner[g]] # Unread)
    BY <1>4, <2>2 DEF Outcome
  <2>5. IsReal(s) => manifests'[s.pkg] = manifests[s.pkg]
    BY <1>2, SiteProps DEF Grows, WalkAt, Governed
  <2>6. IsReal(s)' = IsReal(s)
    BY <1>2 DEF IsReal
  <2>7. l.kind = "dep" => Owner[g] \in Pkgs /\ manifests'[Owner[g]] = manifests[Owner[g]]
    BY <2>1, <2>2, <2>3, <2>4 DEF LawfulImport, Grows
  <2>8. l.kind \in {"path", "self", "dep"}
    BY <1>2, <1>4 DEF ImportLines
  <2>9. CASE l.kind \in {"path", "self"}
    BY <1>2, <1>4, <2>2, <2>3, <2>4, <2>9 DEF Outcome, LawfulImport
  <2>10. CASE l.kind = "dep"
    <3>1. LawfulImport(<<n, k>>)'
      <4> DEFINE declared == IF IsReal(s) THEN manifests[s.pkg].depends ELSE UserDepends
      <4>1. /\ s.origin # "none" /\ Owner[g] # None /\ g \in manifests[Owner[g]].public
            /\ \E m \in DOMAIN declared : declared[m] = [name |-> l.name, to |-> Owner[g]]
        BY <2>2, <2>4, <2>10 DEF LawfulImport
      <4>2. (IF IsReal(s)' THEN manifests'[s.pkg].depends ELSE UserDepends') = declared
        BY <2>3, <2>5, <2>6
      <4>3. g \in manifests'[Owner'[g]].public
        BY <2>3, <2>7, <2>10, <4>1
      <4> QED BY <1>2, <2>2, <2>3, <2>10, <4>1, <4>2, <4>3 DEF LawfulImport
    <3> QED BY <1>2, <1>4, <2>2, <2>3, <2>4, <2>7, <2>10, <3>1 DEF Outcome
  <2> QED BY <2>8, <2>9, <2>10
<1> QED BY <1>3, <1>4

LEMMA RestingSearch ==
  ASSUME AtRest
  PROVE  SearchTypeOK
BY EmptySeq DEF AtRest, SearchTypeOK, Nodes

LEMMA SearchTypeStays ==
  ASSUME SearchTypeOK, UNCHANGED searchVars
  PROVE  SearchTypeOK'
BY DEF SearchTypeOK, searchVars, search, Nodes

LEMMA SearchStays ==
  ASSUME UNCHANGED searchVars
  PROVE  (AtRest => AtRest') /\ (SearchInv => SearchInv') /\ adj' = adj /\ verdict' = verdict
<1>1. adj' = adj /\ verdict' = verdict
  BY DEF searchVars, search
<1>2. AtRest => AtRest'
  BY DEF searchVars, search, AtRest
<1> QED BY <1>1, <1>2, SearchStutters

\* the outcomes there were are there still
LEMMA OutcomesStay ==
  ASSUME IInv, tree' = tree, Grows, Lasts, targets' = targets
  PROVE  Outcomes'
<1>1. ASSUME NEW n \in 1..Len(targets), NEW k \in 1..Len(targets[n]) PROVE Outcome(n, k)'
  BY OutcomeStays DEF IInv, Outcomes
<1> QED BY <1>1 DEF Outcomes

\* the build is refused
LEMMA RefuseKeeps ==
  ASSUME IInv, Refuse, tree' = tree, Grows
  PROVE  IInv'
<1>1. /\ phase' = "refused" /\ UNCHANGED <<nodes, lines, targets, i, site, unresolved, pending, audited, auditing, j>>
      /\ UNCHANGED searchVars
  BY DEF Refuse, walk, audit
<1>2. TreeOK /\ TypeOK /\ WalkAt
  BY DEF IInv
<1>3. TypeOK'
  <2>1. SearchTypeOK'
    BY <1>1, <1>2, SearchTypeStays DEF TypeOK
  <2> QED BY <1>1, <1>2, <2>1, SameTree DEF TypeOK, Grows
<1>4. WalkAt'
  <2>1. \A n \in 1..Len(targets) : n \in 1..Len(nodes) /\ nodes[n] \in Files
    BY <1>2, TargetsTyped DEF TypeOK, WalkAt
  <2>2. \A n \in 1..Len(targets) : Governed(nodes[n])'
    BY <1>1, <1>2, <2>1, GovernedStays DEF WalkAt, Governed
  <2> QED BY <1>1, <1>2, <2>2 DEF WalkAt
<1>5. Lasts
  BY <1>1, <1>2 DEF Lasts, TypeOK
<1>6. Outcomes'
  BY <1>1, <1>5, OutcomesStay
<1> QED BY <1>1, <1>2, <1>3, <1>4, <1>6, SameTree DEF IInv, NodesOnce, SearchAt, AuditAt

\* one more import of file i has come to x
LEMMA PushProps ==
  ASSUME TypeOK, i \in 1..Len(targets), Len(nodes) <= Len(nodes'), Len(nodes') \in Nat,
         NEW x \in 1..Len(nodes') \cup {None}, Push(x)
  PROVE  /\ targets' \in Seq(Seq(1..Len(nodes') \cup {None})) /\ Len(targets') = Len(targets)
         /\ \A n \in 1..Len(targets) : n # i => targets'[n] = targets[n]
         /\ Len(targets'[i]) = Len(targets[i]) + 1 /\ targets'[i][Len(targets[i]) + 1] = x
         /\ \A k \in 1..Len(targets[i]) : targets'[i][k] = targets[i][k]
<1> DEFINE T == 1..Len(nodes') \cup {None}
<1>1. targets \in Seq(Seq(T))
  <2>1. Len(nodes) \in Nat /\ 1..Len(nodes) \cup {None} \subseteq T
    BY DEF TypeOK
  <2>2. Seq(1..Len(nodes) \cup {None}) \subseteq Seq(T)
    BY <2>1, SeqMonotonic
  <2> QED BY <2>2, SeqMonotonic DEF TypeOK
<1>2. targets[i] \in Seq(T)
  BY <1>1, ElementOfSeq
<1> HIDE DEF T
<1>3. x \in T
  BY DEF T
<1>4. Append(targets[i], x) \in Seq(T)
  BY <1>2, <1>3
<1>5. targets' = [targets EXCEPT ![i] = Append(targets[i], x)]
  BY DEF Push
<1>6. /\ targets' \in Seq(Seq(T)) /\ Len(targets') = Len(targets)
      /\ \A n \in 1..Len(targets) : targets'[n] = IF n = i THEN Append(targets[i], x) ELSE targets[n]
  BY <1>1, <1>4, <1>5, ExceptSeq
<1>7. targets'[i] = Append(targets[i], x)
  BY <1>6
<1>8. /\ Len(Append(targets[i], x)) = Len(targets[i]) + 1
      /\ Append(targets[i], x)[Len(targets[i]) + 1] = x
      /\ \A k \in 1..Len(targets[i]) : Append(targets[i], x)[k] = targets[i][k]
  BY <1>2, <1>3
<1> QED BY <1>6, <1>7, <1>8 DEF T

LEMMA ImportKeeps ==
  ASSUME IInv, phase = "imports", phase' = "imports", Len(targets[i]) < Len(lines[i]), tree' = tree, Grows, Lasts,
         nodes' \in Seq(Files), lines' \in Seq(Texts), Len(lines') = Len(nodes'), NodesOnce',
         NEW x \in 1..Len(nodes') \cup {None}, Push(x), unresolved' \in SUBSET (Nat \X Nat),
         UNCHANGED <<i, site, audit, searchVars>>,
         NEW spot, spot = i, NEW line, line = Len(targets[i]) + 1, Outcome(spot, line)'
  PROVE  IInv'
<1>1. TreeOK /\ TypeOK /\ WalkAt /\ SearchTypeOK
  BY DEF IInv, TypeOK
<1>2. i = Len(targets) /\ i \in 1..Len(targets) /\ Len(targets) <= Len(nodes) /\ Len(nodes) \in Nat /\ Len(nodes') \in Nat
  BY <1>1, TargetsTyped DEF WalkAt, TypeOK
<1>3. /\ targets' \in Seq(Seq(1..Len(nodes') \cup {None})) /\ Len(targets') = Len(targets)
      /\ \A n \in 1..Len(targets) : n # i => targets'[n] = targets[n]
      /\ Len(targets'[i]) = Len(targets[i]) + 1 /\ targets'[i][Len(targets[i]) + 1] = x
      /\ \A k \in 1..Len(targets[i]) : targets'[i][k] = targets[i][k]
  BY <1>1, <1>2, PushProps DEF Lasts
<1>4. \A n \in 1..Len(targets) : /\ n \in 1..Len(nodes) /\ nodes[n] \in Files /\ nodes'[n] = nodes[n]
                                 /\ lines'[n] = lines[n] /\ Len(targets[n]) \in Nat
  BY <1>1, <1>2, TargetsTyped DEF TypeOK, Lasts
<1>5. TypeOK'
  <2>1. SearchTypeOK'
    BY <1>1, SearchTypeStays
  <2> QED BY <1>1, <1>3, <2>1, SameTree DEF TypeOK, Grows, audit
<1>6. WalkAt'
  <2>1. ASSUME NEW n \in 1..Len(targets)
        PROVE  /\ Governed(nodes[n])' /\ Len(targets'[n]) <= Len(lines'[n])
               /\ n = i \/ Len(targets'[n]) = Len(lines'[n])
    <3>1. Governed(nodes[n])'
      <4>1. Governed(nodes[n])
        BY <1>1 DEF WalkAt
      <4>2. \A f \in Files : Governed(f) => Governed(f)'
        BY <1>1, GovernedStays
      <4> QED BY <1>4, <4>1, <4>2
    <3>2. CASE n # i
      BY <1>1, <1>3, <1>4, <3>1, <3>2 DEF WalkAt
    <3>3. CASE n = i
      <4>1. Len(lines[i]) \in Nat
        BY <1>1, <1>2, <1>4, TreeProps DEF TypeOK
      <4> QED BY <1>3, <1>4, <3>1, <3>3, <4>1
    <3> QED BY <3>2, <3>3
  <2>2. site' = SiteOf(nodes[i])'
    BY <1>1, <1>2, <1>4, SameTree DEF WalkAt
  <2> QED BY <1>1, <1>2, <1>3, <2>1, <2>2 DEF WalkAt, Lasts
<1>7. Outcomes'
  <2> SUFFICES ASSUME NEW n \in 1..Len(targets), NEW k \in 1..Len(targets'[n]) PROVE Outcome(n, k)'
    BY <1>3 DEF Outcomes
  <2>1. CASE n = spot /\ k = line
    BY <2>1
  <2>2. CASE ~(n = spot /\ k = line)
    <3>1. k \in 1..Len(targets[n]) /\ targets'[n][k] = targets[n][k]
      <4>1. CASE n = i
        <5>1. k \in 1..Len(targets[i]) + 1 /\ k # Len(targets[i]) + 1 /\ Len(targets[i]) \in Nat
          BY <1>3, <1>4, <2>2, <4>1
        <5> QED BY <1>3, <4>1, <5>1
      <4>2. CASE n # i
        BY <1>3, <4>2
      <4> QED BY <4>1, <4>2
    <3> QED BY <1>1, <3>1, OutcomeStays DEF IInv, Outcomes
  <2> QED BY <2>1, <2>2
<1>8. TreeOK' /\ SearchAt' /\ AuditAt'
  BY <1>1, SameTree, SearchStays DEF IInv, SearchAt, AuditAt, audit
<1> QED BY <1>5, <1>6, <1>7, <1>8 DEF IInv

-----------------------------------------------------------------------------
(* The imports of a file.                                                  *)

LEMMA AtImportProps ==
  ASSUME IInv, NEW kind, AtImport(kind)
  PROVE  /\ phase = "imports" /\ Len(targets[i]) < Len(lines[i]) /\ Len(targets[i]) \in Nat
         /\ i \in 1..Len(targets) /\ i \in 1..Len(nodes) /\ Len(nodes) \in Nat
         /\ Import \in ImportLines /\ Import.kind = kind /\ Len(targets[i]) + 1 \in 1..Len(lines[i])
         /\ site = SiteOf(nodes[i]) /\ nodes[i] \in Files /\ site \in Sites
         /\ IsReal(site) => site.pkg \in Pkgs /\ manifests[site.pkg] # Unread /\ manifests[site.pkg] \in Manifests
<1>1. TreeOK /\ TypeOK /\ WalkAt
  BY DEF IInv
<1>2. /\ phase = "imports" /\ Len(targets[i]) < Len(lines[i]) /\ Import.kind = kind
  BY DEF AtImport, Import
<1>3. i = Len(targets) /\ i \in 1..Len(targets) /\ i \in 1..Len(nodes) /\ Len(nodes) \in Nat /\ Len(targets[i]) \in Nat
  BY <1>1, <1>2, TargetsTyped DEF TypeOK, WalkAt
<1>4. nodes[i] \in Files /\ lines[i] \in Seq(ImportLines)
  BY <1>1, <1>3, TreeProps DEF TypeOK
<1>5. Len(targets[i]) + 1 \in 1..Len(lines[i])
  BY <1>2, <1>3, <1>4
<1>6. Import \in ImportLines
  BY <1>4, <1>5 DEF Import
<1>7. site = SiteOf(nodes[i]) /\ site \in Sites /\ (IsReal(site) => site.pkg \in Pkgs /\ manifests[site.pkg] # Unread)
  BY <1>1, <1>2, <1>3, <1>4, SiteProps DEF WalkAt, Governed
<1>8. IsReal(site) => manifests[site.pkg] \in Manifests
  BY <1>1, <1>7 DEF TypeOK
<1> QED BY <1>2, <1>3, <1>4, <1>5, <1>6, <1>7, <1>8

\* what the walk looks at before it takes an import to lead to file f
LawfulEdge(f) ==
  /\ Import.kind = "path" => site.origin # "ancestor"
  /\ Import.kind = "self" => site.origin = "ancestor" /\ Owner[f] = site.pkg
  /\ Import.kind = "dep" =>
       /\ site.origin # "none" /\ Owner[f] # None /\ manifests'[Owner[f]] # Unread /\ f \in manifests'[Owner[f]].public
       /\ \E k \in DOMAIN Depends : Depends[k] = [name |-> Import.name, to |-> Owner[f]]

LEMMA EdgeOutcome ==
  ASSUME IInv, NEW kind \in {"path", "self", "dep"}, AtImport(kind), tree' = tree, Grows, Lasts,
         NEW f \in Files, f = Import.file, LawfulEdge(f),
         NEW x \in 1..Len(nodes'), nodes'[x] = f,
         NEW spot, spot = i, NEW line, line = Len(targets[i]) + 1, targets'[spot][line] = x
  PROVE  Outcome(spot, line)'
<1> DEFINE e == <<spot, line>>
<1>1. lines'[spot][line] = Import /\ nodes'[spot] = nodes[i] /\ Import.kind = kind
  BY AtImportProps DEF Lasts, Import
<1>2. Line(e)' = Import /\ Importer(e)' = nodes[i] /\ Imported(e)' = f
  BY <1>1 DEF Line, Importer, Imported
<1>3. Owner' = Owner /\ UserDepends' = UserDepends /\ SiteOf(nodes[i])' = SiteOf(nodes'[i'])
  BY SameTree DEF SiteOf
<1>4. \A g : SiteOf(g)' = SiteOf(g)
  BY SameTree
<1>5. SiteOf(Importer(e))' = site
  <2>1. \A g : g = Importer(e)' => SiteOf(Importer(e))' = SiteOf(g)
    BY <1>4, SameTree DEF SiteOf
  <2> QED BY <1>2, <2>1, AtImportProps
<1>6. IsReal(site) => manifests'[site.pkg] = manifests[site.pkg]
  BY AtImportProps DEF Grows
<1>7. x # None
  BY ClosureAssumption, AtImportProps
<1>8. kind # "dep" => LawfulImport(e)'
  BY <1>1, <1>2, <1>3, <1>5 DEF LawfulImport, LawfulEdge
<1>9. ASSUME kind = "dep" PROVE LawfulImport(e)'
  <2> DEFINE declared == IF IsReal(site) THEN manifests[site.pkg].depends ELSE UserDepends
  <2>1. site.origin # "none" /\ Owner[f] # None /\ f \in manifests'[Owner[f]].public
        /\ \E k \in DOMAIN Depends : Depends[k] = [name |-> Import.name, to |-> Owner[f]]
    BY <1>1, <1>9 DEF LawfulEdge
  <2>2. Depends = declared
    BY <2>1, AtImportProps DEF Depends, Sites, IsReal
  <2>3. \E k \in DOMAIN declared : declared[k] = [name |-> Import.name, to |-> Owner[f]]
    BY <2>1, <2>2
  <2>4. declared = IF IsReal(site) THEN manifests'[site.pkg].depends ELSE UserDepends
    BY <1>6
  <2> HIDE DEF declared
  <2> QED BY <1>1, <1>2, <1>3, <1>5, <1>9, <2>1, <2>3, <2>4 DEF LawfulImport, IsReal
<1>10. kind = "dep" => manifests'[Owner[f]] # Unread
  BY <1>1 DEF LawfulEdge
<1> QED BY <1>1, <1>2, <1>3, <1>7, <1>8, <1>9, <1>10 DEF Outcome

LEMMA EdgeKeeps ==
  ASSUME IInv, NEW kind \in {"path", "self", "dep"}, AtImport(kind), tree' = tree, Grows,
         NEW f \in Files, f = Import.file, LawfulEdge(f), Edge(f)
  PROVE  IInv'
<1>1. TypeOK /\ NodesOnce /\ Len(nodes) \in Nat /\ nodes \in Seq(Files) /\ lines \in Seq(Texts) /\ Len(lines) = Len(nodes)
  BY DEF IInv, TypeOK
<1>2. phase = "imports" /\ i \in 1..Len(targets) /\ Len(targets[i]) < Len(lines[i])
  BY AtImportProps
<1>3. ASSUME Ids(f) # {}, Push(CHOOSE n \in Ids(f) : TRUE),
             UNCHANGED <<nodes, lines, i, site, unresolved, audit, phase, searchVars>>
      PROVE  IInv'
  <2>1. PICK x : x \in Ids(f) /\ Push(x)
    BY <1>3
  <2>2. x \in 1..Len(nodes) /\ nodes[x] = f
    BY <2>1 DEF Ids
  <2>3. x \in 1..Len(nodes') /\ nodes'[x] = f /\ Lasts
    BY <1>1, <1>3, <2>2 DEF Lasts
  <2>4. targets'[i][Len(targets[i]) + 1] = x
    BY <1>1, <1>2, <1>3, <2>1, <2>3, PushProps
  <2>5. PICK spot, line : spot = i /\ line = Len(targets[i]) + 1
    OBVIOUS
  <2>6. Outcome(spot, line)'
    BY <2>3, <2>4, <2>5, EdgeOutcome
  <2> QED BY <1>1, <1>2, <1>3, <2>1, <2>3, <2>5, <2>6, ImportKeeps DEF TypeOK, NodesOnce
<1>4. ASSUME Ids(f) = {}, NEW text \in Texts, nodes' = Append(nodes, f), lines' = Append(lines, text),
             Push(NextId), UNCHANGED <<i, site, unresolved, audit, phase, searchVars>>
      PROVE  IInv'
  <2>1. /\ Len(nodes') = Len(nodes) + 1 /\ nodes'[Len(nodes) + 1] = f /\ nodes' \in Seq(Files)
        /\ \A n \in 1..Len(nodes) : nodes'[n] = nodes[n]
        /\ lines' \in Seq(Texts) /\ Len(lines') = Len(nodes')
        /\ \A n \in 1..Len(nodes) : lines'[n] = lines[n]
    BY <1>1, <1>4
  <2>2. Lasts
    BY <1>1, <1>4, <2>1 DEF Lasts
  <2>3. NodesOnce'
    <3>1. \A n \in 1..Len(nodes) : nodes[n] # f
      BY <1>4 DEF Ids
    <3>2. \A n \in 1..Len(nodes') : n \in 1..Len(nodes) \/ n = Len(nodes) + 1
      BY <1>1, <2>1
    <3> QED BY <1>1, <2>1, <3>1, <3>2 DEF NodesOnce
  <2>4. PICK x : x = Len(nodes) + 1
    OBVIOUS
  <2>5. x \in 1..Len(nodes') /\ nodes'[x] = f /\ Push(x)
    BY <1>1, <1>4, <2>1, <2>4 DEF NextId
  <2>6. targets'[i][Len(targets[i]) + 1] = x
    BY <1>1, <1>2, <2>1, <2>5, PushProps
  <2>7. PICK spot, line : spot = i /\ line = Len(targets[i]) + 1
    OBVIOUS
  <2>8. Outcome(spot, line)'
    BY <2>2, <2>5, <2>6, <2>7, EdgeOutcome
  <2>9. unresolved' \in SUBSET (Nat \X Nat) /\ phase' = "imports"
    BY <1>1, <1>2, <1>4 DEF TypeOK
  <2> QED BY <1>2, <1>4, <2>1, <2>2, <2>3, <2>5, <2>7, <2>8, <2>9, ImportKeeps
<1>5. CASE Refuse
  BY <1>5, RefuseKeeps
<1> QED BY <1>3, <1>4, <1>5 DEF Edge

LEMMA NoEdgeKeeps ==
  ASSUME IInv, NEW kind, AtImport(kind), tree' = tree, Grows, NEW noted, NoEdge(noted),
         IF kind = "intrinsics" THEN noted = {} ELSE noted = Recorded
  PROVE  IInv'
<1>1. TypeOK /\ NodesOnce /\ Len(nodes) \in Nat /\ nodes \in Seq(Files) /\ lines \in Seq(Texts) /\ Len(lines) = Len(nodes)
  BY DEF IInv, TypeOK
<1>2. /\ phase = "imports" /\ i \in 1..Len(targets) /\ Len(targets[i]) < Len(lines[i]) /\ Import.kind = kind
      /\ i \in 1..Len(nodes) /\ Len(targets[i]) \in Nat
  BY AtImportProps
<1>3. Push(None) /\ unresolved' = unresolved \cup noted /\ UNCHANGED <<nodes, lines, i, site, audit, phase, searchVars>>
  BY DEF NoEdge
<1>4. Lasts /\ NodesOnce' /\ unresolved' \in SUBSET (Nat \X Nat)
  BY <1>1, <1>2, <1>3 DEF Lasts, NodesOnce, Recorded, TypeOK
<1>5. targets'[i][Len(targets[i]) + 1] = None
  <2>1. None \in 1..Len(nodes') \cup {None} /\ Len(nodes) <= Len(nodes') /\ Len(nodes') \in Nat
    BY <1>1, <1>3
  <2> QED BY <1>1, <1>2, <1>3, <2>1, PushProps
<1>6. PICK spot, line : spot = i /\ line = Len(targets[i]) + 1
  OBVIOUS
<1>7. lines'[spot][line].kind = kind /\ targets'[spot][line] = None /\ (kind # "intrinsics" => <<spot, line>> \in unresolved')
  BY <1>2, <1>3, <1>5, <1>6 DEF Import, Recorded
<1>8. Outcome(spot, line)'
  BY <1>7 DEF Outcome
<1> QED BY <1>1, <1>2, <1>3, <1>4, <1>6, <1>8, ImportKeeps

\* the entries a dependency is looked up in, and the first of its name
LEMMA DependsTyped ==
  ASSUME IInv, AtImport("dep"), Declared(Import.name) # {}
  PROVE  Depends \in Seq(DependsEntries) /\ site.origin # "none"
<1>1. Depends # <<>>
  BY DEF Declared
<1>2. TreeOK /\ nodes[i] \in Files /\ site = SiteOf(nodes[i]) /\ site \in Sites
      /\ (IsReal(site) => manifests[site.pkg] \in Manifests)
  BY AtImportProps DEF IInv
<1>3. site.origin = "user" => UserDepends \in Seq(DependsEntries)
  BY <1>2, SiteProps, TreeProps
<1>4. IsReal(site) => manifests[site.pkg].depends \in Seq(DependsEntries)
  BY <1>2, TreeProps
<1> QED BY <1>1, <1>2, <1>3, <1>4 DEF Depends, Sites, IsReal

\* some natural numbers have a least one
LEMMA LeastOfNaturals ==
  ASSUME NEW S \in SUBSET Nat, S # {}
  PROVE  \E m \in S : \A k \in S : m <= k
<1> DEFINE R == OpToRel(<, Nat)
<1>1. IsWellFoundedOn(R, Nat)
  BY NatLessThanWellFounded
<1>2. PICK m \in S : \A k \in S : <<k, m>> \notin R
  <2> HIDE DEF R
  <2> QED BY <1>1, WFMin
<1>3. \A k \in S : ~(k < m)
  BY <1>2 DEF OpToRel
<1> QED BY <1>3

LEMMA FirstIsOne ==
  ASSUME IInv, AtImport("dep"), Declared(Import.name) # {}
  PROVE  \E k \in DOMAIN Depends : Depends[k].name = Import.name /\ Depends[k].to = First(Import.name)
<1> DEFINE D == Declared(Import.name)
           least == CHOOSE e \in D : \A d \in D : e <= d
<1>1. D \in SUBSET Nat /\ D # {}
  BY DependsTyped DEF Declared
<1> HIDE DEF D
<1>2. \E e \in D : \A d \in D : e <= d
  BY <1>1, LeastOfNaturals
<1>3. least \in D
  BY <1>2
<1> QED BY <1>3 DEF First, Declared, D

\* every import that is resolved keeps the invariant
LEMMA ResolvesKeep ==
  ASSUME IInv, tree' = tree,
         ImportIntrinsics \/ ImportPath \/ ImportSelf \/ ImportUndeclared \/ ImportDeclared
  PROVE  IInv'
<1>1. TreeOK /\ TypeOK
  BY DEF IInv
<1>2. CASE ImportIntrinsics
  <2>1. Grows
    BY <1>1, <1>2, NoneRead DEF ImportIntrinsics
  <2> QED BY <1>2, <2>1, NoEdgeKeeps DEF ImportIntrinsics
<1>3. CASE ImportPath
  <2>1. AtImport("path") /\ Grows
    BY <1>1, <1>3, NoneRead DEF ImportPath
  <2>2. CASE Refuse
    BY <2>1, <2>2, RefuseKeeps
  <2>3. CASE ~Refuse
    <3>1. site.origin # "ancestor" /\ Import.file # None /\ Edge(Import.file)
      BY <1>3, <2>3 DEF ImportPath
    <3>2. Import.file \in Files /\ Import.kind = "path"
      BY <2>1, <3>1, AtImportProps DEF ImportLines
    <3>3. LawfulEdge(Import.file)
      BY <3>1, <3>2 DEF LawfulEdge
    <3> QED BY <2>1, <3>1, <3>2, <3>3, EdgeKeeps
  <2> QED BY <2>2, <2>3
<1>4. CASE ImportSelf
  <2>1. AtImport("self") /\ Grows
    BY <1>1, <1>4, NoneRead DEF ImportSelf
  <2>2. CASE Refuse
    BY <2>1, <2>2, RefuseKeeps
  <2>3. CASE ~Refuse
    <3>1. site.origin = "ancestor" /\ Import.file # None /\ Owner[Import.file] = site.pkg /\ Edge(Import.file)
      BY <1>4, <2>3 DEF ImportSelf, Owned
    <3>2. Import.file \in Files /\ Import.kind = "self"
      BY <2>1, <3>1, AtImportProps DEF ImportLines
    <3>3. LawfulEdge(Import.file)
      BY <3>1, <3>2 DEF LawfulEdge
    <3> QED BY <2>1, <3>1, <3>2, <3>3, EdgeKeeps
  <2> QED BY <2>2, <2>3
<1>5. CASE ImportUndeclared
  <2>1. AtImport("dep") /\ Grows
    BY <1>1, <1>5, NoneRead DEF ImportUndeclared
  <2> QED BY <1>5, <2>1, NoEdgeKeeps, RefuseKeeps DEF ImportUndeclared
<1>6. CASE ImportDeclared
  <2> DEFINE p == First(Import.name)
             f == Import.file
  <2>1. AtImport("dep") /\ Declared(Import.name) # {}
    BY <1>6 DEF ImportDeclared
  <2>2. Import \in ImportLines /\ Import.kind = "dep"
    BY <2>1, AtImportProps
  <2>3. PICK k \in DOMAIN Depends : Depends[k].name = Import.name /\ Depends[k].to = p
    BY <2>1, FirstIsOne
  <2>4. Depends \in Seq(DependsEntries) /\ site.origin # "none"
    BY <2>1, DependsTyped
  <2>5. Depends[k] \in DependsEntries
    BY <2>4
  <2>6. Depends[k] = [name |-> Import.name, to |-> p] /\ p \in Pkgs \cup {None}
    BY <2>3, <2>5 DEF DependsEntries
  <2>7. CASE p = None
    BY <1>1, <1>6, <2>7, NoneRead, RefuseKeeps DEF ImportDeclared
  <2>8. CASE p # None
    <3>1. p \in Pkgs
      BY <2>6, <2>8
    <3>2. CASE LoadFails(p)
      BY <1>1, <3>2, NoneRead, RefuseKeeps DEF LoadFails
    <3>3. ASSUME NEW ms \in Loads(p), manifests' = ms,
                 IF f # None /\ ~Public(f, ms[p]) THEN NoEdge(Recorded) ELSE IF Owned(f, p) THEN Edge(f) ELSE Refuse
          PROVE  IInv'
      <4>1. Grows /\ manifests'[p] # Unread
        BY <1>1, <3>1, <3>3, LoadsGrow
      <4>2. CASE Refuse
        BY <4>1, <4>2, RefuseKeeps
      <4>3. CASE NoEdge(Recorded)
        BY <2>1, <4>1, <4>3, NoEdgeKeeps
      <4>4. CASE Public(f, ms[p]) /\ Owned(f, p) /\ Edge(f)
        <5>1. f \in Files /\ Owner[f] = p /\ f \in manifests'[p].public
          BY <2>2, <3>3, <4>4 DEF ImportLines, Owned, Public
        <5>2. LawfulEdge(f)
          BY <2>2, <2>4, <2>6, <2>8, <4>1, <5>1 DEF LawfulEdge
        <5> QED BY <2>1, <4>1, <4>4, <5>1, <5>2, EdgeKeeps
      <4> QED BY <3>3, <4>2, <4>3, <4>4 DEF Owned
    <3> QED BY <1>6, <2>8, <3>2, <3>3 DEF ImportDeclared
  <2> QED BY <2>7, <2>8
<1> QED BY <1>2, <1>3, <1>4, <1>5, <1>6

-----------------------------------------------------------------------------
(* The walk from file to file, and the search.                             *)

LEMMA InitHolds == Init => IInv
<1> SUFFICES ASSUME Init PROVE IInv
  OBVIOUS
<1>1. TreeOK /\ Entry \in Files
  BY TreeProps DEF Init, TreeOK
<1>2. PICK text \in Texts : lines = <<text>>
  BY DEF Init
<1>3. nodes = <<Entry>> /\ Len(nodes) = 1 /\ nodes \in Seq(Files) /\ lines \in Seq(Texts) /\ Len(lines) = 1
  BY <1>1, <1>2 DEF Init
<1>4. targets = <<>> /\ targets \in Seq(Seq(1..Len(nodes) \cup {None})) /\ Len(targets) = 0
  BY EmptySeq DEF Init
<1>5. SearchTypeOK
  BY RestingSearch DEF Init
<1>6. TypeOK
  BY <1>3, <1>4, <1>5 DEF Init, TypeOK, Sites
<1> QED BY <1>1, <1>3, <1>4, <1>6 DEF Init, IInv, WalkAt, NodesOnce, Outcomes, SearchAt, AuditAt

LEMMA SelectSiteKeeps ==
  ASSUME IInv, SelectSite, tree' = tree
  PROVE  IInv'
<1> DEFINE s == SiteOf(nodes[i])
           here == /\ site' = s /\ targets' = Append(targets, <<>>) /\ phase' = "imports"
                   /\ UNCHANGED <<nodes, lines, i, unresolved, audit, searchVars>>
           T == 1..Len(nodes) \cup {None}
<1>1. TreeOK /\ TypeOK /\ WalkAt /\ Len(nodes) \in Nat /\ targets \in Seq(Seq(T)) /\ phase = "site"
  BY DEF IInv, TypeOK, SelectSite
<1>2. i = Len(targets) + 1 /\ Len(targets) \in Nat /\ i \in 1..Len(nodes) /\ nodes[i] \in Files
  BY <1>1, TargetsTyped DEF SelectSite, WalkAt, TypeOK
<1>3. s \in Sites /\ (IsReal(s) => s.pkg \in Pkgs)
  BY <1>1, <1>2, SiteProps
<1>4. ASSUME here, Grows, IsReal(s) => manifests'[s.pkg] # Unread PROVE IInv'
  <2>1. UNCHANGED <<nodes, lines, i, unresolved, pending, audited, auditing, j, searchVars>> /\ site' = s /\ phase' = "imports"
    BY <1>4 DEF audit
  <2>2. /\ targets' \in Seq(Seq(T)) /\ Len(targets') = Len(targets) + 1 /\ targets'[i] = <<>>
        /\ \A n \in 1..Len(targets) : targets'[n] = targets[n]
    <3>1. <<>> \in Seq(T)
      BY EmptySeq
    <3> HIDE DEF T
    <3> QED BY <1>1, <1>2, <1>4, <3>1
  <2>3. TypeOK'
    <3>1. SearchTypeOK'
      BY <1>1, <2>1, SearchTypeStays DEF TypeOK
    <3> QED BY <1>1, <1>3, <1>4, <2>1, <2>2, <3>1, SameTree DEF TypeOK, Grows
  <2>4. Lasts
    BY <1>1, <2>1 DEF Lasts
  <2>5. \A f : SiteOf(f)' = SiteOf(f)
    BY SameTree
  <2>6. ASSUME NEW n \in 1..Len(targets')
        PROVE  /\ Governed(nodes[n])' /\ Len(targets'[n]) <= Len(lines[n])
               /\ n = i \/ Len(targets'[n]) = Len(lines[n])
    <3>1. CASE n = i
      <4>1. Len(lines[i]) \in Nat
        BY <1>1, <1>2, TreeProps DEF TypeOK
      <4>2. Len(targets'[n]) = 0
        BY <2>2, <3>1
      <4>3. PICK f : f = nodes[n]
        OBVIOUS
      <4>4. Governed(f)'
        BY <1>4, <2>5, <3>1, <4>3 DEF Governed, IsReal
      <4> QED BY <2>1, <3>1, <4>1, <4>2, <4>3, <4>4 DEF Governed
    <3>2. CASE n # i
      <4>1. n \in 1..Len(targets) /\ targets'[n] = targets[n] /\ n \in 1..Len(nodes)
        BY <1>2, <2>2, <3>2
      <4>2. nodes[n] \in Files
        BY <1>1, <4>1 DEF TypeOK
      <4>3. \A f \in Files : Governed(f) => Governed(f)'
        BY <1>1, <1>4, GovernedStays
      <4>4. Governed(nodes[n]) /\ Len(targets[n]) <= Len(lines[n]) /\ Len(targets[n]) = Len(lines[n])
        BY <1>1, <4>1 DEF WalkAt
      <4> QED BY <2>1, <4>1, <4>2, <4>3, <4>4 DEF Governed
    <3> QED BY <3>1, <3>2
  <2>7. WalkAt'
    <3>1. site' = SiteOf(nodes[i])'
      BY <2>1, <2>5 DEF SiteOf
    <3> QED BY <1>2, <2>1, <2>2, <2>6, <3>1 DEF WalkAt
  <2>8. Outcomes'
    <3> SUFFICES ASSUME NEW n \in 1..Len(targets'), NEW k \in 1..Len(targets'[n]) PROVE Outcome(n, k)'
      BY DEF Outcomes
    <3>1. n # i
      BY <2>2
    <3>2. n \in 1..Len(targets) /\ targets'[n] = targets[n]
      <4>1. Len(targets') = Len(targets) + 1 /\ i = Len(targets) + 1 /\ Len(targets) \in Nat
        BY <1>2, <2>2
      <4>2. n \in 1..Len(targets)
        BY <3>1, <4>1
      <4> QED BY <2>2, <4>2
    <3> QED BY <1>1, <1>4, <2>4, <3>2, OutcomeStays DEF IInv, Outcomes
  <2> QED BY <1>1, <2>1, <2>3, <2>7, <2>8, SameTree, SearchStays DEF IInv, NodesOnce, SearchAt, AuditAt
<1>5. CASE IsReal(s)
  <2>1. CASE LoadFails(s.pkg)
    BY <1>1, <2>1, NoneRead, RefuseKeeps DEF LoadFails
  <2>2. CASE \E ms \in Loads(s.pkg) : manifests' = ms /\ here
    BY <1>1, <1>3, <1>4, <1>5, <2>2, LoadsGrow
  <2> QED BY <1>5, <2>1, <2>2 DEF SelectSite
<1>6. CASE ~IsReal(s)
  <2>1. here /\ UNCHANGED manifests
    BY <1>6 DEF SelectSite
  <2> QED BY <1>1, <1>4, <1>6, <2>1, NoneRead
<1> QED BY <1>5, <1>6

\* a step that adds no file, line or target
LEMMA WalkStays ==
  ASSUME IInv, tree' = tree, Grows, UNCHANGED <<nodes, lines, targets, unresolved>>
  PROVE  /\ TreeOK' /\ NodesOnce' /\ Outcomes' /\ Graph' = Graph
         /\ \A n \in 1..Len(targets) : Governed(nodes[n])'
         /\ nodes' \in Seq(Files) /\ lines' \in Seq(Texts') /\ manifests' \in [Pkgs -> Manifests' \cup {Unread}]
<1>1. TreeOK /\ TypeOK /\ WalkAt /\ NodesOnce
  BY DEF IInv
<1>2. Lasts
  BY <1>1 DEF Lasts, TypeOK
<1>3. Outcomes'
  BY <1>2, OutcomesStay
<1>4. ASSUME NEW n \in 1..Len(targets) PROVE Governed(nodes[n])'
  <2>1. n \in 1..Len(nodes) /\ nodes[n] \in Files /\ Governed(nodes[n])
    BY <1>1, TargetWithin, NodeTyped DEF WalkAt
  <2>2. PICK f : f = nodes[n]
    OBVIOUS
  <2>3. Governed(f)'
    BY <1>1, <2>1, <2>2, GovernedStays
  <2> QED BY <2>2, <2>3 DEF Governed
<1>5. TreeOK' /\ NodesOnce' /\ Graph' = Graph
  BY <1>1, SameTree DEF NodesOnce, Graph
<1>6. nodes' \in Seq(Files) /\ lines' \in Seq(Texts') /\ manifests' \in [Pkgs -> Manifests' \cup {Unread}]
  BY <1>1, SameTree DEF TypeOK, Grows
<1> QED BY <1>3, <1>4, <1>5, <1>6

LEMMA EndFileKeeps ==
  ASSUME IInv, EndFile, tree' = tree
  PROVE  IInv'
<1>1. TreeOK /\ TypeOK /\ WalkAt
  BY DEF IInv
<1>2. /\ phase = "imports" /\ Len(targets[i]) = Len(lines[i]) /\ i' = i + 1 /\ phase' = "site"
      /\ UNCHANGED <<nodes, lines, targets, site, unresolved, manifests, pending, audited, auditing, j, searchVars>>
  BY DEF EndFile, audit
<1>3. Grows
  BY <1>1, <1>2, NoneRead
<1>4. i = Len(targets) /\ Len(targets) <= Len(nodes) /\ Len(targets) \in Nat /\ Len(nodes) \in Nat
  BY <1>1, <1>2, TargetsTyped DEF WalkAt, TypeOK
<1>5. TypeOK'
  <2>1. SearchTypeOK'
    BY <1>1, <1>2, SearchTypeStays DEF TypeOK
  <2> QED BY <1>1, <1>2, <1>3, <2>1, SameTree DEF TypeOK
<1>6. WalkAt'
  <2>1. \A n \in 1..Len(targets) : Governed(nodes[n])'
    BY <1>2, <1>3, WalkStays
  <2> QED BY <1>1, <1>2, <1>4, <2>1 DEF WalkAt
<1> QED BY <1>2, <1>3, <1>5, <1>6, WalkStays, SearchStays DEF IInv, SearchAt, AuditAt

\* the graph the search is given is one over the files
LEMMA GraphIsGraph ==
  ASSUME TypeOK, Len(targets) = Len(nodes)
  PROVE  DOMAIN Graph = 1..Len(nodes) /\ Graph \in [DOMAIN Graph -> SUBSET DOMAIN Graph]
<1>1. DOMAIN Graph = 1..Len(nodes)
  BY DEF Graph
<1>2. ASSUME NEW n \in 1..Len(nodes) PROVE Graph[n] \in SUBSET (1..Len(nodes))
  BY <1>2, TargetsTyped DEF Graph
<1> QED BY <1>1, <1>2 DEF Graph

LEMMA SearchingKeeps ==
  ASSUME IInv, BeginSearch \/ Search, tree' = tree
  PROVE  IInv'
<1>1. TreeOK /\ TypeOK /\ WalkAt /\ SearchAt
  BY DEF IInv
<1>2. /\ phase' = "search"
      /\ UNCHANGED <<nodes, lines, targets, i, site, unresolved, manifests, pending, audited, auditing, j>>
  BY DEF BeginSearch, Search, walk, audit
<1>3. Grows
  BY <1>1, <1>2, NoneRead
<1>4. Len(targets) = Len(nodes) /\ \A n \in 1..Len(targets) : Len(targets[n]) = Len(lines[n])
  BY <1>1, TargetsTyped DEF WalkAt, TypeOK, BeginSearch, Search
<1>5. adj' = Graph /\ SearchInv'
  <2>1. CASE BeginSearch
    <3>1. AtRest /\ Begin(Graph)
      BY <1>1, <2>1 DEF BeginSearch, SearchAt
    <3>2. Graph \in [DOMAIN Graph -> SUBSET DOMAIN Graph]
      BY <1>1, <1>4, GraphIsGraph
    <3> QED BY <3>1, <3>2, BeginKeeps DEF Begin
  <2>2. CASE Search
    <3>1. adj = Graph /\ SearchInv /\ SearchNext
      BY <1>1, <2>2 DEF Search, SearchAt
    <3>2. adj' = adj
      BY <3>1 DEF SearchNext, StartAt, Descend, Enter, Pass, Report, Finish, Exhausted
    <3> QED BY <3>1, <3>2, SearchKeeps
  <2> QED BY <2>1, <2>2
<1>6. TypeOK'
  <2>1. SearchTypeOK'
    BY <1>5 DEF SearchInv
  <2> QED BY <1>1, <1>2, <1>3, <2>1, SameTree DEF TypeOK
<1>7. WalkAt'
  <2>1. \A n \in 1..Len(targets) : Governed(nodes[n])'
    BY <1>2, <1>3, WalkStays
  <2> QED BY <1>1, <1>2, <1>4, <2>1 DEF WalkAt
<1>8. AuditAt'
  <2>1. phase \in {"site", "search"}
    BY DEF BeginSearch, Search
  <2> QED BY <1>2, <2>1 DEF IInv, AuditAt
<1> QED BY <1>2, <1>3, <1>5, <1>6, <1>7, <1>8, WalkStays DEF IInv, SearchAt

-----------------------------------------------------------------------------
(* The audit.                                                              *)

\* what an entry says goes on holding
LEMMA EntryStays ==
  ASSUME TypeOK, Grows, NEW m, NEW e \in DependsEntries, EntryHolds(m, e)
  PROVE  EntryHolds(m, e)'
BY DEF EntryHolds, Grows, DependsEntries

LEMMA DependsOf ==
  ASSUME TreeOK, TypeOK, NEW p \in Pkgs, manifests[p] # Unread
  PROVE  /\ manifests[p] \in Manifests /\ manifests[p].depends \in Seq(DependsEntries)
         /\ DOMAIN manifests[p].depends = 1..Len(manifests[p].depends) /\ Len(manifests[p].depends) \in Nat
         /\ \A k \in DOMAIN manifests[p].depends : manifests[p].depends[k] \in DependsEntries
<1>1. manifests[p] \in Manifests
  BY DEF TypeOK
<1>2. manifests[p].depends \in Seq(DependsEntries)
  BY <1>1, TreeProps
<1> QED BY <1>1, <1>2, LenProperties, ElementOfSeq

\* the entries of a manifest go on holding
LEMMA EntriesStay ==
  ASSUME TreeOK, TypeOK, Grows, NEW p \in Pkgs, manifests[p] # Unread, NEW K \in SUBSET Nat,
         \A k \in DOMAIN manifests[p].depends : k \in K => EntryHolds(manifests[p], manifests[p].depends[k])
  PROVE  \A k \in DOMAIN manifests'[p].depends : k \in K => EntryHolds(manifests[p], manifests[p].depends[k])'
<1>1. manifests'[p] = manifests[p]
  BY DEF Grows
<1>2. ASSUME NEW k \in DOMAIN manifests[p].depends, k \in K PROVE EntryHolds(manifests[p], manifests[p].depends[k])'
  <2>1. PICK m, e : m = manifests[p] /\ e = manifests[p].depends[k]
    OBVIOUS
  <2>2. e \in DependsEntries /\ EntryHolds(m, e)
    BY <1>2, <2>1, DependsOf
  <2>3. EntryHolds(m, e)'
    BY <2>2, EntryStays
  <2> QED BY <1>1, <2>1, <2>3 DEF EntryHolds
<1> QED BY <1>1, <1>2

\* what an audit leaves alone
LEMMA AuditStays ==
  ASSUME IInv, tree' = tree, Grows, UNCHANGED <<walk, searchVars>>, phase \in {"search", "audit"},
         phase' \in {"audit", "accepted", "refused"}, verdict = "acyclic",
         pending' \in SUBSET Pkgs, audited' \in SUBSET Pkgs, auditing' \in Pkgs \cup {None}, j' \in Nat \ {0},
         AuditAt'
  PROVE  IInv'
<1>1. TreeOK /\ TypeOK /\ WalkAt /\ SearchAt
  BY DEF IInv
<1>2. UNCHANGED <<nodes, lines, targets, i, site, unresolved>>
  BY DEF walk
<1>3. TypeOK'
  <2>1. SearchTypeOK'
    BY <1>1, SearchTypeStays DEF TypeOK
  <2> QED BY <1>1, <1>2, <2>1, SameTree DEF TypeOK, Grows
<1>4. WalkAt'
  <2>1. \A n \in 1..Len(targets) : Governed(nodes[n])'
    BY <1>2, WalkStays
  <2> QED BY <1>1, <1>2, <2>1 DEF WalkAt
<1>5. SearchAt'
  <2>1. adj = Graph /\ SearchInv
    BY <1>1 DEF SearchAt
  <2> QED BY <1>2, <2>1, SearchStays, WalkStays DEF SearchAt
<1> QED BY <1>2, <1>3, <1>4, <1>5, WalkStays DEF IInv

LEMMA EndSearchKeeps ==
  ASSUME IInv, EndSearch, tree' = tree
  PROVE  IInv'
<1>1. TreeOK /\ TypeOK
  BY DEF IInv
<1>2. Grows
  BY <1>1, NoneRead DEF EndSearch
<1>3. CASE Refuse
  BY <1>2, <1>3, RefuseKeeps
<1>4. CASE ~Refuse
  <2>1. /\ phase = "search" /\ verdict # "searching" /\ verdict # "cycle" /\ phase' = "audit" /\ UNCHANGED manifests
        /\ pending' = {p \in Pkgs : manifests[p] # Unread} /\ audited' = pending'
        /\ UNCHANGED <<walk, auditing, j, searchVars>>
    BY <1>4 DEF EndSearch
  <2>2. verdict = "acyclic" /\ auditing \in Pkgs \cup {None} /\ j \in Nat \ {0}
    BY <1>1, <2>1 DEF TypeOK, SearchTypeOK
  <2>3. auditing = None
    BY <2>1 DEF IInv, AuditAt
  <2>4. AuditAt'
    BY <2>1, <2>3 DEF AuditAt
  <2> QED BY <1>2, <2>1, <2>2, <2>4, AuditStays
<1> QED BY <1>3, <1>4

\* what waits has been read
LEMMA PendingRead ==
  ASSUME IInv, phase = "audit", NEW p \in pending
  PROVE  manifests[p] # Unread
BY DEF IInv, AuditAt, TypeOK

LEMMA TakeManifestKeeps ==
  ASSUME IInv, TakeManifest, tree' = tree
  PROVE  IInv'
<1>1. TreeOK /\ TypeOK /\ AuditAt /\ phase = "audit" /\ phase' = "audit" /\ verdict = "acyclic"
  BY DEF IInv, TakeManifest, SearchAt
<1>2. PICK p \in pending : auditing' = p /\ pending' = pending \ {p}
  BY DEF TakeManifest
<1>3. /\ auditing = None /\ j' = 1 /\ UNCHANGED <<manifests, audited>> /\ UNCHANGED <<walk, searchVars>> /\ Grows
      /\ p \in Pkgs
  BY <1>1, <1>2, NoneRead DEF TakeManifest, TypeOK
<1>4. manifests[p] # Unread
  BY <1>1, <1>2, <1>3, PendingRead DEF IInv
<1>5. AuditAt'
  <2>1. audited' = {q \in Pkgs : manifests'[q] # Unread} /\ auditing' \in audited'
    BY <1>1, <1>2, <1>3, <1>4 DEF AuditAt
  <2>2. \A k \in DOMAIN DependsAt' : ~(k < j')
    BY <1>1, <1>2, <1>3, <1>4, DependsOf DEF DependsAt
  <2>3. ASSUME NEW q \in audited \ (pending' \cup {p}), NEW k \in DOMAIN manifests[q].depends
        PROVE  EntryHolds(manifests[q], manifests[q].depends[k])'
    <3>1. q \in audited \ (pending \cup {auditing})
      BY <1>1, <1>2, <1>3, <2>3, ClosureAssumption DEF TypeOK
    <3>2. EntryHolds(manifests[q], manifests[q].depends[k])
      BY <1>1, <3>1 DEF AuditAt
    <3> QED BY <1>3, <3>2 DEF EntryHolds
  <2> QED BY <1>1, <1>2, <1>3, <2>1, <2>2, <2>3 DEF AuditAt
<1> QED BY <1>1, <1>2, <1>3, <1>5, AuditStays DEF TypeOK

LEMMA AuditEntryKeeps ==
  ASSUME IInv, AuditEntry, tree' = tree
  PROVE  IInv'
<1> DEFINE m == manifests[auditing]
           e == DependsAt[j]
<1>1. TreeOK /\ TypeOK /\ AuditAt /\ phase = "audit" /\ verdict = "acyclic"
  BY DEF IInv, AuditEntry, SearchAt
<1>2. /\ auditing \in Pkgs /\ auditing \in audited /\ m # Unread /\ j \in Nat \ {0} /\ j <= Len(m.depends)
      /\ DependsAt = m.depends
  BY <1>1 DEF AuditEntry, TypeOK, AuditAt, DependsAt
<1>3. j \in DOMAIN m.depends /\ e \in DependsEntries
  BY <1>1, <1>2, DependsOf
<1>4. CASE e.to = None
  BY <1>1, <1>4, NoneRead, RefuseKeeps DEF AuditEntry
<1>5. CASE e.to # None
  <2>1. e.to \in Pkgs
    BY <1>3, <1>5 DEF DependsEntries
  <2>2. CASE LoadFails(e.to)
    BY <1>1, <2>2, NoneRead, RefuseKeeps DEF LoadFails
  <2>3. ASSUME NEW ms \in Loads(e.to), manifests' = ms,
               IF ms[e.to].name = e.name /\ Descends(ms[auditing], ms[e.to])
               THEN /\ pending' = IF NewToAudit(e.to) THEN pending \cup {e.to} ELSE pending
                    /\ audited' = audited \cup {e.to} /\ j' = j + 1
                    /\ UNCHANGED <<walk, auditing, phase, searchVars>>
               ELSE Refuse
        PROVE  IInv'
    <3>1. /\ Grows /\ manifests'[e.to] # Unread /\ manifests'[auditing] = m
          /\ \A q \in Pkgs : q # e.to => manifests'[q] = manifests[q]
      BY <1>1, <1>2, <2>1, <2>3, LoadsGrow DEF Grows
    <3>2. CASE Refuse
      BY <3>1, <3>2, RefuseKeeps
    <3>3. CASE ~Refuse
      <4>1. /\ manifests'[e.to].name = e.name /\ manifests'[e.to].layer <= m.layer
            /\ pending' = (IF e.to \notin audited THEN pending \cup {e.to} ELSE pending)
            /\ audited' = audited \cup {e.to} /\ j' = j + 1 /\ auditing' = auditing /\ phase' = "audit"
            /\ UNCHANGED <<walk, searchVars>>
        BY <1>1, <2>3, <3>1, <3>3 DEF Descends, NewToAudit
      <4>2. /\ e.to # None /\ manifests'[e.to] # Unread
            /\ manifests'[e.to].name = e.name /\ manifests'[e.to].layer <= m.layer
        BY <1>5, <3>1, <4>1
      <4>3. audited' = {q \in Pkgs : manifests'[q] # Unread} /\ auditing' \in audited'
        BY <1>1, <1>2, <2>1, <3>1, <4>1 DEF AuditAt
      <4>4. ASSUME NEW k \in DOMAIN DependsAt', k < j' PROVE EntryHolds(manifests[auditing], DependsAt[k])'
        <5>1. DependsAt' = m.depends /\ k \in DOMAIN m.depends /\ k \in Nat
          BY <1>1, <1>2, <3>1, <4>1, <4>4, DependsOf DEF DependsAt
        <5>2. CASE k = j
          BY <1>2, <3>1, <4>1, <4>2, <5>1, <5>2 DEF EntryHolds
        <5>3. CASE k # j
          <6>1. k < j
            BY <1>2, <4>1, <4>4, <5>1, <5>3
          <6>2. EntryHolds(m, m.depends[k]) /\ m.depends[k] \in DependsEntries
            BY <1>1, <1>2, <5>1, <6>1, DependsOf, ClosureAssumption DEF AuditAt
          <6>3. \A x : \A y \in DependsEntries : EntryHolds(x, y) => EntryHolds(x, y)'
            BY <1>1, <3>1, EntryStays
          <6>4. PICK x, y : x = m /\ y = m.depends[k]
            OBVIOUS
          <6>5. EntryHolds(x, y)'
            BY <6>2, <6>3, <6>4
          <6> QED BY <3>1, <4>1, <5>1, <6>4, <6>5 DEF EntryHolds
        <5> QED BY <5>2, <5>3
      <4>5. ASSUME NEW q \in audited' \ (pending' \cup {auditing'}), NEW k \in DOMAIN manifests'[q].depends
            PROVE  EntryHolds(manifests[q], manifests[q].depends[k])'
        <5>1. q \in audited \ (pending \cup {auditing}) /\ q \in Pkgs
          BY <1>1, <4>1, <4>5 DEF TypeOK
        <5>2. manifests[q] # Unread /\ manifests'[q] = manifests[q]
          BY <1>1, <3>1, <5>1 DEF AuditAt, Grows
        <5>3. EntryHolds(manifests[q], manifests[q].depends[k]) /\ manifests[q].depends[k] \in DependsEntries
          BY <1>1, <4>5, <5>1, <5>2, DependsOf DEF AuditAt
        <5>4. \A x : \A y \in DependsEntries : EntryHolds(x, y) => EntryHolds(x, y)'
          BY <1>1, <3>1, EntryStays
        <5>5. PICK x, y : x = manifests[q] /\ y = manifests[q].depends[k]
          OBVIOUS
        <5>6. EntryHolds(x, y)'
          BY <5>3, <5>4, <5>5
        <5> QED BY <5>2, <5>5, <5>6 DEF EntryHolds
      <4>6. AuditAt'
        <5>1. pending' \subseteq audited'
          BY <1>1, <4>1 DEF AuditAt
        <5> QED BY <4>1, <4>3, <4>4, <4>5, <5>1 DEF AuditAt
      <4> QED BY <1>1, <1>2, <2>1, <3>1, <4>1, <4>6, AuditStays DEF TypeOK
    <3> QED BY <3>2, <3>3
  <2> QED BY <1>5, <2>2, <2>3 DEF AuditEntry
<1> QED BY <1>4, <1>5

LEMMA LeaveManifestKeeps ==
  ASSUME IInv, LeaveManifest, tree' = tree
  PROVE  IInv'
<1>1. TreeOK /\ TypeOK /\ AuditAt /\ phase = "audit" /\ phase' = "audit" /\ verdict = "acyclic"
  BY DEF IInv, LeaveManifest, SearchAt
<1>2. /\ auditing # None /\ auditing' = None /\ j > Len(DependsAt) /\ UNCHANGED <<manifests, pending, audited, j>>
      /\ UNCHANGED <<walk, searchVars>> /\ Grows
  BY <1>1, NoneRead DEF LeaveManifest
<1>3. auditing \in Pkgs /\ auditing \in audited /\ manifests[auditing] # Unread /\ j \in Nat
  BY <1>1, <1>2 DEF AuditAt, TypeOK
<1>4. \A k \in DOMAIN DependsAt : k < j
  BY <1>1, <1>2, <1>3, DependsOf DEF DependsAt
<1>5. \A k \in DOMAIN manifests[auditing].depends : EntryHolds(manifests[auditing], manifests[auditing].depends[k])
  BY <1>1, <1>2, <1>4 DEF AuditAt, DependsAt
<1>6. AuditAt'
  <2>1. \A p \in audited \ pending : \A k \in DOMAIN manifests[p].depends : EntryHolds(manifests[p], manifests[p].depends[k])
    BY <1>1, <1>5 DEF AuditAt
  <2> QED BY <1>1, <1>2, <2>1 DEF AuditAt, EntryHolds
<1> QED BY <1>1, <1>2, <1>6, AuditStays DEF TypeOK

LEMMA EndAuditKeeps ==
  ASSUME IInv, EndAudit, tree' = tree
  PROVE  IInv'
<1>1. TreeOK /\ TypeOK /\ AuditAt /\ phase = "audit" /\ verdict = "acyclic" /\ auditing = None /\ pending = {}
  BY DEF IInv, EndAudit, SearchAt
<1>2. /\ phase' = (IF unresolved = {} THEN "accepted" ELSE "refused") /\ UNCHANGED <<manifests, pending, audited, auditing, j>>
      /\ UNCHANGED <<walk, searchVars>> /\ unresolved' = unresolved /\ Grows
  BY <1>1, NoneRead DEF EndAudit, walk, audit
<1>3. AuditAt'
  BY <1>1, <1>2 DEF AuditAt, EntryHolds
<1> QED BY <1>1, <1>2, <1>3, AuditStays DEF TypeOK

-----------------------------------------------------------------------------
(* The results.                                                            *)

\* The inductive invariant holds of every build.
THEOREM Invariance == Spec => []IInv
<1>1. IInv /\ [Next]_vars => IInv'
  <2> SUFFICES ASSUME IInv, [Next]_vars PROVE IInv'
    OBVIOUS
  <2>1. CASE UNCHANGED vars
    <3>1. /\ UNCHANGED <<tree, nodes, lines, targets, i, site, manifests, unresolved, pending, audited, auditing, j, phase>>
          /\ UNCHANGED searchVars
      BY <2>1 DEF vars, walk, audit
    <3>2. Grows
      BY <3>1, NoneRead DEF IInv
    <3>3. SearchTypeOK'
      BY <3>1, SearchTypeStays DEF IInv, TypeOK
    <3>4. TypeOK'
      BY <3>1, <3>3, SameTree DEF IInv, TypeOK
    <3>5. WalkAt' /\ AuditAt'
      BY <3>1, SameTree DEF IInv, WalkAt, AuditAt, Governed, DependsAt, EntryHolds, IsReal, SiteOf, Entry, Owner, Override, UserDepends
    <3> QED BY <3>1, <3>2, <3>4, <3>5, WalkStays, SearchStays DEF IInv, SearchAt
  <2>2. CASE Step /\ tree' = tree
    BY <2>2, ResolvesKeep, SelectSiteKeeps, EndFileKeeps, SearchingKeeps, EndSearchKeeps, TakeManifestKeeps, AuditEntryKeeps,
       LeaveManifestKeeps, EndAuditKeeps DEF Step
  <2> QED BY <2>1, <2>2 DEF Next
<1> QED BY <1>1, InitHolds, PTL DEF Spec

\* Every variable keeps its type: an import's target is always a file that is
\* in the closure, and the audit never looks at an entry a manifest lacks.
THEOREM TypeInvariant == Spec => []TypeOK
<1>1. IInv => TypeOK
  BY DEF IInv
<1> QED BY <1>1, Invariance, PTL

\* what an edge is
LEMMA EdgeProps ==
  ASSUME IInv, NEW e \in Edges
  PROVE  /\ e[1] \in 1..Len(targets) /\ e[2] \in 1..Len(targets[e[1]]) /\ e = <<e[1], e[2]>>
         /\ targets[e[1]][e[2]] \in 1..Len(nodes) /\ e[1] \in 1..Len(nodes) /\ Outcome(e[1], e[2])
         /\ Line(e) \in ImportLines /\ Importer(e) \in Files /\ Imported(e) \in Files
<1>1. TreeOK /\ TypeOK /\ WalkAt /\ Outcomes
  BY DEF IInv
<1>0. PICK n \in 1..Len(targets) : \E k \in 1..Len(targets[n]) : e = <<n, k>> /\ targets[n][k] # None
  BY <1>1, TargetsTyped DEF Edges
<1>2. PICK k \in 1..Len(targets[n]) : e = <<n, k>> /\ targets[n][k] # None
  BY <1>0
<1>3. targets[n][k] \in 1..Len(nodes) /\ n \in 1..Len(nodes) /\ k \in 1..Len(lines[n])
  <2>1. n \in 1..Len(nodes) /\ Len(targets[n]) <= Len(lines[n]) /\ Len(targets[n]) \in Nat
    BY <1>1, TargetsTyped DEF WalkAt, TypeOK
  <2>2. Len(lines[n]) \in Nat
    BY <1>1, <2>1, TreeProps DEF TypeOK
  <2> QED BY <1>1, <1>2, <2>1, <2>2, TargetsTyped
<1>4. Outcome(n, k)
  BY <1>1, <1>2 DEF Outcomes
<1>5. lines[n][k] \in ImportLines /\ nodes[n] \in Files /\ nodes[targets[n][k]] \in Files
  BY <1>1, <1>3, LineTyped DEF TypeOK
<1> QED BY <1>2, <1>3, <1>4, <1>5 DEF Line, Importer, Imported

\* A file is in the closure once, and an import's target is the file it names,
\* whatever the build and however often a file is imported.
THEOREM EachFileOnce == Spec => []FilesOnce
<1>1. IInv => FilesOnce
  <2> SUFFICES ASSUME IInv PROVE FilesOnce
    OBVIOUS
  <2>1. ASSUME NEW e \in Edges PROVE Line(e).kind # "intrinsics" /\ Imported(e) = Line(e).file
    <3>1. Outcome(e[1], e[2]) /\ targets[e[1]][e[2]] # None /\ e = <<e[1], e[2]>>
      BY EdgeProps, ClosureAssumption DEF IInv, TypeOK
    <3> QED BY <3>1 DEF Outcome, Line, Imported
  <2> QED BY <2>1 DEF FilesOnce, IInv, NodesOnce
<1> QED BY <1>1, Invariance, PTL

\* The files of an accepted closure do not import each other in a circle: what
\* the search of CycleSearch shows of the graph, carried over to the files.
THEOREM NoCircleOfImports == Spec => []AcceptedAcyclic
<1>1. IInv => AcceptedAcyclic
  <2> SUFFICES ASSUME IInv, Accepted, NEW S, S \subseteq {nodes[n] : n \in 1..Len(nodes)}, S # {}
               PROVE  \E f \in S : \A e \in Edges : Importer(e) = f => Imported(e) \notin S
    BY DEF AcceptedAcyclic
  <2> DEFINE T == {n \in 1..Len(nodes) : nodes[n] \in S}
  <2>1. adj = Graph /\ SearchInv /\ verdict = "acyclic" /\ Len(targets) = Len(nodes) /\ TypeOK /\ NodesOnce
    BY DEF IInv, Accepted, SearchAt, WalkAt
  <2>2. Nodes = 1..Len(nodes)
    BY <2>1, GraphIsGraph DEF Nodes
  <2>3. T \in SUBSET Nodes /\ T # {}
    BY <2>2
  <2>4. PICK u \in T : Succ(u) \cap T = {}
    BY <2>1, <2>3, SearchMissesNone DEF NoCycleMissed
  <2>5. ASSUME NEW e \in Edges, Importer(e) = nodes[u] PROVE Imported(e) \notin S
    <3>1. e[1] \in 1..Len(nodes) /\ e[2] \in DOMAIN targets[e[1]] /\ targets[e[1]][e[2]] \in 1..Len(nodes)
      BY <2>1, EdgeProps, TargetsTyped
    <3>2. e[1] = u
      BY <2>1, <2>5, <3>1 DEF NodesOnce, Importer
    <3>3. targets[e[1]][e[2]] \in Graph[u]
      BY <2>1, <3>1, <3>2, ClosureAssumption DEF Graph
    <3>4. targets[e[1]][e[2]] \notin T
      BY <2>1, <2>4, <3>3, ClosureAssumption DEF Succ
    <3> QED BY <3>1, <3>4 DEF Imported
  <2> QED BY <2>5
<1> QED BY <1>1, Invariance, PTL

\* The audit has gone through every manifest that was read, by the walk or by
\* the audit itself: no entry of any is wrong in a build that is accepted.
THEOREM AuditMissesNone == Spec => []AuditIsComplete
<1>1. IInv => AuditIsComplete
  BY ClosureAssumption DEF IInv, AuditAt, AuditIsComplete, Accepted
<1> QED BY <1>1, Invariance, PTL

\* Every import of an accepted closure leads to a file and is lawful.
THEOREM ImportsAreLawful == Spec => []LawfulImports
<1>1. IInv => LawfulImports
  <2> SUFFICES ASSUME IInv, Accepted, NEW n \in DOMAIN lines, NEW k \in DOMAIN lines[n], lines[n][k].kind # "intrinsics"
               PROVE  <<n, k>> \in Edges /\ LawfulImport(<<n, k>>)
    BY DEF LawfulImports
  <2>1. TreeOK /\ TypeOK /\ WalkAt /\ Outcomes /\ unresolved = {} /\ phase = "accepted"
    BY DEF IInv, Accepted, AuditAt
  <2>2. n \in 1..Len(nodes) /\ n \in 1..Len(targets) /\ DOMAIN targets = 1..Len(targets)
    <3>1. lines \in Seq(Texts) /\ Len(lines) = Len(nodes) /\ Len(targets) = Len(nodes)
      BY <2>1 DEF TypeOK, WalkAt
    <3> QED BY <2>1, <3>1, TargetsTyped
  <2>3. k \in 1..Len(lines[n]) /\ Len(targets[n]) = Len(lines[n])
    <3>1. lines[n] \in Texts
      BY <2>1, <2>2 DEF TypeOK
    <3>2. DOMAIN lines[n] = 1..Len(lines[n])
      BY <2>1, <3>1, TreeProps
    <3> QED BY <2>1, <2>2, <3>2 DEF WalkAt
  <2>4. k \in DOMAIN targets[n] /\ Outcome(n, k)
    BY <2>1, <2>2, <2>3, TargetsTyped DEF Outcomes
  <2>5. targets[n][k] # None /\ LawfulImport(<<n, k>>)
    BY <2>1, <2>4 DEF Outcome
  <2> QED BY <2>2, <2>4, <2>5 DEF Edges
<1> QED BY <1>1, Invariance, PTL

\* A module its package does not make public is not imported from outside it.
THEOREM PrivateIsPrivate == Spec => []PrivateStaysInside
<1>1. IInv => PrivateStaysInside
  <2> SUFFICES ASSUME IInv, Accepted, NEW e \in Edges, Owner[Imported(e)] # None, Owner[Importer(e)] # Owner[Imported(e)],
                      Line(e).kind = "path" => SiteOf(Importer(e)).origin = "ancestor"
               PROVE  /\ manifests[Owner[Imported(e)]] # Unread
                      /\ Imported(e) \in manifests[Owner[Imported(e)]].public
    BY DEF PrivateStaysInside
  <2>1. /\ Outcome(e[1], e[2]) /\ targets[e[1]][e[2]] # None /\ e = <<e[1], e[2]>> /\ Importer(e) \in Files
        /\ Line(e) \in ImportLines
    BY EdgeProps, ClosureAssumption DEF IInv, TypeOK
  <2>2. LawfulImport(e) /\ Line(e).kind # "intrinsics" /\ (Line(e).kind = "dep" => manifests[Owner[Imported(e)]] # Unread)
    BY <2>1 DEF Outcome, Line
  <2>3. Line(e).kind # "path"
    BY <2>2 DEF LawfulImport
  <2>4. Line(e).kind # "self"
    BY <2>1, <2>2, SiteProps DEF LawfulImport, IInv
  <2>5. Line(e).kind = "dep"
    BY <2>1, <2>2, <2>3, <2>4 DEF ImportLines
  <2> QED BY <2>2, <2>5 DEF LawfulImport
<1> QED BY <1>1, Invariance, PTL

-----------------------------------------------------------------------------
(* Origins: that a name means one thing across the modules of a closure, for *)
(* closures of any number of modules.  Each theorem excludes the one shape   *)
(* of closure that breaks its property, and no other.  The invariant: each   *)
(* pass leaves its table right for the modules it has been through, and a    *)
(* walk stands at a module that exports or declares the name, and that means *)
(* by it the type that the module the walk set out from means.               *)

\* What NamesInit says of a closure without each of the shapes.
PrivateKept ==
  \A m \in Modules : exports[m] /\ declares[m] = "nothing" /\ selective[m] = Nowhere => \A t \in Scanned(m) : exports[t]
NoTypeUnderWord ==
  \A m \in Modules : declares[m] = "word" \/ (declares[m] = "nothing" /\ Effective[m]) => TypeEnds(m) = {Nowhere}
ExemptAlone == \A m \in Modules : \A t, u \in Entries(m) : Exempt(t) => Exempt(u)
ClosureOK ==
  /\ exports \in [Modules -> BOOLEAN] /\ declares \in [Modules -> Decls] /\ selective \in Selections
  /\ \A m \in Modules : IF Entries(m) = {} THEN selective[m] = Nowhere ELSE selective[m] \in Entries(m)
  /\ Has("privateScan") \/ PrivateKept
  /\ Has("typeUnderWord") \/ NoTypeUnderWord
  /\ Has("exemptBeside") \/ ExemptAlone

\* The passes, and the modules a pass has been through.
After ==
  [typeOrigins |-> {"selectives", "immediates", "walks", "accepted"},
   selectives  |-> {"immediates", "walks", "accepted"},
   immediates  |-> {"walks", "accepted"},
   walks       |-> {"accepted"}]
Through(p, m) == pass \in After[p] \/ (pass = p /\ m < module)

TypeOriginRight(m) == exports[m] /\ declares[m] # "type" => typeOrigin[m] \in TypeEnds(m)
Selected(m) == (\A t \in Entries(m) : SelectionHolds(m, t)) /\ OneWord(m)
ImmediateRight(m) == exports[m] => immediate[m] = Source(m) /\ Source(m) # Nowhere

\* Where a walk from m may be, and where it ends.
OnTheWay(m, x) ==
  /\ exports[m] /\ (exports[x] \/ declares[x] # "nothing")
  /\ Has("privateScan") \/ exports[x]
  /\ Has("typeUnderWord") \/ TypeEnds(m) = TypeEnds(x)
  /\ x # m => Source(m) # m
OriginRight(m) == exports[m] => origin[m] \in Modules /\ OnTheWay(m, origin[m]) /\ Source(origin[m]) = origin[m]

NamesInv ==
  /\ NamesTypeOK /\ ClosureOK
  /\ pass # "walks" => at = Nowhere
  /\ \A m \in Modules : immediate[m] # Nowhere => exports[m]
  /\ \A m \in Modules :
       /\ Through("typeOrigins", m) => TypeOriginRight(m)
       /\ Through("selectives", m) => Selected(m)
       /\ Through("immediates", m) => ImmediateRight(m)
       /\ Through("walks", m) => OriginRight(m)
  /\ at # Nowhere => OnTheWay(module, at)
-----------------------------------------------------------------------------
(* The walk for a type is defined: a selection names a later module, so the  *)
(* function is had by filling it in from the last module back.               *)

\* one step of the walk, given where it ends from the modules after m
EndsAfter(f, m) ==
  IF declares[m] = "type" THEN {m}
  ELSE IF selective[m] # Nowhere THEN f[selective[m]]
  ELSE LET found == {t \in Qualified(m) : declares[t] = "type"}
       IN IF found = {} THEN {Nowhere} ELSE found
Filled(f, n) == f = [m \in Modules |-> IF M - n < m THEN EndsAfter(f, m) ELSE {}]

LEMMA FilledFurther ==
  ASSUME selective \in Selections, NEW n \in Nat, n < M, NEW f, Filled(f, n)
  PROVE  \E g : Filled(g, n + 1)
<1> USE OriginsAssumption
<1> DEFINE k == M - n
           g == [m \in Modules |-> IF m = k THEN EndsAfter(f, k) ELSE f[m]]
<1>1. k \in Modules /\ M - (n + 1) = k - 1
  BY DEF Modules
<1>2. \A m \in Modules : m >= k => EndsAfter(g, m) = EndsAfter(f, m)
  <2> SUFFICES ASSUME NEW m \in Modules, m >= k PROVE EndsAfter(g, m) = EndsAfter(f, m)
    OBVIOUS
  <2>1. selective[m] = Nowhere \/ (selective[m] \in Modules /\ selective[m] > m)
    BY DEF Selections
  <2>2. selective[m] # Nowhere => g[selective[m]] = f[selective[m]]
    BY <2>1 DEF Modules
  <2> HIDE DEF g
  <2> QED BY <2>2 DEF EndsAfter
<1>3. f = [m \in Modules |-> IF k < m THEN EndsAfter(f, m) ELSE {}]
  BY DEF Filled
<1>4. \A m \in Modules : g[m] = IF k - 1 < m THEN EndsAfter(g, m) ELSE {}
  <2> SUFFICES ASSUME NEW m \in Modules PROVE g[m] = IF k - 1 < m THEN EndsAfter(g, m) ELSE {}
    OBVIOUS
  <2>1. g[m] = IF m = k THEN EndsAfter(f, k) ELSE f[m]
    OBVIOUS
  <2>2. f[m] = IF k < m THEN EndsAfter(f, m) ELSE {}
    BY <1>3
  <2>3. m >= k => EndsAfter(g, m) = EndsAfter(f, m)
    BY <1>2
  <2> HIDE DEF g
  <2> QED BY <2>1, <2>2, <2>3, <1>1 DEF Modules
<1>5. g = [m \in Modules |-> IF k - 1 < m THEN EndsAfter(g, m) ELSE {}]
  <2>1. g = [m \in Modules |-> g[m]]
    OBVIOUS
  <2> HIDE DEF g
  <2> QED BY <2>1, <1>4
<1> HIDE DEF g, k
<1> QED BY <1>1, <1>5 DEF Filled

LEMMA AllFilled ==
  ASSUME selective \in Selections
  PROVE  \E f : Filled(f, M)
<1> USE OriginsAssumption
<1> DEFINE Short == {n \in 0..M : ~\E f : Filled(f, n)}
<1>1. SUFFICES ASSUME Short # {} PROVE FALSE
  BY <1>1
<1>2. PICK n \in Short : \A k \in Short : n <= k
  <2>1. Short \in SUBSET Nat
    OBVIOUS
  <2> HIDE DEF Short
  <2> QED BY <1>1, <2>1, LeastOfNaturals
<1>3. CASE n = 0
  <2> DEFINE f == [m \in Modules |-> {}]
  <2>1. f = [m \in Modules |-> IF M - 0 < m THEN EndsAfter(f, m) ELSE {}]
    <3> HIDE DEF f
    <3>1. \A m \in Modules : ~(M - 0 < m)
      BY DEF Modules
    <3> QED BY <3>1 DEF f
  <2>2. Filled(f, 0)
    BY <2>1 DEF Filled
  <2> QED BY <1>3, <2>2
<1>4. CASE n # 0
  <2>1. n - 1 \in 0..M /\ n - 1 \in Nat /\ n - 1 < M /\ n - 1 < n /\ (n - 1) + 1 = n
    BY <1>4
  <2>2. PICK f : Filled(f, n - 1)
    BY <1>2, <2>1
  <2> QED BY <2>1, <2>2, FilledFurther
<1> QED BY <1>3, <1>4

\* one step of the walk, with the modules after m in the place of f
LEMMA WalksOn ==
  ASSUME selective \in Selections, NEW m \in Modules
  PROVE  TypeEnds(m) =
           IF declares[m] = "type" THEN {m}
           ELSE IF selective[m] # Nowhere THEN TypeEnds(selective[m])
           ELSE LET found == {t \in Qualified(m) : declares[t] = "type"}
                IN IF found = {} THEN {Nowhere} ELSE found
<1>1. PICK f : f = [x \in Modules |-> EndsAfter(f, x)]
  <2>1. PICK f : Filled(f, M)
    BY AllFilled
  <2>2. \A x \in Modules : M - M < x
    BY OriginsAssumption DEF Modules
  <2>3. f = [x \in Modules |-> EndsAfter(f, x)]
    BY <2>1, <2>2 DEF Filled
  <2> QED BY <2>3
<1> DEFINE W == CHOOSE g : g = [x \in Modules |-> EndsAfter(g, x)]
<1>2. W = [x \in Modules |-> EndsAfter(W, x)]
  BY <1>1
<1>3. TypeEndsWalking = W
  BY Zenon DEF TypeEndsWalking, EndsAfter
<1> HIDE DEF W
<1>4. W[m] = EndsAfter(W, m)
  BY <1>2
<1> QED BY <1>3, <1>4 DEF TypeEnds, EndsAfter
-----------------------------------------------------------------------------
(* What the closure is does not change, nor what is computed from it.        *)

LEMMA ClosureStays ==
  ASSUME UNCHANGED closure
  PROVE  /\ ClosureOK' <=> ClosureOK
         /\ \A m \in Modules : TypeEnds(m)' = TypeEnds(m) /\ Source(m)' = Source(m) /\ (Selected(m)' <=> Selected(m))
<1>1. UNCHANGED <<imports, declares, exports, own, selective>>
  BY DEF closure
<1>2. \A m, t : How(m, t)' = How(m, t)
  BY <1>1 DEF How
<1>3. \A m : Entries(m)' = Entries(m) /\ Qualified(m)' = Qualified(m)
  BY <1>1, <1>2 DEF Entries, Qualified
<1>4. Effective' = Effective
  BY <1>1, <1>3 DEF Effective
<1>5. TypeEndsWalking' = TypeEndsWalking
  BY <1>1, <1>3 DEF TypeEndsWalking
<1>6. \A m : TypeEnds(m)' = TypeEnds(m)
  BY <1>5 DEF TypeEnds
<1>7. \A m : Scanned(m)' = Scanned(m)
  BY <1>1, <1>3 DEF Scanned
<1>8. \A m : Source(m)' = Source(m)
  <2> TAKE m
  <2>1. Scanned(m)' = Scanned(m)
    BY <1>7
  <2>2. (CHOOSE t \in Scanned(m) : TRUE)' = CHOOSE t \in Scanned(m) : TRUE
    BY <2>1
  <2>3. Cardinality(Scanned(m))' = Cardinality(Scanned(m))
    BY <2>1
  <2> QED BY <1>1, <1>4, <2>1, <2>2, <2>3 DEF Source
<1>9. \A t : Exempt(t)' <=> Exempt(t)
  BY <1>1, <1>4 DEF Exempt
<1>10. \A m, t : SelectionHolds(m, t)' <=> SelectionHolds(m, t)
  BY <1>1, <1>9 DEF SelectionHolds
<1>11. \A m : OneWord(m)' <=> OneWord(m)
  <2>1. \A m : {t \in Entries(m) : ~Exempt(t)}' = {t \in Entries(m) : ~Exempt(t)}
    BY <1>3, <1>9
  <2> QED BY <2>1 DEF OneWord
<1>12. \A m : Selected(m)' <=> Selected(m)
  BY <1>3, <1>10, <1>11 DEF Selected
<1>13. ClosureOK' <=> ClosureOK
  BY <1>1, <1>3, <1>4, <1>6, <1>7, <1>9 DEF ClosureOK, PrivateKept, NoTypeUnderWord, ExemptAlone
<1> QED BY <1>6, <1>8, <1>12, <1>13

\* a module is through a pass only when it was, or when it is the one that the pass was at
LEMMA GoesOn ==
  ASSUME NEW p \in DOMAIN After, pass = p, module \in Modules,
         Goto(CASE p = "typeOrigins" -> "selectives" [] p = "selectives" -> "immediates"
                [] p = "immediates" -> "walks" [] OTHER -> "accepted")
  PROVE  /\ pass' \in {p} \cup After[p] /\ module' \in Modules
         /\ \A m \in Modules : Through(p, m)' => Through(p, m) \/ m = module
         /\ \A q \in DOMAIN After \ {p} : \A m \in Modules : Through(q, m)' => Through(q, m)
BY OriginsAssumption DEF Goto, Modules, Through, After

\* a refusal leaves nothing to show
LEMMA RefusalIsOutside ==
  ASSUME RefuseNames
  PROVE  pass' = "refused" /\ module' = module /\ \A q \in DOMAIN After : \A m \in Modules : ~Through(q, m)'
BY DEF RefuseNames, Through, After
-----------------------------------------------------------------------------
(* The passes.                                                               *)

LEMMA Starts == NamesInit => NamesInv
<1> SUFFICES ASSUME NamesInit PROVE NamesInv
  OBVIOUS
<1>1. module = 1 /\ 1 \in Modules /\ at = Nowhere /\ pass = "typeOrigins"
  BY OriginsAssumption DEF NamesInit, Modules
<1>2. ClosureOK
  BY DEF NamesInit, ClosureOK, PrivateKept, NoTypeUnderWord, ExemptAlone
<1>3. NamesTypeOK
  BY <1>1 DEF NamesInit, NamesTypeOK, Selections
<1>4. \A q \in DOMAIN After : \A m \in Modules : ~Through(q, m)
  BY <1>1, OriginsAssumption DEF Through, After, Modules
<1>5. \A m \in Modules : immediate[m] = Nowhere
  BY DEF NamesInit
<1> QED BY <1>1, <1>2, <1>3, <1>4, <1>5 DEF NamesInv, After

\* the module a walk may set out for is one of the closure
LEMMA SourceTyped ==
  ASSUME NamesInv, NEW m \in Modules
  PROVE  Source(m) \in Modules \cup {Nowhere}
<1>1. Scanned(m) \subseteq Modules
  BY DEF Scanned, Qualified
<1>2. Cardinality(Scanned(m)) = 1 => Scanned(m) # {}
  BY FS_EmptySet
<1>3. selective[m] \in Modules \cup {Nowhere}
  BY DEF NamesInv, ClosureOK, Selections
<1> QED BY <1>1, <1>2, <1>3 DEF Source

\* the module another one imports is a later one
LEMMA EndsTyped ==
  ASSUME NamesInv, NEW m \in Modules, NEW end \in TypeEnds(m)
  PROVE  end \in Modules \cup {Nowhere}
<1> DEFINE Here == Modules \cup {Nowhere}
           Short == {M - x : x \in {y \in Modules : ~(TypeEnds(y) \subseteq Here)}}
<1>1. selective \in Selections
  BY DEF NamesInv, ClosureOK
<1>2. SUFFICES ASSUME Short # {} PROVE FALSE
  OBVIOUS
<1>3. Short \in SUBSET Nat
  BY OriginsAssumption DEF Modules
<1>4. PICK n \in Short : \A k \in Short : n <= k
  <2> HIDE DEF Short
  <2> QED BY <1>2, <1>3, LeastOfNaturals
<1>5. PICK x \in Modules : n = M - x /\ ~(TypeEnds(x) \subseteq Here)
  OBVIOUS
<1>6. \A y \in Modules : y > x => TypeEnds(y) \subseteq Here
  <2> SUFFICES ASSUME NEW y \in Modules, y > x, ~(TypeEnds(y) \subseteq Here) PROVE FALSE
    OBVIOUS
  <2>1. M - y \in Short
    OBVIOUS
  <2>2. n <= M - y
    BY <1>4, <2>1
  <2>3. M \in Nat /\ x \in 1..M /\ y \in 1..M
    BY OriginsAssumption DEF Modules
  <2> HIDE DEF Short
  <2> QED BY <1>5, <2>2, <2>3
<1>7. selective[x] # Nowhere => TypeEnds(selective[x]) \subseteq Here
  BY <1>1, <1>6 DEF Selections
<1> QED BY <1>1, <1>5, <1>7, WalksOn DEF Qualified

LEMMA RefusalKeeps ==
  ASSUME NamesInv, RefuseNames, UNCHANGED <<closure, immediate, at, origin, typeOrigin>>, pass # "walks"
  PROVE  NamesInv'
<1>1. pass' = "refused" /\ module' = module /\ \A q \in DOMAIN After : \A m \in Modules : ~Through(q, m)'
  BY RefusalIsOutside
<1>2. ClosureOK' /\ at' = Nowhere
  BY ClosureStays DEF NamesInv
<1>3. NamesTypeOK'
  BY <1>1, ClosureStays DEF NamesInv, NamesTypeOK, closure
<1>4. \A m \in Modules : immediate'[m] # Nowhere => exports'[m]
  BY DEF NamesInv, closure
<1> QED BY <1>1, <1>2, <1>3, <1>4 DEF NamesInv, After

LEMMA TypeOriginKeeps ==
  ASSUME NamesInv, TypeOrigin
  PROVE  NamesInv'
<1>1. pass = "typeOrigins" /\ module \in Modules /\ at = Nowhere /\ UNCHANGED <<closure, immediate, at, origin>>
  BY DEF TypeOrigin, NamesInv, NamesTypeOK
<1>2. PICK end \in TypeEnds(module) :
        typeOrigin' = [typeOrigin EXCEPT ![module] = IF exports[module] /\ declares[module] # "type" THEN end ELSE Nowhere]
  BY DEF TypeOrigin
<1>3. /\ pass' \in {"typeOrigins"} \cup After["typeOrigins"] /\ module' \in Modules
      /\ \A m \in Modules : Through("typeOrigins", m)' => Through("typeOrigins", m) \/ m = module
      /\ \A q \in DOMAIN After \ {"typeOrigins"} : \A m \in Modules : Through(q, m)' => Through(q, m)
  BY <1>1, GoesOn DEF TypeOrigin, After
<1>4. end \in Modules \cup {Nowhere}
  BY <1>1, EndsTyped
<1>5. ClosureOK' /\ UNCHANGED <<exports, declares, selective>>
  BY <1>1, ClosureStays DEF NamesInv, closure
<1>6. NamesTypeOK'
  BY <1>1, <1>2, <1>3, <1>4, <1>5 DEF NamesInv, NamesTypeOK, After
<1>7. ASSUME NEW m \in Modules, Through("typeOrigins", m)' PROVE TypeOriginRight(m)'
  <2>1. TypeEnds(m)' = TypeEnds(m)
    BY <1>1, ClosureStays
  <2>2. typeOrigin[m]' = IF m = module THEN IF exports[module] /\ declares[module] # "type" THEN end ELSE Nowhere ELSE typeOrigin[m]
    BY <1>2 DEF NamesInv, NamesTypeOK
  <2>3. m # module => TypeOriginRight(m)
    BY <1>3, <1>7 DEF NamesInv
  <2> QED BY <1>2, <1>5, <2>1, <2>2, <2>3 DEF TypeOriginRight
<1>8. ASSUME NEW m \in Modules
      PROVE  ~Through("selectives", m)' /\ ~Through("immediates", m)' /\ ~Through("walks", m)'
  BY <1>1, <1>3 DEF Through, After
<1> QED BY <1>1, <1>3, <1>5, <1>6, <1>7, <1>8 DEF NamesInv, After

LEMMA CheckSelectiveKeeps ==
  ASSUME NamesInv, CheckSelective
  PROVE  NamesInv'
<1>1. pass = "selectives" /\ module \in Modules /\ at = Nowhere /\ UNCHANGED <<closure, typeOrigin, immediate, at, origin>>
  BY DEF CheckSelective, NamesInv, NamesTypeOK
<1>2. CASE RefuseNames
  BY <1>1, <1>2, RefusalKeeps
<1>3. CASE Selected(module) /\ Goto("immediates")
  <2>1. /\ pass' \in {"selectives"} \cup After["selectives"] /\ module' \in Modules
        /\ \A m \in Modules : Through("selectives", m)' => Through("selectives", m) \/ m = module
        /\ \A q \in DOMAIN After \ {"selectives"} : \A m \in Modules : Through(q, m)' => Through(q, m)
    BY <1>1, <1>3, GoesOn DEF After
  <2>2. ClosureOK' /\ UNCHANGED <<exports, declares, selective>>
    BY <1>1, ClosureStays DEF NamesInv, closure
  <2>3. NamesTypeOK'
    BY <1>1, <2>1, <2>2 DEF NamesInv, NamesTypeOK, After
  <2>4. ASSUME NEW m \in Modules, Through("selectives", m)' PROVE Selected(m)'
    BY <1>1, <1>3, <2>1, <2>4, ClosureStays DEF NamesInv
  <2>5. ASSUME NEW m \in Modules, Through("typeOrigins", m)' PROVE TypeOriginRight(m)'
    <3>1. TypeOriginRight(m)
      BY <2>1, <2>5 DEF NamesInv, After
    <3> QED BY <1>1, <2>2, <3>1, ClosureStays DEF TypeOriginRight
  <2>6. ASSUME NEW m \in Modules PROVE ~Through("immediates", m)' /\ ~Through("walks", m)'
    BY <1>1, <2>1 DEF Through, After
  <2> QED BY <1>1, <2>1, <2>2, <2>3, <2>4, <2>5, <2>6 DEF NamesInv, After
<1> QED BY <1>2, <1>3 DEF CheckSelective, Selected

LEMMA ImmediateKeeps ==
  ASSUME NamesInv, Immediate
  PROVE  NamesInv'
<1>1. pass = "immediates" /\ module \in Modules /\ at = Nowhere /\ UNCHANGED <<closure, typeOrigin, at, origin>>
  BY DEF Immediate, NamesInv, NamesTypeOK
<1>2. CASE RefuseNames /\ UNCHANGED immediate
  BY <1>1, <1>2, RefusalKeeps
<1>3. CASE /\ Goto("walks")
           /\ \/ ~exports[module] /\ UNCHANGED immediate
              \/ exports[module] /\ Source(module) # Nowhere /\ immediate' = [immediate EXCEPT ![module] = Source(module)]
  <2>1. /\ pass' \in {"immediates"} \cup After["immediates"] /\ module' \in Modules
        /\ \A m \in Modules : Through("immediates", m)' => Through("immediates", m) \/ m = module
        /\ \A q \in DOMAIN After \ {"immediates"} : \A m \in Modules : Through(q, m)' => Through(q, m)
    BY <1>1, <1>3, GoesOn DEF After
  <2>2. ClosureOK' /\ UNCHANGED <<exports, declares, selective>>
    BY <1>1, ClosureStays DEF NamesInv, closure
  <2>3. NamesTypeOK'
    BY <1>1, <1>3, <2>1, <2>2, SourceTyped DEF NamesInv, NamesTypeOK, After
  <2>4. ASSUME NEW m \in Modules, Through("immediates", m)' PROVE ImmediateRight(m)'
    <3>1. Source(m)' = Source(m) /\ (m # module => ImmediateRight(m))
      BY <1>1, <2>1, <2>4, ClosureStays DEF NamesInv
    <3>2. immediate' = immediate \/ immediate' = [immediate EXCEPT ![module] = Source(module)]
      BY <1>3
    <3>3. immediate \in [Modules -> Modules \cup {Nowhere}]
      BY DEF NamesInv, NamesTypeOK
    <3> QED BY <1>1, <1>3, <2>2, <3>1, <3>2, <3>3 DEF ImmediateRight
  <2>5. ASSUME NEW m \in Modules, Through("typeOrigins", m)' PROVE TypeOriginRight(m)'
    <3>1. TypeOriginRight(m)
      BY <2>1, <2>5 DEF NamesInv, After
    <3> QED BY <1>1, <2>2, <3>1, ClosureStays DEF TypeOriginRight
  <2>6. ASSUME NEW m \in Modules, Through("selectives", m)' PROVE Selected(m)'
    BY <1>1, <2>1, <2>6, ClosureStays DEF NamesInv, After
  <2>7. ASSUME NEW m \in Modules PROVE ~Through("walks", m)'
    BY <1>1, <2>1 DEF Through, After
  <2>8. \A m \in Modules : immediate'[m] # Nowhere => exports'[m]
    <3>1. immediate \in [Modules -> Modules \cup {Nowhere}] /\ \A m \in Modules : immediate[m] # Nowhere => exports[m]
      BY DEF NamesInv, NamesTypeOK
    <3>2. UNCHANGED immediate \/ (exports[module] /\ immediate' = [immediate EXCEPT ![module] = Source(module)])
      BY <1>3
    <3> QED BY <2>2, <3>1, <3>2
  <2> QED BY <1>1, <2>1, <2>2, <2>3, <2>4, <2>5, <2>6, <2>7, <2>8 DEF NamesInv, After
<1> QED BY <1>2, <1>3 DEF Immediate

\* a set of one element has no other
LEMMA OnlyOne ==
  ASSUME NEW S, IsFiniteSet(S), Cardinality(S) <= 1, NEW x \in S, NEW y \in S
  PROVE  x = y
<1> SUFFICES ASSUME x # y PROVE FALSE
  OBVIOUS
<1>1. IsFiniteSet(S \ {x}) /\ Cardinality(S \ {x}) = Cardinality(S) - 1 /\ y \in S \ {x}
  BY FS_RemoveElement
<1>2. Cardinality(S \ {x}) \in Nat /\ Cardinality(S \ {x}) # 0 /\ Cardinality(S) \in Nat
  BY <1>1, FS_CardinalityType, FS_EmptySet
<1> QED BY <1>1, <1>2

LEMMA ModulesFinite ==
  ASSUME NEW S, S \subseteq Modules
  PROVE  IsFiniteSet(S)
<1>1. IsFiniteSet(Modules)
  BY OriginsAssumption, FS_Interval DEF Modules
<1> QED BY <1>1, FS_Subset

\* A hop leads to a module that exports the name, if it is not one that the scan
\* has found to declare it; and that means the same type by it.
LEMMA HopsStay ==
  ASSUME NamesInv, NEW x \in Modules, NEW y \in Modules, exports[x], Selected(x), Source(x) = y, y # x
  PROVE  /\ exports[y] \/ declares[y] # "nothing"
         /\ Has("privateScan") \/ exports[y]
         /\ Has("typeUnderWord") \/ TypeEnds(x) = TypeEnds(y)
<1>1. ClosureOK /\ selective \in Selections
  BY DEF NamesInv, ClosureOK
<1>2. declares[x] = "nothing"
  BY DEF Source
<1>3. CASE selective[x] # Nowhere
  <2>1. y = selective[x] /\ y \in Entries(x)
    BY <1>1, <1>2, <1>3 DEF Source, ClosureOK
  <2>2. exports[y]
    BY <2>1 DEF Selected, SelectionHolds
  <2> QED BY <1>1, <1>2, <1>3, <2>1, <2>2, WalksOn
<1>4. CASE selective[x] = Nowhere
  <2>1. Cardinality(Scanned(x)) = 1 /\ y = CHOOSE t \in Scanned(x) : TRUE
    BY <1>2, <1>4, OriginsAssumption DEF Source
  <2>2. Scanned(x) # {} /\ IsFiniteSet(Scanned(x))
    BY <2>1, FS_EmptySet, ModulesFinite DEF Scanned, Qualified
  <2>3. y \in Scanned(x)
    BY <2>1, <2>2
  <2>4. \A t \in Scanned(x) : t = y
    BY <2>1, <2>2, <2>3, OnlyOne
  <2>5. declares[y] # "nothing" /\ (Has("privateScan") \/ exports[y])
    BY <1>1, <1>2, <1>4, <2>3 DEF ClosureOK, PrivateKept, Scanned
  <2>6. TypeEnds(x) = LET found == {t \in Qualified(x) : declares[t] = "type"} IN IF found = {} THEN {Nowhere} ELSE found
    BY <1>1, <1>2, <1>4, WalksOn
  <2>7. CASE declares[y] = "type"
    <3>1. {t \in Qualified(x) : declares[t] = "type"} = {y}
      BY <2>3, <2>4, <2>7 DEF Scanned
    <3>2. TypeEnds(y) = {y}
      BY <1>1, <2>7, WalksOn
    <3> QED BY <1>2, <2>5, <2>6, <3>1, <3>2
  <2>8. CASE declares[y] # "type"
    <3>1. {t \in Qualified(x) : declares[t] = "type"} = {}
      BY <2>4, <2>8 DEF Scanned
    <3>2. declares[y] = "word"
      BY <1>1, <2>3, <2>8, OriginsAssumption DEF Scanned, ClosureOK
    <3>3. Has("typeUnderWord") \/ TypeEnds(y) = {Nowhere}
      BY <1>1, <3>2 DEF ClosureOK, NoTypeUnderWord
    <3> QED BY <1>2, <2>5, <2>6, <3>1, <3>3
  <2> QED BY <2>7, <2>8
<1> QED BY <1>3, <1>4

LEMMA WalkKeeps ==
  ASSUME NamesInv, Walk
  PROVE  NamesInv'
<1> DEFINE Here == IF at = Nowhere THEN module ELSE at
<1>1. PICK here \in Modules : here = Here
  BY DEF NamesInv, NamesTypeOK
<1>2. pass = "walks" /\ module \in Modules /\ UNCHANGED <<closure, typeOrigin, immediate>>
  BY DEF Walk, NamesInv, NamesTypeOK
<1>3. ClosureOK' /\ UNCHANGED <<exports, declares, selective>>
  BY <1>2, ClosureStays DEF NamesInv, closure
<1>4. exports[module] => OnTheWay(module, here)
  BY <1>1 DEF NamesInv, OnTheWay
<1>5. \A m \in Modules : TypeOriginRight(m) /\ Selected(m) /\ ImmediateRight(m)
  BY <1>2 DEF NamesInv, Through, After
<1>6. \A m \in Modules : TypeOriginRight(m)' /\ Selected(m)' /\ ImmediateRight(m)'
  BY <1>2, <1>3, <1>5, ClosureStays DEF TypeOriginRight, ImmediateRight
<1>7. \A m \in Modules : \A x \in Modules : OnTheWay(m, x)' <=> OnTheWay(m, x)
  BY <1>2, <1>3, ClosureStays DEF OnTheWay
<1>8. Hops <=> exports[module] /\ immediate[here] \notin {Nowhere, here}
  BY <1>1 DEF Hops
<1>9. immediate[here] \in Modules \cup {Nowhere}
  BY DEF NamesInv, NamesTypeOK
<1>10. CASE Hops
  <2>1. at' = immediate[here] /\ UNCHANGED <<origin, module, pass>>
    BY <1>1, <1>10 DEF Walk
  <2>2. immediate[here] = Source(here) /\ exports[here]
    BY <1>5, <1>8, <1>10 DEF ImmediateRight, NamesInv
  <2>3. PICK y \in Modules : y = immediate[here] /\ y # here
    BY <1>8, <1>9, <1>10
  <2>4. OnTheWay(module, y)
    BY <1>2, <1>4, <1>5, <1>8, <1>10, <2>2, <2>3, HopsStay DEF OnTheWay
  <2>5. OnTheWay(module, at)'
    BY <1>2, <1>7, <2>1, <2>3, <2>4
  <2>6. NamesTypeOK'
    BY <1>2, <1>3, <1>9, <2>1 DEF NamesInv, NamesTypeOK
  <2>7. \A m \in Modules : ~Through("walks", m)' \/ OriginRight(m)'
    <3> SUFFICES ASSUME NEW m \in Modules, Through("walks", m)' PROVE OriginRight(m)'
      OBVIOUS
    <3>1. OriginRight(m)
      BY <2>1 DEF NamesInv, Through
    <3>2. origin[m]' = origin[m] /\ (exports[m] => Source(origin[m])' = Source(origin[m]))
      BY <1>2, <2>1, <3>1, ClosureStays DEF OriginRight
    <3> QED BY <1>3, <1>7, <3>1, <3>2 DEF OriginRight
  <2> QED BY <1>2, <1>3, <1>6, <2>1, <2>5, <2>6, <2>7 DEF NamesInv
<1>11. CASE ~Hops
  <2>1. /\ at' = Nowhere /\ Goto("accepted")
        /\ origin' = [origin EXCEPT ![module] = IF exports[module] THEN here ELSE Nowhere]
    BY <1>1, <1>11 DEF Walk
  <2>2. /\ pass' \in {"walks"} \cup After["walks"] /\ module' \in Modules
        /\ \A m \in Modules : Through("walks", m)' => Through("walks", m) \/ m = module
    BY <1>2, <2>1, GoesOn DEF After
  <2>3. NamesTypeOK'
    BY <1>1, <1>2, <1>3, <2>1, <2>2 DEF NamesInv, NamesTypeOK, After
  <2>4. ASSUME NEW m \in Modules, Through("walks", m)', exports[m] PROVE OriginRight(m)'
    <3>1. origin[m]' = IF m = module THEN here ELSE origin[m]
      BY <2>1, <2>4 DEF NamesInv, NamesTypeOK
    <3>2. CASE m = module
      <4>1. OnTheWay(m, here) /\ Source(here) = here
        <5>1. OnTheWay(m, here)
          BY <1>4, <2>4, <3>2
        <5>2. declares[here] # "nothing" => Source(here) = here
          BY DEF Source
        <5>3. exports[here] => Source(here) = here
          BY <1>5, <1>8, <1>11, <2>4, <3>2 DEF ImmediateRight
        <5> QED BY <5>1, <5>2, <5>3 DEF OnTheWay
      <4>2. Source(here)' = here
        BY <1>2, <4>1, ClosureStays
      <4> QED BY <1>7, <3>1, <3>2, <4>1, <4>2 DEF OriginRight
    <3>3. CASE m # module
      <4>1. OriginRight(m)
        BY <2>2, <2>4, <3>3 DEF NamesInv
      <4>2. PICK o \in Modules : o = origin[m] /\ OnTheWay(m, o) /\ Source(o) = o
        BY <2>4, <4>1 DEF OriginRight
      <4>3. Source(o)' = o
        BY <1>2, <4>2, ClosureStays
      <4> QED BY <1>7, <3>1, <3>3, <4>2, <4>3 DEF OriginRight
    <3> QED BY <3>2, <3>3
  <2>5. \A m \in Modules : Through("walks", m)' => OriginRight(m)'
    BY <1>3, <2>4 DEF OriginRight
  <2>6. \A m \in Modules : immediate'[m] # Nowhere => exports'[m]
    BY <1>2, <1>3 DEF NamesInv
  <2> QED BY <1>3, <1>6, <2>1, <2>3, <2>5, <2>6 DEF NamesInv
<1> QED BY <1>10, <1>11

\* The invariant holds in every state, for any number of modules.
THEOREM NamesInvariance == NamesSpec => []NamesInv
<1>1. NamesInit => NamesInv
  BY Starts
<1>2. NamesInv /\ [NamesNext]_names => NamesInv'
  <2> SUFFICES ASSUME NamesInv, [NamesNext]_names PROVE NamesInv'
    OBVIOUS
  <2>1. CASE UNCHANGED names
    <3>1. UNCHANGED closure /\ UNCHANGED <<exports, declares, selective, pass, module, typeOrigin, immediate, at, origin>>
      BY <2>1 DEF names, closure
    <3>2. ClosureOK' /\ NamesTypeOK'
      BY <3>1, ClosureStays DEF NamesInv, NamesTypeOK
    <3>3. \A m \in Modules : \A x \in Modules : OnTheWay(m, x)' <=> OnTheWay(m, x)
      BY <3>1, ClosureStays DEF OnTheWay
    <3>4. \A p \in DOMAIN After : \A m \in Modules : Through(p, m)' <=> Through(p, m)
      BY <3>1 DEF Through
    <3>5. ASSUME NEW m \in Modules PROVE OriginRight(m) => OriginRight(m)'
      <4> SUFFICES ASSUME OriginRight(m), exports[m] PROVE OriginRight(m)'
        BY <3>1 DEF OriginRight
      <4>1. PICK o \in Modules : o = origin[m] /\ OnTheWay(m, o) /\ Source(o) = o
        BY DEF OriginRight
      <4>2. Source(o)' = o
        BY <3>1, <4>1, ClosureStays
      <4> QED BY <3>1, <3>3, <4>1, <4>2 DEF OriginRight
    <3>6. \A m \in Modules : /\ TypeOriginRight(m) => TypeOriginRight(m)'
                             /\ Selected(m) => Selected(m)'
                             /\ ImmediateRight(m) => ImmediateRight(m)'
      BY <3>1, ClosureStays DEF TypeOriginRight, ImmediateRight
    <3>7. at' # Nowhere => OnTheWay(module, at)'
      BY <3>1, <3>3 DEF NamesInv, NamesTypeOK
    <3> QED BY <3>1, <3>2, <3>4, <3>5, <3>6, <3>7 DEF NamesInv, After
  <2> QED BY <2>1, TypeOriginKeeps, CheckSelectiveKeeps, ImmediateKeeps, WalkKeeps DEF NamesNext
<1> QED BY <1>1, <1>2, PTL DEF NamesSpec
-----------------------------------------------------------------------------
(* The properties.                                                           *)

\* Of an accepted program: what the tables say of every module.
LEMMA WhenAccepted ==
  ASSUME NamesInv, NamesAccepted, NEW m \in Modules
  PROVE  /\ ClosureOK /\ TypeOriginRight(m) /\ Selected(m)
         /\ exports[m] => \E o \in Modules : o = origin[m] /\ OnTheWay(m, o) /\ Source(o) = o
         /\ origin[m] \in Modules \cup {Nowhere} /\ typeOrigin[m] \in Modules \cup {Nowhere}
BY DEF NamesInv, NamesTypeOK, NamesAccepted, Through, After, OriginRight

\* a module that is its own source declares the name or admits the intrinsic
LEMMA OwnSource ==
  ASSUME NamesInv, NEW o \in Modules, Source(o) = o
  PROVE  declares[o] # "nothing" \/ Effective[o]
<1> SUFFICES ASSUME declares[o] = "nothing", ~Effective[o] PROVE FALSE
  OBVIOUS
<1>1. selective[o] # o
  BY OriginsAssumption DEF NamesInv, ClosureOK, Selections, Modules
<1>2. selective[o] = Nowhere /\ Cardinality(Scanned(o)) = 1 /\ o = CHOOSE t \in Scanned(o) : TRUE
  BY <1>1, OriginsAssumption DEF Source
<1>3. o \in Scanned(o)
  BY <1>2, FS_EmptySet
<1>4. How(o, o) = "no"
  BY OriginsAssumption DEF How, Modules
<1> QED BY <1>3, <1>4 DEF Scanned, Qualified

\* No reference through an export dangles: the module an accepted export leads to
\* declares the name or admits the intrinsic (resolve.rs, walk_to_origin).
THEOREM ExportsLeadSomewhere == NamesSpec => []OriginDeclares
<1>1. NamesInv => OriginDeclares
  <2> SUFFICES ASSUME NamesInv, NamesAccepted, NEW m \in Modules, exports[m]
               PROVE  declares[origin[m]] # "nothing" \/ Effective[origin[m]]
    BY DEF OriginDeclares
  <2> QED BY WhenAccepted, OwnSource
<1> QED BY <1>1, NamesInvariance, PTL

\* Nothing private leaves its module through a hub: the module an accepted
\* re-export leads to exports the name too (check_selective_imports, resolve_export_origins).
THEOREM ReExportsAreExports == ASSUME "privateScan" \notin Shapes PROVE NamesSpec => []ReExportGated
<1>1. NamesInv => ReExportGated
  <2> SUFFICES ASSUME NamesInv, NamesAccepted, NEW m \in Modules, exports[m] PROVE exports[origin[m]]
    BY DEF ReExportGated
  <2> QED BY WhenAccepted DEF OnTheWay, Has
<1> QED BY <1>1, NamesInvariance, PTL

\* The early walk for signatures and the late one for terms end at one
\* declaration (walk_type_export_origin, NameTables::rewrite), whichever import
\* the early one takes first.
THEOREM SignaturesMeanWhatTermsMean == ASSUME "typeUnderWord" \notin Shapes PROVE NamesSpec => []TypeAndTermAgree
<1>1. NamesInv => TypeAndTermAgree
  <2> SUFFICES ASSUME NamesInv, NamesAccepted, NEW t \in Modules, exports[t] PROVE ResolvedType(t) = Rewritten(t, "type")
    BY DEF TypeAndTermAgree
  <2>1. PICK o \in Modules : o = origin[t] /\ OnTheWay(t, o) /\ Source(o) = o
    BY WhenAccepted
  <2>2. ClosureOK /\ selective \in Selections /\ TypeOriginRight(t)
    BY WhenAccepted DEF ClosureOK
  <2>3. CASE declares[t] = "type"
    BY <2>3 DEF ResolvedType, Rewritten
  <2>4. CASE declares[t] # "type" /\ declares[o] = "type"
    <3>1. TypeEnds(o) = {o} /\ o # t
      BY <2>2, <2>4, WalksOn
    <3>2. typeOrigin[t] = o
      BY <2>1, <2>2, <2>4, <3>1 DEF TypeOriginRight, OnTheWay, Has
    <3> QED BY <2>1, <2>4, <3>1, <3>2, OriginsAssumption DEF ResolvedType, Rewritten, Elsewhere
  <2>5. CASE declares[t] # "type" /\ declares[o] # "type"
    <3>1. TypeEnds(o) = {Nowhere}
      BY <2>1, <2>2, <2>5, OwnSource, OriginsAssumption DEF ClosureOK, NoTypeUnderWord, Has
    <3>2. typeOrigin[t] = Nowhere
      BY <2>1, <2>2, <2>5, <3>1 DEF TypeOriginRight, OnTheWay, Has
    <3> QED BY <2>1, <2>5, <3>2 DEF ResolvedType, Rewritten, Elsewhere
  <2> QED BY <2>3, <2>4, <2>5
<1> QED BY <1>1, NamesInvariance, PTL

\* What the bare name means does not depend on the order of the import lines:
\* either it is bound by one entry, or all its entries are of an intrinsic and
\* none of them binds a word (check_selective_imports).
THEOREM EntriesMeanOneThing == ASSUME "exemptBeside" \notin Shapes PROVE NamesSpec => []OneMeaning
<1>1. NamesInv => OneMeaning
  <2> SUFFICES ASSUME NamesInv, NamesAccepted, NEW m \in Modules, NEW t \in Entries(m), NEW u \in Entries(m), t # u
               PROVE  Rewritten(t, "type") = Rewritten(u, "type") /\ Rewritten(t, "word") = Rewritten(u, "word")
    BY DEF OneMeaning
  <2>1. t \in Modules /\ u \in Modules
    BY DEF Entries
  <2>2. ClosureOK /\ Selected(m)
    BY WhenAccepted
  <2>3. Exempt(t) /\ Exempt(u)
    <3> DEFINE bound == {e \in Entries(m) : ~Exempt(e)}
    <3>1. (Exempt(t) <=> Exempt(u))
      BY <2>2 DEF ClosureOK, ExemptAlone, Has
    <3>2. IsFiniteSet(bound) /\ Cardinality(bound) <= 1
      BY <2>2, ModulesFinite DEF Selected, OneWord, Entries
    <3>3. ~(t \in bound /\ u \in bound)
      BY <3>2, OnlyOne
    <3> QED BY <3>1, <3>3
  <2>4. ASSUME NEW e \in Entries(m), Exempt(e) PROVE Rewritten(e, "type") = Nowhere /\ Rewritten(e, "word") = Nowhere
    <3>1. e \in Modules /\ exports[e] /\ Effective[e] /\ declares[e] = "nothing" /\ selective[e] = Nowhere
      BY <2>2, <2>4 DEF Selected, SelectionHolds, Exempt, Entries
    <3>2. PICK o \in Modules : o = origin[e] /\ OnTheWay(e, o) /\ Source(o) = o
      BY <3>1, WhenAccepted
    <3>3. o = e
      BY <3>1, <3>2 DEF OnTheWay, Source
    <3> QED BY <3>1, <3>2, <3>3 DEF Rewritten, Elsewhere
  <2> QED BY <2>3, <2>4
<1> QED BY <1>1, NamesInvariance, PTL

-----------------------------------------------------------------------------
(* Instances: for every set of generic words, of types and of calls, however *)
(* deep the types, and however many the calls.                               *)

-----------------------------------------------------------------------------
(* What runs, with no bound on the length of an execution.                 *)

AnyType == Bases \X Nat
AnyInstance == Words \X AnyType

\* S holds what the program calls, and what anything in it calls.
Closed(S) == main \subseteq S /\ \A x \in S : BodyCalls(x) \cup Resolved(x) \subseteq S
\* The least such set.
Reaches(x) == \A S : Closed(S) => x \in S
Runs == {x \in AnyInstance : Reaches(x)}

-----------------------------------------------------------------------------
(* The inductive invariant.                                                *)

GenericsOK ==
  /\ calls \in [Words -> SUBSET (Plain \X Supplied)] /\ arrow \in [Words -> {"no", "own"} \cup Slots]
  /\ obliges \subseteq bounded /\ inline \subseteq Plain
  /\ \A w \in Words : Walked(w) => Lawful(w)
  /\ main \subseteq Instances

Calling == {c[2] : c \in asked}
Fixpoint == seen \cup frontier \cup next \cup discovered \cup transitive \cup work
FoundSoFar == insts \cup splices \cup monos \cup Fixpoint

SetsOK ==
  /\ stage \in {"check", "insts", "splices", "extra", "work", "drain", "done", "refused"}
  /\ asked \subseteq {"plain", "splice"} \X AnyInstance
  /\ FoundSoFar \subseteq AnyInstance /\ \A x \in FoundSoFar : Walked(x[1])
  /\ stage = "check" => Fixpoint = {}
  /\ stage \notin {"check", "refused"} => asked = {}

Searching == stage \in {"insts", "splices", "extra", "work", "drain"}

\* what has been composed, and what a drain has still to be asked for
Composed ==
  transitive \cup (IF stage = "insts" THEN insts \ work ELSE insts)
             \cup CASE stage = "insts" -> {} [] stage = "splices" -> splices \ work [] OTHER -> splices
Owed ==
  CASE stage \in {"insts", "splices"} -> monos [] stage \in {"extra", "drain"} -> work [] OTHER -> {}

\* what is called is seen, and what is seen is emitted or will be
Accounted ==
  /\ \A x \in insts \cup splices : Resolved(x) \subseteq monos
  /\ Searching =>
       /\ insts \subseteq seen /\ seen = insts \cup frontier \cup next \cup transitive
       /\ \A x \in Composed : Routed(x) \subseteq seen
       /\ \A x \in seen \cup splices \cup monos : Resolved(x) \subseteq seen \cup discovered \cup Owed
       /\ stage \in {"insts", "splices", "extra", "drain"} => next = {}
       /\ stage = "extra" => work \subseteq monos
       /\ stage = "drain" /\ frontier = {} => discovered = {}

\* what is found runs only where its bounds hold
Sound ==
  /\ \A x \in insts \cup splices \cup seen : Satisfied(x)
  /\ Searching => \A x \in monos : Satisfied(x)
  /\ Searching => \A x \in Composed : Spliceable(x)
  /\ stage = "done" => \A x \in Emitted : Satisfied(x) /\ Spliceable(x)

\* what is found runs, and so does what was walked in place; X is the latter
Walks(X) ==
  /\ \A x \in X : /\ x \in AnyInstance /\ Reaches(x) /\ x[1] \in inline /\ Satisfied(x)
                  /\ BodyCalls(x) \cup Resolved(x) \subseteq insts \cup splices \cup X \cup Calling
  /\ main \subseteq insts \cup splices \cup X \cup Calling
Reached2 ==
  /\ \A x \in FoundSoFar \cup Calling : Reaches(x)
  /\ \E X : Walks(X)

RefusedForIt ==
  stage = "refused" => \E x \in AnyInstance : Reaches(x) /\ (~Satisfied(x) \/ ~Spliceable(x))

InstancesInv == GenericsOK /\ SetsOK /\ Accounted /\ Lowerable /\ Sound /\ Reached2 /\ RefusedForIt

-----------------------------------------------------------------------------
(* The operators.                                                          *)

\* the program stays what it is
LEMMA Static ==
  ASSUME UNCHANGED generics
  PROVE  /\ UNCHANGED <<calls, bounded, obliges, arrow, inline, impls, main>>
         /\ GenericsOK' = GenericsOK
         /\ \A w : Walked(w)' = Walked(w)
         /\ \A x : /\ BodyCalls(x)' = BodyCalls(x) /\ Resolved(x)' = Resolved(x) /\ Routed(x)' = Routed(x)
                   /\ Satisfied(x)' = Satisfied(x) /\ Spliceable(x)' = Spliceable(x)
                   /\ Reaches(x)' = Reaches(x)
<1>1. UNCHANGED <<calls, bounded, obliges, arrow, inline, impls, main>>
  BY DEF generics
<1>2. \A w : Walked(w)' = Walked(w) /\ Lawful(w)' = Lawful(w)
  BY <1>1 DEF Walked, UserBounded, Lawful, BoundsTransfer
<1>3. \A x : Satisfied(x)' = Satisfied(x)
  BY <1>1 DEF Satisfied, Implemented, Cyclic
<1>4. \A t : Dispatched(t)' = Dispatched(t)
  BY <1>1 DEF Dispatched, Winner, Implemented
<1>5. \A x : BodyCalls(x)' = BodyCalls(x)
  BY <1>1 DEF BodyCalls
<1>6. \A x : Resolved(x)' = Resolved(x)
  BY <1>1, <1>4 DEF Resolved
<1>7. \A x : Routed(x)' = Routed(x) /\ Spliceable(x)' = Spliceable(x)
  BY <1>1, <1>2, <1>5 DEF Routed, Spliceable
<1>8. \A S : Closed(S)' = Closed(S)
  BY <1>1, <1>5, <1>6 DEF Closed
<1>9. \A x : Reaches(x)' = Reaches(x)
  BY <1>8 DEF Reaches
<1>10. GenericsOK' = GenericsOK
  BY <1>1, <1>2 DEF GenericsOK
<1> QED BY <1>1, <1>2, <1>3, <1>5, <1>6, <1>7, <1>9, <1>10

\* a call recorded by a generic body, at the type of the body
LEMMA BodyCallsTyped ==
  ASSUME GenericsOK, NEW x \in AnyInstance
  PROVE  BodyCalls(x) \subseteq AnyInstance /\ Routed(x) \subseteq BodyCalls(x)
         /\ \A y \in Routed(x) : Walked(y[1])
<1>1. ASSUME NEW c \in calls[x[1]] PROVE <<c[1], Ground(c[2], x[2])>> \in AnyInstance
  <2>1. c[1] \in Words /\ c[2][1] \in Bases \cup {"var"} /\ c[2][2] \in Nat /\ c[2] = <<c[2][1], c[2][2]>>
    BY InstancesAssumption DEF GenericsOK, AnyInstance, Supplied, Words
  <2>2. x[2][1] \in Bases /\ x[2][2] \in Nat
    BY DEF AnyInstance, AnyType
  <2> QED BY <2>1, <2>2 DEF Ground, AnyInstance, AnyType
<1> QED BY <1>1 DEF BodyCalls, Routed

\* the member words a trait call means
LEMMA ResolvedTyped ==
  ASSUME GenericsOK, NEW x \in AnyInstance
  PROVE  /\ \A y \in Resolved(x) : y \in AnyInstance /\ Walked(y[1])
         /\ x[1] \notin bounded /\ arrow[x[1]] = "no" => Resolved(x) = {}
<1> DEFINE t == x[2]
<1>1. t[1] \in Bases /\ t[2] \in Nat /\ t = <<t[1], t[2]>>
  BY DEF AnyInstance, AnyType
<1>2. \A w \in Members : w \in Words /\ Walked(w)
  BY InstancesAssumption DEF Words, Walked, GenericsOK
<1>3. ASSUME NEW y \in Dispatched(t) PROVE y \in AnyInstance /\ y[1] \in Members
  <2>1. CASE Winner(t) = "box"
    <3>1. t[2] > 0
      BY <1>1, <2>1, InstancesAssumption DEF Winner
    <3>2. y = <<"box", <<t[1], t[2] - 1>>>> /\ t[2] - 1 \in Nat
      BY <1>1, <1>3, <2>1, <3>1 DEF Dispatched
    <3> QED BY <1>1, <3>2 DEF AnyInstance, AnyType, Words, Members
  <2>2. CASE Winner(t) # "box"
    <3>1. y = <<"any", t>>
      BY <1>3, <2>2 DEF Dispatched
    <3> QED BY <1>1, <3>1 DEF AnyInstance, AnyType, Words, Members
  <2> QED BY <2>1, <2>2
<1>4. ASSUME NEW y \in Resolved(x) PROVE y \in AnyInstance /\ y[1] \in Members
  <2>1. CASE y \in Dispatched(t)
    BY <1>3, <2>1
  <2>2. CASE y \notin Dispatched(t)
    <3>1. y = <<"opt", t>> \/ y = <<"opt", <<t[1], t[2] + 1>>>>
      BY <1>4, <2>2 DEF Resolved
    <3> QED BY <1>1, <3>1 DEF AnyInstance, AnyType, Words, Members
  <2> QED BY <2>1, <2>2
<1>5. ASSUME x[1] \notin bounded, arrow[x[1]] = "no" PROVE Resolved(x) = {}
  BY <1>5 DEF Resolved, GenericsOK
<1> QED BY <1>2, <1>4, <1>5

\* what runs calls what runs
LEMMA ReachesOn ==
  ASSUME NEW x, Reaches(x)
  PROVE  \A y \in BodyCalls(x) \cup Resolved(x) : Reaches(y)
BY DEF Reaches, Closed

-----------------------------------------------------------------------------
(* The steps.                                                              *)

LEMMA InstancesInitHolds ==
  ASSUME InstancesInit
  PROVE  InstancesInv
<1>1. PICK n \in 0..MaxCalls : \E C \in kSubset(n, Calls) :
        calls = [w \in Words |-> {<<c[2], c[3]>> : c \in {d \in C : d[1] = w}}]
  BY DEF InstancesInit
<1>2. PICK C \in kSubset(n, Calls) : calls = [w \in Words |-> {<<c[2], c[3]>> : c \in {d \in C : d[1] = w}}]
  BY <1>1
<1>3. calls \in [Words -> SUBSET (Plain \X Supplied)]
  <2>1. C \subseteq Calls
    BY <1>2 DEF kSubset
  <2>2. \A c \in C : <<c[2], c[3]>> \in Plain \X Supplied
    BY <2>1, InstancesAssumption
  <2> QED BY <1>2, <2>2
<1>4. arrow \in [Words -> {"no", "own"} \cup Slots]
  BY DEF InstancesInit
<1>5. main \subseteq Asks /\ main \subseteq Instances
  BY InstancesAssumption DEF InstancesInit
<1>6. GenericsOK
  BY <1>3, <1>4, <1>5, InstancesAssumption DEF InstancesInit, GenericsOK
<1>7. asked = {<<"plain", x>> : x \in main} /\ main \subseteq AnyInstance
  BY <1>5, InstancesAssumption DEF InstancesInit, Instances, Types, AnyInstance, AnyType
<1>8. Calling = main
  <2>1. ASSUME NEW c \in asked PROVE c[2] \in main
    BY <1>7
  <2>2. ASSUME NEW x \in main PROVE <<"plain", x>> \in asked /\ <<"plain", x>>[2] = x
    BY <1>7
  <2> QED BY <2>1, <2>2 DEF Calling
<1>9. FoundSoFar = {} /\ stage = "check" /\ Fixpoint = {}
  BY DEF InstancesInit, FoundSoFar, Fixpoint
<1>10. SetsOK
  BY <1>7, <1>9 DEF SetsOK, InstancesInit
<1>11. Accounted /\ Sound /\ Lowerable /\ RefusedForIt
  BY <1>9 DEF Accounted, Sound, Lowerable, RefusedForIt, Searching, FoundSoFar, Fixpoint
<1>12. Walks({})
  BY <1>8 DEF Walks
<1>13. \A x \in main : Reaches(x)
  BY DEF Reaches, Closed
<1>14. Reached2
  BY <1>8, <1>9, <1>12, <1>13 DEF Reached2
<1> QED BY <1>6, <1>10, <1>11, <1>14 DEF InstancesInv

\* the program is refused for an instance that runs
LEMMA RefusedKeeps ==
  ASSUME InstancesInv, RefuseProgram, NEW x \in AnyInstance, Reaches(x), ~Satisfied(x) \/ ~Spliceable(x)
  PROVE  InstancesInv'
<1>1. /\ stage' = "refused" /\ UNCHANGED <<asked, work, insts, splices, monos, seen, frontier, next, discovered, transitive>>
      /\ UNCHANGED generics
  BY DEF RefuseProgram, recorded
<1>2. FoundSoFar' = FoundSoFar /\ Fixpoint' = Fixpoint /\ Calling' = Calling
  BY <1>1 DEF FoundSoFar, Fixpoint, Calling
<1>3. GenericsOK' /\ SetsOK'
  BY <1>1, <1>2, Static DEF InstancesInv, SetsOK
<1>4. Accounted' /\ Sound' /\ Lowerable' /\ RefusedForIt'
  BY <1>1, Static DEF InstancesInv, Accounted, Sound, Lowerable, RefusedForIt, Searching
<1>5. Reached2'
  <2>1. PICK X : Walks(X)
    BY DEF InstancesInv, Reached2
  <2>2. Walks(X)'
    BY <1>1, <1>2, <2>1, Static DEF Walks
  <2> QED BY <1>1, <1>2, <2>2, Static DEF InstancesInv, Reached2
<1> QED BY <1>3, <1>4, <1>5 DEF InstancesInv

\* what the walk of the concrete bodies leaves alone
LEMMA RecordCallKeeps ==
  ASSUME InstancesInv, NEW c \in asked, RecordCall(c)
  PROVE  InstancesInv'
<1>1. GenericsOK /\ SetsOK /\ Accounted /\ Sound /\ Reached2 /\ stage = "check"
  BY DEF InstancesInv, RecordCall
<1>2. c[1] \in {"plain", "splice"} /\ c[2] \in AnyInstance /\ c = <<c[1], c[2]>> /\ c[2] \in Calling /\ Reaches(c[2])
  BY <1>1 DEF SetsOK, Calling, Reached2
<1>3. CASE ~Satisfied(c[2])
  BY <1>2, <1>3, RefusedKeeps DEF RecordCall
<1>4. CASE Satisfied(c[2])
  <2>1. /\ asked' = asked \ {c}
        /\ insts' = (IF c[1] = "plain" THEN insts \cup {c[2]} ELSE insts)
        /\ splices' = (IF c[1] = "splice" THEN splices \cup {c[2]} ELSE splices)
        /\ monos' = monos \cup Resolved(c[2]) /\ stage' = "check" /\ c[2][1] \notin inline
        /\ UNCHANGED generics /\ UNCHANGED <<work, seen, frontier, next, discovered, transitive>>
    BY <1>1, <1>4 DEF RecordCall
  <2>2. Fixpoint' = {} /\ Fixpoint = {} /\ FoundSoFar' = insts' \cup splices' \cup monos'
    BY <1>1, <2>1 DEF SetsOK, Fixpoint, FoundSoFar
  <2>3. Walked(c[2][1]) /\ \A y \in Resolved(c[2]) : y \in AnyInstance /\ Walked(y[1]) /\ Reaches(y)
    BY <1>1, <1>2, <2>1, ResolvedTyped, ReachesOn DEF Walked
  <2>4. \A y \in FoundSoFar' : y = c[2] \/ y \in Resolved(c[2]) \/ y \in FoundSoFar
    BY <2>1, <2>2 DEF FoundSoFar
  <2>5. GenericsOK' /\ SetsOK'
    <3>1. \A y \in FoundSoFar' : y \in AnyInstance /\ Walked(y[1])
      BY <1>1, <1>2, <2>3, <2>4 DEF SetsOK
    <3> QED BY <1>1, <2>1, <2>2, <3>1, Static DEF SetsOK
  <2>6. Accounted' /\ Sound' /\ Lowerable' /\ RefusedForIt'
    <3>1. \A y \in insts' \cup splices' : y = c[2] \/ y \in insts \cup splices
      BY <2>1
    <3>2. seen' = {}
      BY <2>2 DEF Fixpoint
    <3>3. Accounted'
      BY <1>1, <2>1, <3>1, Static DEF Accounted, Searching
    <3>4. Sound'
      BY <1>1, <1>4, <2>1, <3>1, <3>2, Static DEF Sound, Searching
    <3> QED BY <2>1, <3>3, <3>4 DEF Lowerable, RefusedForIt
  <2>7. Reached2'
    <3>1. Calling' \subseteq Calling /\ Calling \subseteq Calling' \cup {c[2]}
      BY <2>1 DEF Calling
    <3>2. \A y \in FoundSoFar' \cup Calling' : Reaches(y)
      BY <1>1, <1>2, <2>3, <2>4, <3>1 DEF Reached2
    <3>3. PICK X : Walks(X)
      BY <1>1 DEF Reached2
    <3>4. /\ insts \cup splices \cup X \cup Calling \subseteq insts' \cup splices' \cup X \cup Calling'
      BY <1>2, <2>1, <3>1
    <3>5. main \subseteq insts' \cup splices' \cup X \cup Calling'
      BY <3>3, <3>4 DEF Walks
    <3>6. Walks(X)'
      BY <2>1, <3>3, <3>4, <3>5, Static DEF Walks
    <3> QED BY <2>1, <3>2, <3>6, Static DEF Reached2
  <2> QED BY <2>5, <2>6, <2>7 DEF InstancesInv
<1> QED BY <1>3, <1>4

\* a call of an inline word, walked in place
LEMMA SpliceCallKeeps ==
  ASSUME InstancesInv, NEW c \in asked, SpliceCall(c)
  PROVE  InstancesInv'
<1>1. GenericsOK /\ SetsOK /\ Accounted /\ Sound /\ Reached2 /\ stage = "check"
  BY DEF InstancesInv, SpliceCall
<1>2. c[1] \in {"plain", "splice"} /\ c[2] \in AnyInstance /\ c = <<c[1], c[2]>> /\ c[2] \in Calling /\ Reaches(c[2])
  BY <1>1 DEF SetsOK, Calling, Reached2
<1>3. CASE ~Satisfied(c[2])
  BY <1>2, <1>3, RefusedKeeps DEF SpliceCall
<1>4. CASE Satisfied(c[2])
  <2> DEFINE new == BodyCalls(c[2]) \cup Resolved(c[2])
  <2>1. /\ asked' = (asked \ {c}) \cup {<<"splice", y>> : y \in new}
        /\ stage' = "check" /\ c[2][1] \in inline /\ UNCHANGED generics
        /\ UNCHANGED <<work, insts, splices, monos, seen, frontier, next, discovered, transitive>>
    BY <1>1, <1>4 DEF SpliceCall, recorded
  <2>2. FoundSoFar' = FoundSoFar /\ Fixpoint' = Fixpoint
    BY <2>1 DEF FoundSoFar, Fixpoint
  <2>3. \A y \in new : y \in AnyInstance /\ Reaches(y)
    BY <1>1, <1>2, BodyCallsTyped, ResolvedTyped, ReachesOn
  <2>4. asked' \subseteq {"plain", "splice"} \X AnyInstance
    BY <1>1, <2>1, <2>3 DEF SetsOK
  <2>5. GenericsOK' /\ SetsOK'
    BY <1>1, <2>1, <2>2, <2>4, Static DEF SetsOK
  <2>6. Accounted' /\ Sound' /\ Lowerable' /\ RefusedForIt'
    BY <1>1, <2>1, Static DEF Accounted, Sound, Lowerable, RefusedForIt, Searching
  <2>7. Calling \subseteq Calling' \cup {c[2]} /\ new \subseteq Calling' /\ Calling' \subseteq Calling \cup new
    <3>1. ASSUME NEW y \in new PROVE <<"splice", y>> \in asked' /\ <<"splice", y>>[2] = y
      BY <2>1, <3>1
    <3>2. ASSUME NEW d \in asked' PROVE d[2] \in Calling \cup new
      BY <2>1 DEF Calling
    <3> QED BY <2>1, <3>1, <3>2 DEF Calling
  <2>8. Reached2'
    <3>1. \A y \in FoundSoFar' \cup Calling' : Reaches(y)
      BY <1>1, <2>2, <2>3, <2>7 DEF Reached2
    <3>2. PICK X : Walks(X)
      BY <1>1 DEF Reached2
    <3>3. insts \cup splices \cup X \cup Calling \subseteq insts' \cup splices' \cup (X \cup {c[2]}) \cup Calling'
      BY <2>1, <2>7
    <3>4. new \subseteq insts' \cup splices' \cup (X \cup {c[2]}) \cup Calling'
      BY <2>7
    <3> HIDE DEF new
    <3>5. Walks(X \cup {c[2]})'
      <4>1. ASSUME NEW y \in X \cup {c[2]}
            PROVE  /\ y \in AnyInstance /\ Reaches(y) /\ y[1] \in inline /\ Satisfied(y)
                   /\ BodyCalls(y) \cup Resolved(y) \subseteq insts' \cup splices' \cup (X \cup {c[2]}) \cup Calling'
        <5>1. CASE y \in X
          BY <3>2, <3>3, <5>1 DEF Walks
        <5>2. CASE y = c[2]
          BY <1>2, <1>4, <2>1, <3>4, <5>2 DEF new
        <5> QED BY <5>1, <5>2
      <4>2. main \subseteq insts' \cup splices' \cup (X \cup {c[2]}) \cup Calling'
        BY <3>2, <3>3 DEF Walks
      <4> QED BY <2>1, <4>1, <4>2, Static DEF Walks
    <3> QED BY <2>1, <3>1, <3>5, Static DEF Reached2
  <2> QED BY <2>5, <2>6, <2>8 DEF InstancesInv
<1> QED BY <1>3, <1>4

\* The steps of the fixpoint leave what was recorded alone.
LEMMA FixpointKeeps ==
  ASSUME InstancesInv, UNCHANGED <<generics, asked, recorded>>, stage # "check",
         stage' \in {"insts", "splices", "extra", "work", "drain", "done"},
         Fixpoint' \subseteq AnyInstance, \A x \in Fixpoint' : Walked(x[1]) /\ Reaches(x),
         asked = {}, Accounted', Sound', Lowerable'
  PROVE  InstancesInv'
<1>1. UNCHANGED generics /\ UNCHANGED <<asked, insts, splices, monos>> /\ Calling' = Calling
  BY DEF recorded, Calling
<1>2. \A x \in FoundSoFar' : x \in FoundSoFar \/ x \in Fixpoint'
  BY <1>1 DEF FoundSoFar
<1>3. GenericsOK' /\ SetsOK'
  <2>1. \A x \in FoundSoFar' : x \in AnyInstance /\ Walked(x[1])
    BY <1>2 DEF InstancesInv, SetsOK
  <2> QED BY <1>1, <2>1, Static DEF InstancesInv, SetsOK
<1>4. Reached2'
  <2>1. PICK X : Walks(X)
    BY DEF InstancesInv, Reached2
  <2>2. Walks(X)'
    BY <1>1, <2>1, Static DEF Walks
  <2>3. \A x \in FoundSoFar' \cup Calling' : Reaches(x)
    BY <1>1, <1>2 DEF InstancesInv, Reached2
  <2> QED BY <1>1, <2>2, <2>3, Static DEF Reached2
<1> QED BY <1>3, <1>4 DEF InstancesInv, RefusedForIt

LEMMA BuildSeedsKeeps ==
  ASSUME InstancesInv, BuildSeeds
  PROVE  InstancesInv'
<1>1. /\ GenericsOK /\ SetsOK /\ Accounted /\ Sound /\ Reached2 /\ stage = "check" /\ asked = {}
      /\ seen = {} /\ frontier = {} /\ next = {} /\ discovered = {} /\ transitive = {} /\ work = {}
  BY DEF InstancesInv, BuildSeeds, SetsOK, Fixpoint
<1>2. monos \subseteq AnyInstance /\ \A x \in monos : Reaches(x) /\ Walked(x[1])
  BY <1>1 DEF SetsOK, Reached2, FoundSoFar
<1>3. CASE \E x \in monos : ~Satisfied(x)
  BY <1>2, <1>3, RefusedKeeps DEF BuildSeeds
<1>4. CASE \A x \in monos : Satisfied(x)
  <2>1. UNCHANGED <<generics, asked, recorded, frontier, next, transitive>>
    BY <1>4 DEF BuildSeeds
  <2>2. UNCHANGED generics /\ UNCHANGED <<insts, splices, monos>>
    BY <2>1 DEF recorded
  <2>3. CASE monos = {} /\ \A w \in Words : Walked(w) => calls[w] = {}
    <3>1. stage' = "done" /\ UNCHANGED <<work, seen, discovered>>
      BY <1>4, <2>3 DEF BuildSeeds
    <3>2. ASSUME NEW x \in insts \cup splices
          PROVE  BodyCalls(x) = {} /\ Routed(x) = {} /\ Resolved(x) = {} /\ Spliceable(x) /\ Satisfied(x)
      <4>1. x[1] \in Words /\ Walked(x[1])
        BY <1>1 DEF SetsOK, FoundSoFar, AnyInstance
      <4>2. BodyCalls(x) = {}
        BY <2>3, <4>1 DEF BodyCalls
      <4> QED BY <1>1, <2>3, <4>2 DEF Routed, Spliceable, Accounted, Sound
    <3>3. Emitted' = insts \cup splices
      BY <1>1, <2>1, <2>2 DEF Emitted
    <3>4. Lowerable' /\ Sound'
      BY <1>1, <2>1, <2>2, <3>1, <3>2, <3>3, Static DEF Lowerable, Sound, Searching
    <3>5. Accounted'
      BY <1>1, <2>2, <3>1, Static DEF Accounted, Searching
    <3>6. Fixpoint' = {}
      BY <1>1, <2>1, <3>1 DEF Fixpoint
    <3>7. GenericsOK' /\ SetsOK' /\ Reached2' /\ RefusedForIt'
      <4>1. FoundSoFar' = FoundSoFar /\ Calling' = Calling
        BY <1>1, <2>1, <2>2, <3>1 DEF FoundSoFar, Fixpoint, Calling
      <4>2. PICK X : Walks(X)
        BY <1>1 DEF Reached2
      <4>3. Walks(X)'
        BY <2>1, <2>2, <4>1, <4>2, Static DEF Walks
      <4> QED BY <1>1, <2>1, <2>2, <3>1, <4>1, <4>3, Static DEF SetsOK, Reached2, RefusedForIt
    <3> QED BY <3>4, <3>5, <3>7 DEF InstancesInv
  <2>4. CASE ~(monos = {} /\ \A w \in Words : Walked(w) => calls[w] = {})
    <3>1. stage' = "insts" /\ work' = insts /\ seen' = insts /\ discovered' = MembersOf(monos)
      BY <1>4, <2>4 DEF BuildSeeds, Seeded
    <3>2. \A x \in MembersOf(monos) : x \in AnyInstance /\ Walked(x[1]) /\ Reaches(x)
      BY <1>1, <1>2, ResolvedTyped, ReachesOn DEF MembersOf
    <3>3. Composed' = {} /\ Owed' = monos
      BY <1>1, <2>1, <2>2, <3>1 DEF Composed, Owed
    <3>4. Accounted'
      <4>1. \A x \in monos : Resolved(x) \subseteq MembersOf(monos)
        BY DEF MembersOf
      <4> QED BY <1>1, <2>1, <2>2, <3>1, <3>3, <4>1, Static DEF Accounted
    <3>5. Sound' /\ Lowerable' /\ RefusedForIt'
      BY <1>1, <1>4, <2>2, <3>1, <3>3, Static DEF Sound, Lowerable, RefusedForIt
    <3>6. \A x \in FoundSoFar' : x \in FoundSoFar \/ x \in MembersOf(monos)
      BY <1>1, <2>1, <2>2, <3>1 DEF FoundSoFar, Fixpoint
    <3>7. Calling' = Calling
      BY <2>1 DEF Calling
    <3>8. GenericsOK' /\ SetsOK'
      <4>1. \A x \in FoundSoFar' : x \in AnyInstance /\ Walked(x[1])
        BY <1>1, <3>2, <3>6 DEF SetsOK
      <4> QED BY <1>1, <2>1, <2>2, <3>1, <4>1, Static DEF SetsOK
    <3>9. Reached2'
      <4>1. PICK X : Walks(X)
        BY <1>1 DEF Reached2
      <4>2. Walks(X)'
        BY <2>2, <3>7, <4>1, Static DEF Walks
      <4>3. \A x \in FoundSoFar' \cup Calling' : Reaches(x)
        BY <1>1, <3>2, <3>6, <3>7 DEF Reached2
      <4> QED BY <2>2, <4>2, <4>3, Static DEF Reached2
    <3> QED BY <3>4, <3>5, <3>8, <3>9 DEF InstancesInv
  <2> QED BY <2>3, <2>4
<1> QED BY <1>3, <1>4

\* what composing an instance that runs comes to
LEMMA ComposeProps ==
  ASSUME InstancesInv, NEW x \in AnyInstance, Reaches(x)
  PROVE  /\ \A y \in Routed(x) : y \in AnyInstance /\ Walked(y[1]) /\ Reaches(y) /\ (Composes(x) => Satisfied(y))
         /\ \A y \in MembersOf(Routed(x)) : y \in AnyInstance /\ Walked(y[1]) /\ Reaches(y)
         /\ Composes(x) => Spliceable(x)
         /\ ~Composes(x) /\ RefuseProgram => InstancesInv'
<1>1. GenericsOK
  BY DEF InstancesInv
<1>2. \A y \in Routed(x) : y \in AnyInstance /\ Walked(y[1]) /\ Reaches(y)
  BY <1>1, BodyCallsTyped, ReachesOn
<1>3. \A y \in MembersOf(Routed(x)) : y \in AnyInstance /\ Walked(y[1]) /\ Reaches(y)
  BY <1>1, <1>2, ResolvedTyped, ReachesOn DEF MembersOf
<1>4. ASSUME ~Composes(x), RefuseProgram PROVE InstancesInv'
  <2>1. CASE ~Spliceable(x)
    BY <1>4, <2>1, RefusedKeeps
  <2>2. CASE \E y \in Routed(x) : ~Satisfied(y)
    BY <1>2, <1>4, <2>2, RefusedKeeps
  <2> QED BY <1>4, <2>1, <2>2 DEF Composes
<1> QED BY <1>2, <1>3, <1>4 DEF Composes

LEMMA SeedFromKeeps ==
  ASSUME InstancesInv, NEW x \in work, SeedFrom(x)
  PROVE  InstancesInv'
<1>1. /\ GenericsOK /\ SetsOK /\ Accounted /\ Sound /\ Reached2 /\ stage \in {"insts", "splices"} /\ asked = {}
      /\ x \in AnyInstance /\ Reaches(x)
  BY DEF InstancesInv, SeedFrom, SetsOK, FoundSoFar, Fixpoint, Reached2
<1>2. CASE ~Composes(x)
  BY <1>1, <1>2, ComposeProps DEF SeedFrom
<1>3. CASE Composes(x)
  <2>1. /\ discovered' = discovered \cup MembersOf(Routed(x))
        /\ frontier' = frontier \cup (Routed(x) \ seen) /\ seen' = seen \cup Routed(x) /\ work' = work \ {x}
        /\ UNCHANGED <<generics, asked, stage, recorded, next, transitive>>
    BY <1>3 DEF SeedFrom, Compose, Routes
  <2>2. UNCHANGED generics /\ UNCHANGED <<insts, splices, monos>>
    BY <2>1 DEF recorded
  <2>3. Composed' \subseteq Composed \cup {x} /\ Owed' = Owed /\ Owed = monos
    BY <1>1, <2>1, <2>2 DEF Composed, Owed
  <2>4. Accounted'
    <3>1. insts' \subseteq seen' /\ seen' = insts' \cup frontier' \cup next' \cup transitive'
      BY <1>1, <2>1, <2>2 DEF Accounted, Searching
    <3>2. \A y \in Composed' : Routed(y) \subseteq seen'
      BY <1>1, <2>1, <2>3 DEF Accounted, Searching
    <3>3. ASSUME NEW y \in seen' \cup splices' \cup monos' PROVE Resolved(y) \subseteq seen' \cup discovered' \cup Owed'
      <4>1. CASE y \in seen \cup splices \cup monos
        BY <1>1, <2>1, <2>3, <4>1 DEF Accounted, Searching
      <4>2. CASE y \in Routed(x)
        BY <2>1, <4>2 DEF MembersOf
      <4> QED BY <2>1, <2>2, <4>1, <4>2
    <3> QED BY <1>1, <2>1, <2>2, <3>1, <3>2, <3>3, Static DEF Accounted, Searching
  <2>5. Sound'
    BY <1>1, <1>3, <2>1, <2>2, <2>3, ComposeProps, Static DEF Sound, Searching
  <2>6. \A y \in Fixpoint' : y \in AnyInstance /\ Walked(y[1]) /\ Reaches(y)
    <3>1. \A y \in Fixpoint' : y \in Fixpoint \/ y \in Routed(x) \/ y \in MembersOf(Routed(x))
      BY <2>1 DEF Fixpoint
    <3> QED BY <1>1, <3>1, ComposeProps DEF SetsOK, Reached2, FoundSoFar
  <2>7. Lowerable'
    BY <1>1, <2>1 DEF Lowerable
  <2> QED BY <1>1, <2>1, <2>4, <2>5, <2>6, <2>7, FixpointKeeps
<1> QED BY <1>2, <1>3

LEMMA NextSeedsKeeps ==
  ASSUME InstancesInv, NextSeeds
  PROVE  InstancesInv'
<1>1. /\ GenericsOK /\ SetsOK /\ Accounted /\ Sound /\ Reached2 /\ stage \in {"insts", "splices", "extra"} /\ asked = {}
      /\ work = {}
  BY DEF InstancesInv, NextSeeds, SetsOK
<1>2. UNCHANGED <<generics, asked, recorded, seen, frontier, next, discovered, transitive>>
  BY DEF NextSeeds
<1>3. UNCHANGED generics /\ UNCHANGED <<insts, splices, monos>>
  BY <1>2 DEF recorded
<1>4. \/ stage = "insts" /\ stage' = "splices" /\ work' = splices
      \/ stage = "splices" /\ stage' = "extra" /\ work' = monos
      \/ stage = "extra" /\ stage' = "work" /\ work' = work
  BY <1>1 DEF NextSeeds
<1>5. Composed' = Composed /\ Owed' = Owed
  BY <1>1, <1>2, <1>3, <1>4 DEF Composed, Owed
<1>6. Accounted' /\ Sound'
  BY <1>1, <1>2, <1>3, <1>4, <1>5, Static DEF Accounted, Sound, Searching
<1>7. \A y \in Fixpoint' : y \in FoundSoFar
  BY <1>2, <1>4 DEF Fixpoint, FoundSoFar
<1>8. \A y \in Fixpoint' : y \in AnyInstance /\ Walked(y[1]) /\ Reaches(y)
  BY <1>1, <1>7 DEF SetsOK, Reached2
<1>9. Lowerable'
  BY <1>4 DEF Lowerable
<1> QED BY <1>1, <1>2, <1>4, <1>6, <1>8, <1>9, FixpointKeeps

LEMMA ExtraKeeps ==
  ASSUME InstancesInv, NEW x \in work, Extra(x)
  PROVE  InstancesInv'
<1>1. /\ GenericsOK /\ SetsOK /\ Accounted /\ Sound /\ Reached2 /\ stage = "extra" /\ asked = {}
      /\ x \in AnyInstance /\ Reaches(x) /\ Walked(x[1])
  BY DEF InstancesInv, Extra, SetsOK, FoundSoFar, Fixpoint, Reached2
<1>2. CASE x \in seen
  <2>1. work' = work \ {x} /\ UNCHANGED <<generics, asked, stage, recorded, seen, frontier, next, discovered, transitive>>
    BY <1>2 DEF Extra
  <2>2. UNCHANGED generics /\ UNCHANGED <<insts, splices, monos>>
    BY <2>1 DEF recorded
  <2>3. Composed' = Composed /\ Owed = work /\ Owed' = work \ {x}
    BY <1>1, <2>1, <2>2 DEF Composed, Owed
  <2>4. seen \cup discovered \cup Owed \subseteq seen' \cup discovered' \cup Owed'
    BY <1>2, <2>1, <2>3
  <2>5. Accounted'
    <3>1. \A y \in seen \cup splices \cup monos : Resolved(y) \subseteq seen' \cup discovered' \cup Owed'
      BY <1>1, <2>4 DEF Accounted, Searching
    <3> QED BY <1>1, <2>1, <2>2, <2>3, <3>1, Static DEF Accounted, Searching
  <2>6. Sound' /\ Lowerable'
    BY <1>1, <2>1, <2>2, <2>3, Static DEF Sound, Searching, Lowerable
  <2>7. \A y \in Fixpoint' : y \in AnyInstance /\ Walked(y[1]) /\ Reaches(y)
    BY <1>1, <2>1 DEF Fixpoint, FoundSoFar, SetsOK, Reached2
  <2> QED BY <1>1, <2>1, <2>5, <2>6, <2>7, FixpointKeeps
<1>3. CASE x \notin seen /\ ~Composes(x)
  BY <1>1, <1>3, ComposeProps DEF Extra
<1>4. CASE x \notin seen /\ Composes(x)
  <2>1. /\ discovered' = discovered \cup MembersOf(Routed(x))
        /\ frontier' = frontier \cup (Routed(x) \ (seen \cup {x})) \cup {x} /\ seen' = seen \cup Routed(x) \cup {x}
        /\ work' = work \ {x} /\ UNCHANGED <<generics, asked, stage, recorded, next, transitive>>
    BY <1>4 DEF Extra, Compose, Routes
  <2>2. UNCHANGED generics /\ UNCHANGED <<insts, splices, monos>>
    BY <2>1 DEF recorded
  <2>3. Composed' = Composed /\ Owed = work /\ Owed' = work \ {x}
    BY <1>1, <2>1, <2>2 DEF Composed, Owed
  <2>4. Satisfied(x) /\ Resolved(x) \subseteq seen \cup discovered \cup Owed
    BY <1>1 DEF Accounted, Sound, Searching
  <2>5. seen \cup discovered \cup Owed \subseteq seen' \cup discovered' \cup Owed'
    BY <2>1, <2>3
  <2>6. Accounted'
    <3>1. insts' \subseteq seen' /\ seen' = insts' \cup frontier' \cup next' \cup transitive'
      BY <1>1, <2>1, <2>2 DEF Accounted, Searching
    <3>2. \A y \in Composed' : Routed(y) \subseteq seen'
      BY <1>1, <2>1, <2>3 DEF Accounted, Searching
    <3>3. ASSUME NEW y \in seen' \cup splices' \cup monos' PROVE Resolved(y) \subseteq seen' \cup discovered' \cup Owed'
      <4>1. CASE y \in seen \cup splices \cup monos
        BY <1>1, <2>5, <4>1 DEF Accounted, Searching
      <4>2. CASE y \in Routed(x)
        BY <2>1, <4>2 DEF MembersOf
      <4>3. CASE y = x
        BY <2>4, <2>5, <4>3
      <4> QED BY <2>1, <2>2, <4>1, <4>2, <4>3
    <3> QED BY <1>1, <2>1, <2>2, <3>1, <3>2, <3>3, Static DEF Accounted, Searching
  <2>7. Sound' /\ Lowerable'
    BY <1>1, <1>4, <2>1, <2>2, <2>3, <2>4, ComposeProps, Static DEF Sound, Searching, Lowerable
  <2>8. \A y \in Fixpoint' : y \in AnyInstance /\ Walked(y[1]) /\ Reaches(y)
    <3>1. \A y \in Fixpoint' : y \in Fixpoint \/ y \in Routed(x) \/ y \in MembersOf(Routed(x)) \/ y = x
      BY <2>1 DEF Fixpoint
    <3> QED BY <1>1, <3>1, ComposeProps DEF SetsOK, Reached2, FoundSoFar
  <2> QED BY <1>1, <2>1, <2>6, <2>7, <2>8, FixpointKeeps
<1> QED BY <1>2, <1>3, <1>4

LEMMA WorkKeeps ==
  ASSUME InstancesInv, NEW x \in frontier, Work(x)
  PROVE  InstancesInv'
<1>1. /\ GenericsOK /\ SetsOK /\ Accounted /\ Sound /\ Reached2 /\ stage = "work" /\ asked = {}
      /\ x \in AnyInstance /\ Reaches(x) /\ Walked(x[1])
  BY DEF InstancesInv, Work, SetsOK, FoundSoFar, Fixpoint, Reached2
<1>2. CASE ~Composes(x)
  BY <1>1, <1>2, ComposeProps DEF Work
<1>3. CASE Composes(x)
  <2>1. /\ discovered' = discovered \cup MembersOf(Routed(x))
        /\ next' = next \cup (Routed(x) \ seen) /\ seen' = seen \cup Routed(x)
        /\ frontier' = frontier \ {x} /\ transitive' = transitive \cup {x}
        /\ UNCHANGED <<generics, asked, stage, work, recorded>>
    BY <1>3 DEF Work, Compose, Routes
  <2>2. UNCHANGED generics /\ UNCHANGED <<insts, splices, monos>>
    BY <2>1 DEF recorded
  <2>3. Composed' \subseteq Composed \cup {x} /\ Owed' = {} /\ Owed = {}
    BY <1>1, <2>1, <2>2 DEF Composed, Owed
  <2>4. Accounted'
    <3>1. insts' \subseteq seen' /\ seen' = insts' \cup frontier' \cup next' \cup transitive'
      BY <1>1, <2>1, <2>2 DEF Accounted, Searching
    <3>2. \A y \in Composed' : Routed(y) \subseteq seen'
      BY <1>1, <2>1, <2>3 DEF Accounted, Searching
    <3>3. ASSUME NEW y \in seen' \cup splices' \cup monos' PROVE Resolved(y) \subseteq seen' \cup discovered' \cup Owed'
      <4>1. CASE y \in seen \cup splices \cup monos
        BY <1>1, <2>1, <2>3, <4>1 DEF Accounted, Searching
      <4>2. CASE y \in Routed(x)
        BY <2>1, <4>2 DEF MembersOf
      <4> QED BY <2>1, <2>2, <4>1, <4>2
    <3> QED BY <1>1, <2>1, <2>2, <3>1, <3>2, <3>3, Static DEF Accounted, Searching
  <2>5. Sound' /\ Lowerable'
    BY <1>1, <1>3, <2>1, <2>2, <2>3, ComposeProps, Static DEF Sound, Searching, Lowerable
  <2>6. \A y \in Fixpoint' : y \in AnyInstance /\ Walked(y[1]) /\ Reaches(y)
    <3>1. \A y \in Fixpoint' : y \in Fixpoint \/ y \in Routed(x) \/ y \in MembersOf(Routed(x)) \/ y = x
      BY <2>1 DEF Fixpoint
    <3> QED BY <1>1, <3>1, ComposeProps DEF SetsOK, Reached2, FoundSoFar
  <2> QED BY <1>1, <2>1, <2>4, <2>5, <2>6, FixpointKeeps
<1> QED BY <1>2, <1>3

\* what a step that only passes instances on from one set to another keeps
LEMMA LayersKeep ==
  ASSUME InstancesInv, EndLayer \/ TakeDiscovered \/ EndDrain
  PROVE  InstancesInv'
<1>1. /\ GenericsOK /\ SetsOK /\ Accounted /\ Sound /\ Reached2 /\ stage \in {"work", "drain"} /\ asked = {}
  BY DEF InstancesInv, EndLayer, TakeDiscovered, EndDrain, SetsOK
<1>2. UNCHANGED <<generics, asked, recorded, seen, transitive>> /\ UNCHANGED <<insts, splices, monos>>
  BY DEF EndLayer, TakeDiscovered, EndDrain, recorded
<1>3. /\ \/ stage = "work" /\ stage' = "work" /\ frontier = {} /\ frontier' = next /\ next' = {}
            /\ work' = work /\ discovered' = discovered
         \/ stage = "work" /\ stage' = "drain" /\ frontier = {} /\ next = {} /\ work' = discovered /\ discovered' = {}
            /\ frontier' = frontier /\ next' = next
         \/ stage = "drain" /\ work = {} /\ stage' = (IF frontier = {} THEN "done" ELSE "work")
            /\ UNCHANGED <<work, frontier, next, discovered>>
  BY DEF EndLayer, TakeDiscovered, EndDrain
<1>4. Composed' = Composed /\ Composed = transitive \cup insts \cup splices
      /\ seen \cup discovered \cup Owed \subseteq seen' \cup discovered' \cup Owed'
  BY <1>1, <1>2, <1>3 DEF Composed, Owed
<1>5. Accounted'
  <2>1. \A y \in seen \cup splices \cup monos : Resolved(y) \subseteq seen' \cup discovered' \cup Owed'
    BY <1>1, <1>4 DEF Accounted, Searching
  <2>2. Searching' => seen' = insts' \cup frontier' \cup next' \cup transitive'
    BY <1>1, <1>2, <1>3 DEF Accounted, Searching
  <2> QED BY <1>1, <1>2, <1>3, <1>4, <2>1, <2>2, Static DEF Accounted, Searching
<1>6. Sound' /\ Lowerable'
  <2>1. CASE stage' # "done"
    BY <1>1, <1>2, <1>3, <1>4, <2>1, Static DEF Sound, Lowerable, Searching
  <2>2. CASE stage' = "done"
    <3>1. stage = "drain" /\ work = {} /\ frontier = {} /\ discovered = {} /\ next = {} /\ Owed = {}
      BY <1>1, <1>3, <2>2 DEF Accounted, Searching, Owed
    <3>2. Emitted' = transitive \cup insts \cup splices /\ seen = insts \cup transitive /\ Dispatchable' = seen
      BY <1>1, <1>2, <3>1 DEF Accounted, Searching, Emitted, Dispatchable
    <3>3. \A y \in Emitted' : Satisfied(y) /\ Spliceable(y) /\ Routed(y) \subseteq Emitted' /\ Resolved(y) \subseteq Dispatchable'
      BY <1>1, <1>4, <3>1, <3>2 DEF Accounted, Sound, Searching
    <3> QED BY <1>1, <1>2, <2>2, <3>3, Static DEF Sound, Lowerable, Searching
  <2> QED BY <2>1, <2>2
<1>7. \A y \in Fixpoint' : y \in AnyInstance /\ Walked(y[1]) /\ Reaches(y)
  <2>1. Fixpoint' \subseteq Fixpoint
    BY <1>2, <1>3 DEF Fixpoint
  <2> QED BY <1>1, <2>1 DEF SetsOK, Reached2, FoundSoFar
<1> QED BY <1>1, <1>2, <1>3, <1>5, <1>6, <1>7, FixpointKeeps

LEMMA DrainKeeps ==
  ASSUME InstancesInv, NEW x \in work, Drain(x)
  PROVE  InstancesInv'
<1>1. /\ GenericsOK /\ SetsOK /\ Accounted /\ Sound /\ Reached2 /\ stage = "drain" /\ asked = {}
      /\ x \in AnyInstance /\ Reaches(x) /\ Walked(x[1])
  BY DEF InstancesInv, Drain, SetsOK, FoundSoFar, Fixpoint, Reached2
<1>2. CASE x \in seen
  <2>1. work' = work \ {x} /\ UNCHANGED <<generics, asked, stage, recorded, seen, frontier, next, discovered, transitive>>
    BY <1>2 DEF Drain
  <2>2. UNCHANGED generics /\ UNCHANGED <<insts, splices, monos>>
    BY <2>1 DEF recorded
  <2>3. Composed' = Composed /\ Owed = work /\ Owed' = work \ {x}
    BY <1>1, <2>1, <2>2 DEF Composed, Owed
  <2>4. seen \cup discovered \cup Owed \subseteq seen' \cup discovered' \cup Owed'
    BY <1>2, <2>1, <2>3
  <2>5. Accounted'
    <3>1. \A y \in seen \cup splices \cup monos : Resolved(y) \subseteq seen' \cup discovered' \cup Owed'
      BY <1>1, <2>4 DEF Accounted, Searching
    <3> QED BY <1>1, <2>1, <2>2, <2>3, <3>1, Static DEF Accounted, Searching
  <2>6. Sound' /\ Lowerable'
    BY <1>1, <2>1, <2>2, <2>3, Static DEF Sound, Searching, Lowerable
  <2>7. \A y \in Fixpoint' : y \in AnyInstance /\ Walked(y[1]) /\ Reaches(y)
    BY <1>1, <2>1 DEF Fixpoint, FoundSoFar, SetsOK, Reached2
  <2> QED BY <1>1, <2>1, <2>5, <2>6, <2>7, FixpointKeeps
<1>3. CASE x \notin seen /\ ~Satisfied(x)
  BY <1>1, <1>3, RefusedKeeps DEF Drain
<1>4. CASE x \notin seen /\ Satisfied(x)
  <2>1. /\ discovered' = discovered \cup Resolved(x) /\ frontier' = frontier \cup {x} /\ seen' = seen \cup {x}
        /\ work' = work \ {x} /\ UNCHANGED <<generics, asked, stage, recorded, next, transitive>>
    BY <1>4 DEF Drain
  <2>2. UNCHANGED generics /\ UNCHANGED <<insts, splices, monos>>
    BY <2>1 DEF recorded
  <2>3. Composed' = Composed /\ Owed = work /\ Owed' = work \ {x}
    BY <1>1, <2>1, <2>2 DEF Composed, Owed
  <2>4. seen \cup discovered \cup Owed \subseteq seen' \cup discovered' \cup Owed'
    BY <2>1, <2>3
  <2>5. Accounted'
    <3>1. \A y \in seen \cup splices \cup monos : Resolved(y) \subseteq seen' \cup discovered' \cup Owed'
      BY <1>1, <2>4 DEF Accounted, Searching
    <3>2. insts' \subseteq seen' /\ seen' = insts' \cup frontier' \cup next' \cup transitive'
      BY <1>1, <2>1, <2>2 DEF Accounted, Searching
    <3>3. \A y \in Composed' : Routed(y) \subseteq seen'
      BY <1>1, <2>1, <2>3 DEF Accounted, Searching
    <3> QED BY <1>1, <2>1, <2>2, <2>3, <3>1, <3>2, <3>3, Static DEF Accounted, Searching
  <2>6. Sound' /\ Lowerable'
    BY <1>1, <1>4, <2>1, <2>2, <2>3, Static DEF Sound, Searching, Lowerable
  <2>7. \A y \in Fixpoint' : y \in AnyInstance /\ Walked(y[1]) /\ Reaches(y)
    <3>1. \A y \in Fixpoint' : y \in Fixpoint \/ y \in Resolved(x) \/ y = x
      BY <2>1 DEF Fixpoint
    <3> QED BY <1>1, <3>1, ResolvedTyped, ReachesOn DEF SetsOK, Reached2, FoundSoFar
  <2> QED BY <1>1, <2>1, <2>5, <2>6, <2>7, FixpointKeeps
<1> QED BY <1>2, <1>3, <1>4

-----------------------------------------------------------------------------
(* The results.                                                            *)

\* The inductive invariant holds of every program.
THEOREM InstancesInvariance == InstancesSpec => []InstancesInv
<1>1. InstancesInv /\ [InstancesNext]_discovery => InstancesInv'
  <2> SUFFICES ASSUME InstancesInv, [InstancesNext]_discovery PROVE InstancesInv'
    OBVIOUS
  <2>1. CASE UNCHANGED discovery
    <3>1. UNCHANGED generics
          /\ UNCHANGED <<stage, asked, work, insts, splices, monos, seen, frontier, next, discovered, transitive>>
      BY <2>1 DEF discovery, recorded
    <3>2. FoundSoFar' = FoundSoFar /\ Fixpoint' = Fixpoint /\ Calling' = Calling /\ Emitted' = Emitted /\ Dispatchable' = Dispatchable
          /\ Composed' = Composed /\ Owed' = Owed /\ Searching' = Searching
      BY <3>1 DEF FoundSoFar, Fixpoint, Calling, Emitted, Dispatchable, Composed, Owed, Searching
    <3>3. GenericsOK' /\ SetsOK' /\ Accounted' /\ Lowerable' /\ Sound' /\ RefusedForIt'
      BY <3>1, <3>2, Static DEF InstancesInv, SetsOK, Accounted, Lowerable, Sound, RefusedForIt
    <3>4. Reached2'
      <4>1. PICK X : Walks(X)
        BY DEF InstancesInv, Reached2
      <4>2. Walks(X)'
        BY <3>1, <3>2, <4>1, Static DEF Walks
      <4> QED BY <3>1, <3>2, <4>2, Static DEF InstancesInv, Reached2
    <3> QED BY <3>3, <3>4 DEF InstancesInv
  <2>2. CASE InstancesNext
    BY <2>2, RecordCallKeeps, SpliceCallKeeps, BuildSeedsKeeps, SeedFromKeeps, ExtraKeeps, DrainKeeps, NextSeedsKeeps,
       LayersKeep, WorkKeeps DEF InstancesNext
  <2> QED BY <2>1, <2>2
<1> QED BY <1>1, InstancesInitHolds, PTL DEF InstancesSpec

\* Whatever is emitted finds each symbol it calls.
THEOREM EverySymbolExists == InstancesSpec => []Lowerable
<1>1. InstancesInv => Lowerable
  BY DEF InstancesInv
<1> QED BY <1>1, InstancesInvariance, PTL

\* The functions emitted are what an execution calls, and its inline words
\* walked in place, whatever its length: each of them, and no other.
EmittedIsWhatRuns ==
  stage = "done" => /\ Emitted \subseteq Runs /\ {x \in Runs : x[1] \notin inline} \subseteq Emitted
\* Nothing runs at a type without the impl its bound asks for, and nothing else
\* has a program refused, but a splice that nothing recorded.
BoundsOfWhatRuns ==
  /\ stage = "done" => \A x \in Runs : Satisfied(x)
  /\ stage = "refused" => \E x \in Runs : ~Satisfied(x) \/ ~Spliceable(x)

\* what is left at the end is closed: nothing else runs
LEMMA DoneIsEnough ==
  ASSUME InstancesInv, stage = "done"
  PROVE  \E S : /\ Closed(S) /\ Emitted \subseteq S /\ \A x \in S : Satisfied(x) /\ (x \in Emitted \/ x[1] \in inline)
<1>1. PICK X : Walks(X)
  BY DEF InstancesInv, Reached2
<1> DEFINE I == {y \in AnyInstance : ~Walked(y[1]) /\ \E x \in Emitted : y \in BodyCalls(x)}
           S == Emitted \cup X \cup I
<1>2. GenericsOK /\ SetsOK /\ Lowerable /\ Sound /\ Calling = {}
  BY DEF InstancesInv, SetsOK, Calling
<1>3. insts \cup splices \subseteq Emitted /\ Dispatchable \subseteq Emitted /\ Emitted \subseteq FoundSoFar
  BY DEF Emitted, Dispatchable, FoundSoFar, Fixpoint
<1>4. ASSUME NEW y \in I PROVE Satisfied(y) /\ BodyCalls(y) = {} /\ Resolved(y) = {} /\ y[1] \in inline
  <2>1. PICK x \in Emitted : y \in BodyCalls(x)
    OBVIOUS
  <2>2. y[1] \in inline /\ y[1] \notin bounded /\ arrow[y[1]] = "no" /\ y \in AnyInstance
    BY DEF Walked, UserBounded
  <2>3. calls[y[1]] = {}
    BY <1>2, <2>1 DEF Sound, Spliceable
  <2> QED BY <1>2, <2>2, <2>3, ResolvedTyped DEF Satisfied, BodyCalls
<1>5. ASSUME NEW x \in Emitted PROVE BodyCalls(x) \cup Resolved(x) \subseteq S /\ Satisfied(x)
  <2>1. x \in AnyInstance
    BY <1>2, <1>3 DEF SetsOK
  <2>2. Routed(x) \subseteq Emitted /\ Resolved(x) \subseteq Emitted /\ Satisfied(x)
    BY <1>2, <1>3 DEF Lowerable, Sound
  <2>3. ASSUME NEW y \in BodyCalls(x), ~Walked(y[1]) PROVE y \in I
    BY <1>2, <2>1, <2>3, BodyCallsTyped
  <2> QED BY <2>2, <2>3 DEF Routed
<1>6. ASSUME NEW x \in X PROVE BodyCalls(x) \cup Resolved(x) \subseteq S /\ Satisfied(x) /\ x[1] \in inline
  BY <1>1, <1>2, <1>3 DEF Walks
<1>7. main \subseteq S
  BY <1>1, <1>2, <1>3 DEF Walks
<1> HIDE DEF I
<1>8. Closed(S)
  BY <1>4, <1>5, <1>6, <1>7 DEF Closed
<1>9. Emitted \subseteq S /\ \A x \in S : Satisfied(x) /\ (x \in Emitted \/ x[1] \in inline)
  BY <1>4, <1>5, <1>6
<1> HIDE DEF S
<1> QED BY <1>8, <1>9

\* The work list finds what an execution needs: each instance, and no other.
THEOREM EmittedExactly == InstancesSpec => []EmittedIsWhatRuns
<1>1. InstancesInv => EmittedIsWhatRuns
  <2> SUFFICES ASSUME InstancesInv, stage = "done"
               PROVE  Emitted \subseteq Runs /\ {x \in Runs : x[1] \notin inline} \subseteq Emitted
    BY DEF EmittedIsWhatRuns
  <2>1. Emitted \subseteq Runs
    BY DEF InstancesInv, SetsOK, Reached2, FoundSoFar, Fixpoint, Emitted, Runs
  <2>2. PICK S : Closed(S) /\ \A x \in S : x \in Emitted \/ x[1] \in inline
    BY DoneIsEnough
  <2> QED BY <2>1, <2>2 DEF Runs, Reaches
<1> QED BY <1>1, InstancesInvariance, PTL

\* No instance runs at a type without the impl its bound asks for.
THEOREM BoundsHoldOfAll == InstancesSpec => []BoundsOfWhatRuns
<1>1. InstancesInv => BoundsOfWhatRuns
  <2> SUFFICES ASSUME InstancesInv PROVE BoundsOfWhatRuns
    OBVIOUS
  <2>1. ASSUME stage = "done", NEW x \in Runs PROVE Satisfied(x)
    <3>1. PICK S : Closed(S) /\ \A y \in S : Satisfied(y)
      BY <2>1, DoneIsEnough
    <3> QED BY <3>1 DEF Runs, Reaches
  <2>2. ASSUME stage = "refused" PROVE \E x \in Runs : ~Satisfied(x) \/ ~Spliceable(x)
    BY <2>2 DEF InstancesInv, RefusedForIt, Runs
  <2> QED BY <2>1, <2>2 DEF BoundsOfWhatRuns
<1> QED BY <1>1, InstancesInvariance, PTL

-----------------------------------------------------------------------------
(* The pool of types, where no body gives a constructor's member an operand  *)
(* it built (`arrow` would then be "built").                                 *)

Written == {x[2] : x \in insts \cup splices \cup monos} \cup {c[2] : c \in UNION {calls[w] : w \in Words}}

\* a type in the pool is no deeper than one that is written
LEMMA PoolProps ==
  ASSUME GenericsOK, SetsOK, Slots = {}
  PROVE  Pool = UNION {{<<s[1], d>> : d \in 0..s[2]} : s \in Written}
<1>1. {w \in Words : arrow[w] = "built"} = {}
  BY DEF GenericsOK
<1>2. Cardinality({w \in Words : arrow[w] = "built"}) = 0
  BY <1>1, FS_EmptySet
<1>3. \A s \in Written : s[2] \in Nat
  BY InstancesAssumption DEF Written, GenericsOK, SetsOK, FoundSoFar, AnyInstance, AnyType, Supplied
<1> DEFINE built == Cardinality({w \in Words : arrow[w] = "built"})
<1>4. Pool = UNION {{<<s[1], d>> : d \in 0..(s[2] + built)} : s \in Written}
  BY DEF Pool, Written
<1>5. built = 0
  BY <1>2
<1> HIDE DEF built
<1>6. \A s \in Written : 0..(s[2] + built) = 0..s[2]
  BY <1>3, <1>5
<1>7. \A s \in Written : {<<s[1], d>> : d \in 0..(s[2] + built)} = {<<s[1], d>> : d \in 0..s[2]}
  BY <1>6
<1> QED BY <1>4, <1>7

LEMMA PoolHas ==
  ASSUME GenericsOK, SetsOK, Slots = {}
  PROVE  /\ \A s \in Written : s = <<s[1], s[2]>> => s \in Pool
         /\ \A t, d : t \in Pool /\ d \in Nat /\ d <= t[2] => <<t[1], d>> \in Pool
<1>1. Pool = UNION {{<<s[1], d>> : d \in 0..s[2]} : s \in Written}
  BY PoolProps
<1>2. \A s \in Written : s[2] \in Nat
  BY InstancesAssumption DEF Written, GenericsOK, SetsOK, FoundSoFar, AnyInstance, AnyType, Supplied
<1>3. ASSUME NEW s \in Written, s = <<s[1], s[2]>> PROVE s \in Pool
  BY <1>1, <1>2, <1>3
<1>4. ASSUME NEW t \in Pool, NEW d \in Nat, d <= t[2] PROVE <<t[1], d>> \in Pool
  <2>1. PICK s \in Written : t \in {<<s[1], e>> : e \in 0..s[2]}
    BY <1>1
  <2>2. d \in 0..s[2] /\ t[1] = s[1]
    BY <1>2, <1>4, <2>1
  <2> QED BY <1>1, <2>2
<1> QED BY <1>3, <1>4

\* the calls and the trait calls of a body are at types of the pool if it is
LEMMA PoolClosed ==
  ASSUME GenericsOK, SetsOK, Slots = {}, NEW x \in AnyInstance, x[2] \in Pool
  PROVE  /\ Walked(x[1]) => \A y \in BodyCalls(x) : y[2] \in Pool
         /\ \A y \in Resolved(x) : y[2] \in Pool
<1> DEFINE t == x[2]
<1>1. x[1] \in Words /\ t[1] \in Bases /\ t[2] \in Nat /\ t = <<t[1], t[2]>>
  BY DEF AnyInstance, AnyType
<1>2. ASSUME Walked(x[1]), NEW c \in calls[x[1]] PROVE Ground(c[2], t) \in Pool
  <2>1. c[2] \in Written /\ c[2][2] \in Nat /\ c[2] = <<c[2][1], c[2][2]>>
    BY <1>1, InstancesAssumption DEF Written, GenericsOK, Supplied
  <2>2. CASE c[2][1] = "var"
    <3>1. c[2][2] = 0
      BY <1>1, <1>2, <2>2 DEF GenericsOK, Lawful
    <3>2. Ground(c[2], t) = t
      BY <1>1, <2>2, <3>1 DEF Ground
    <3> QED BY <3>2
  <2>3. CASE c[2][1] # "var"
    BY <2>1, <2>3, PoolHas DEF Ground
  <2> QED BY <2>2, <2>3
<1>3. ASSUME Walked(x[1]), NEW y \in BodyCalls(x) PROVE y[2] \in Pool
  BY <1>2, <1>3 DEF BodyCalls
<1>4. ASSUME NEW y \in Dispatched(t) PROVE y[2] \in Pool
  <2>1. CASE Winner(t) = "box"
    <3>1. t[2] > 0
      BY <1>1, <2>1, InstancesAssumption DEF Winner
    <3>2. y[2] = <<t[1], t[2] - 1>> /\ t[2] - 1 \in Nat /\ t[2] - 1 <= t[2]
      BY <1>1, <1>4, <2>1, <3>1 DEF Dispatched
    <3> QED BY <3>2, PoolHas
  <2>2. CASE Winner(t) # "box"
    BY <1>4, <2>2 DEF Dispatched
  <2> QED BY <2>1, <2>2
<1>5. ASSUME NEW y \in Resolved(x) PROVE y[2] \in Pool
  <2>1. arrow[x[1]] # "built"
    BY <1>1 DEF GenericsOK
  <2>2. y \in Dispatched(t) \/ y = <<"opt", t>>
    BY <1>5, <2>1 DEF Resolved
  <2> QED BY <1>4, <2>2
<1> QED BY <1>3, <1>5

PoolInv == \A x \in FoundSoFar : x[2] \in Pool

\* the pool stays what it is once the concrete bodies have been walked
LEMMA PoolStays ==
  ASSUME UNCHANGED <<generics, insts, splices, monos>>
  PROVE  Pool' = Pool
BY DEF Pool, generics

\* what is found of an instance has its types from the pool too
LEMMA FoundInPool ==
  ASSUME InstancesInv, PoolInv, Slots = {}, NEW x \in FoundSoFar
  PROVE  \A y \in Routed(x) \cup MembersOf(Routed(x)) \cup Resolved(x) : y[2] \in Pool
<1>1. GenericsOK /\ SetsOK /\ x \in AnyInstance /\ Walked(x[1]) /\ x[2] \in Pool
  BY DEF InstancesInv, SetsOK, PoolInv
<1>2. \A y \in Routed(x) : y[2] \in Pool /\ y \in AnyInstance
  BY <1>1, BodyCallsTyped, PoolClosed
<1>3. \A y \in MembersOf(Routed(x)) : y[2] \in Pool
  BY <1>1, <1>2, PoolClosed DEF MembersOf
<1>4. \A y \in Resolved(x) : y[2] \in Pool
  BY <1>1, PoolClosed
<1> QED BY <1>2, <1>3, <1>4

\* what a step of the fixpoint finds
LEMMA FixpointFinds ==
  ASSUME InstancesInv, InstancesNext, stage # "check" \/ BuildSeeds
  PROVE  /\ UNCHANGED <<generics, insts, splices, monos>>
         /\ \A y \in Fixpoint' : y \in FoundSoFar \/ \E x \in FoundSoFar : y \in Routed(x) \cup MembersOf(Routed(x)) \cup Resolved(x)
<1>1. CASE BuildSeeds
  <2>1. UNCHANGED <<generics, insts, splices, monos>> /\ UNCHANGED <<frontier, next, transitive>>
    BY <1>1 DEF BuildSeeds, RefuseProgram, recorded
  <2>2. work' \in {work, insts} /\ seen' \in {seen, insts} /\ discovered' \in {discovered, MembersOf(monos)}
    BY <1>1 DEF BuildSeeds, Seeded, RefuseProgram, recorded
  <2>3. \A y \in MembersOf(monos) : \E x \in FoundSoFar : y \in Resolved(x)
    BY DEF MembersOf, FoundSoFar
  <2>4. ASSUME NEW y \in Fixpoint' PROVE y \in FoundSoFar \/ y \in MembersOf(monos)
    BY <2>1, <2>2, <2>4 DEF Fixpoint, FoundSoFar
  <2> QED BY <2>1, <2>3, <2>4
<1>2. ASSUME NEW x \in work, SeedFrom(x) \/ Extra(x) \/ Drain(x)
      PROVE  /\ UNCHANGED <<generics, insts, splices, monos>>
             /\ \A y \in Fixpoint' : y \in Fixpoint \/ y \in Routed(x) \cup MembersOf(Routed(x)) \cup Resolved(x)
  <2>1. CASE SeedFrom(x)
    BY <2>1 DEF SeedFrom, RefuseProgram, Compose, Routes, Fixpoint, recorded
  <2>2. CASE Extra(x)
    BY <2>2 DEF Extra, RefuseProgram, Compose, Routes, Fixpoint, recorded
  <2>3. CASE Drain(x)
    BY <2>3 DEF Drain, RefuseProgram, Fixpoint, recorded
  <2> QED BY <1>2, <2>1, <2>2, <2>3
<1>3. ASSUME NEW x \in frontier, Work(x)
      PROVE  /\ UNCHANGED <<generics, insts, splices, monos>>
             /\ \A y \in Fixpoint' : y \in Fixpoint \/ y \in Routed(x) \cup MembersOf(Routed(x))
  BY <1>3 DEF Work, RefuseProgram, Compose, Routes, Fixpoint, recorded
<1>4. CASE NextSeeds \/ EndLayer \/ TakeDiscovered \/ EndDrain
  <2>1. UNCHANGED <<generics, insts, splices, monos>>
    BY <1>4 DEF NextSeeds, EndLayer, TakeDiscovered, EndDrain, recorded
  <2>2. Fixpoint' \subseteq FoundSoFar
    <3>1. CASE NextSeeds
      <4>1. /\ work' \in {work, splices, monos}
            /\ UNCHANGED <<seen, frontier, next, discovered, transitive>>
        BY <3>1 DEF NextSeeds
      <4> QED BY <4>1 DEF Fixpoint, FoundSoFar
    <3>2. CASE EndLayer
      BY <3>2 DEF EndLayer, Fixpoint, FoundSoFar
    <3>3. CASE TakeDiscovered
      BY <3>3 DEF TakeDiscovered, Fixpoint, FoundSoFar
    <3>4. CASE EndDrain
      BY <3>4 DEF EndDrain, Fixpoint, FoundSoFar
    <3> QED BY <1>4, <3>1, <3>2, <3>3, <3>4
  <2> QED BY <2>1, <2>2
<1>5. \A x \in asked : ~(RecordCall(x) \/ SpliceCall(x)) \/ BuildSeeds
  BY DEF RecordCall, SpliceCall
<1> QED BY <1>1, <1>2, <1>3, <1>4, <1>5 DEF InstancesNext, FoundSoFar, Fixpoint

Walking == stage = "check"

\* Types do not grow: what is found is at a type of the pool.
THEOREM TypesDoNotGrow == ASSUME Slots = {} PROVE InstancesSpec => []TypesFromPool
<1>1. InstancesInv /\ Walking => PoolInv
  <2> SUFFICES ASSUME InstancesInv, Walking, NEW x \in FoundSoFar PROVE x[2] \in Pool
    BY DEF PoolInv
  <2>1. GenericsOK /\ SetsOK /\ Fixpoint = {}
    BY DEF InstancesInv, SetsOK, Walking
  <2>2. x \in insts \cup splices \cup monos /\ x \in AnyInstance
    BY <2>1 DEF FoundSoFar, SetsOK
  <2>3. x[2] \in Written /\ x[2] = <<x[2][1], x[2][2]>>
    BY <2>2 DEF Written, AnyInstance, AnyType
  <2> QED BY <2>1, <2>3, PoolHas
<1>2. InstancesInv /\ PoolInv /\ [InstancesNext]_discovery => PoolInv' \/ Walking'
  <2> SUFFICES ASSUME InstancesInv, PoolInv, [InstancesNext]_discovery, ~Walking' PROVE PoolInv'
    OBVIOUS
  <2>1. CASE UNCHANGED discovery
    <3>1. UNCHANGED <<generics, insts, splices, monos>> /\ FoundSoFar' = FoundSoFar
      BY <2>1 DEF discovery, recorded, FoundSoFar, Fixpoint
    <3> QED BY <3>1, PoolStays DEF PoolInv
  <2>2. CASE InstancesNext /\ (stage # "check" \/ BuildSeeds)
    <3>1. UNCHANGED <<generics, insts, splices, monos>> /\ Pool' = Pool
      BY <2>2, FixpointFinds, PoolStays
    <3>2. \A y \in FoundSoFar' : y \in FoundSoFar \/ y \in Fixpoint'
      BY <3>1 DEF FoundSoFar
    <3>3. \A y \in Fixpoint' : y[2] \in Pool
      BY <2>2, FixpointFinds, FoundInPool DEF PoolInv
    <3> QED BY <3>1, <3>2, <3>3 DEF PoolInv
  <2>3. CASE InstancesNext /\ stage = "check" /\ ~BuildSeeds
    <3>1. \E c \in asked : RecordCall(c) \/ SpliceCall(c)
      BY <2>3 DEF InstancesNext, SeedFrom, Extra, Drain, NextSeeds, EndLayer, TakeDiscovered, EndDrain, Work
    <3>2. stage' = "refused" /\ UNCHANGED <<generics, recorded>> /\ Fixpoint' = Fixpoint
      BY <2>3, <3>1 DEF RecordCall, SpliceCall, RefuseProgram, Walking, Fixpoint
    <3>3. UNCHANGED <<generics, insts, splices, monos>> /\ FoundSoFar' = FoundSoFar
      BY <3>2 DEF recorded, FoundSoFar
    <3> QED BY <3>3, PoolStays DEF PoolInv
  <2> QED BY <2>1, <2>2, <2>3
<1>3. PoolInv => TypesFromPool
  BY DEF PoolInv, TypesFromPool, FoundSoFar, Fixpoint
<1>4. InstancesInit => InstancesInv /\ Walking
  BY InstancesInitHolds DEF InstancesInit, Walking
<1> QED BY <1>1, <1>2, <1>3, <1>4, InstancesInvariance, PTL DEF InstancesSpec

================================================================================
