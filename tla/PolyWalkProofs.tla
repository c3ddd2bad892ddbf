--------------------------- MODULE PolyWalkProofs ---------------------------
(* Proofs about PolyWalk: for every set of names, inputs and callees.        *)
EXTENDS PolyWalk, SequenceTheorems, FiniteSetTheorems, NaturalsInduction, WellFoundedInduction, TLAPS

(* What is held: the values of the stack and of the locals that are not      *)
(* spent, by place.                                                          *)

InSlot(i) == <<"slot", i>>
InName(n) == <<"name", n>>
HeldPlaces(e) == {InSlot(i) : i \in DOMAIN e.vals} \cup {InName(n) : n \in Bound(e) \ e.spent}
Held(e) == [p \in HeldPlaces(e) |-> IF p[1] = "slot" THEN e.vals[p[2]] ELSE e.env[p[2]]]

\* a reference into the body, and the record there must be of it
Refers(v) == IsRef(v.slot) /\ v.from # None
RecordOf(v) == [place |-> v.from, mutable |-> v.slot.kind = "mut"]

\* linear values are alive, each in one place, and nothing else is alive
LinearAlive(H, alive) == \A p \in DOMAIN H : Linear(H[p]) => H[p].at \in alive
LinearApart(H) == \A p, q \in DOMAIN H : p # q /\ Linear(H[p]) /\ Linear(H[q]) => H[p].at # H[q].at
AllHeld(H, alive) == \A a \in alive : \E p \in DOMAIN H : Linear(H[p]) /\ H[p].at = a
\* references are recorded, a mutable one is the only one of its place, and
\* what they refer to is in its local
Recorded(H, records) == \A p \in DOMAIN H : Refers(H[p]) => RecordOf(H[p]) \in records
Unshared(H) == \A p, q \in DOMAIN H :
  p # q /\ Refers(H[p]) /\ Refers(H[q]) /\ H[p].at = H[q].at /\ H[p].from = H[q].from => H[p].slot.kind # "mut"
RootedIn(H, p) == LET r == InName(H[p].from) IN r \in DOMAIN H /\ Linear(H[r]) /\ H[r].at = H[p].at
Rooted(H) == \A p \in DOMAIN H : Refers(H[p]) /\ H[p].slot.of # "agg" => RootedIn(H, p)
Good(H, alive, records) ==
  /\ LinearAlive(H, alive) /\ LinearApart(H) /\ AllHeld(H, alive)
  /\ Recorded(H, records) /\ Unshared(H) /\ Rooted(H)

-----------------------------------------------------------------------------
(* What happens to the values that are held.                                 *)

LEMMA PlacesDiffer ==
  /\ \A i, j : InSlot(i) = InSlot(j) => i = j
  /\ \A n, m : InName(n) = InName(m) => n = m
  /\ \A i, n : InSlot(i) # InName(n)
BY DEF InSlot, InName

\* each value was held, in one place; every linear one still is, and so is
\* what a reference refers to
Carry(H, G, phi, records) ==
  /\ \A p \in DOMAIN G : phi[p] \in DOMAIN H /\ G[p] = H[phi[p]]
  /\ \A p, q \in DOMAIN G : phi[p] = phi[q] => p = q
  /\ \A q \in DOMAIN H : Linear(H[q]) => \E p \in DOMAIN G : phi[p] = q
  /\ \A p \in DOMAIN G : Refers(G[p]) => RecordOf(G[p]) \in records
  /\ \A p \in DOMAIN G : Refers(G[p]) /\ G[p].slot.of # "agg" =>
       InName(G[p].from) \in DOMAIN G /\ phi[InName(G[p].from)] = InName(G[p].from)

LEMMA CarryKeeps ==
  ASSUME NEW H, NEW G, NEW phi, NEW alive, NEW records, NEW records2,
         Good(H, alive, records), Carry(H, G, phi, records2)
  PROVE  Good(G, alive, records2)
<1>1. /\ \A p \in DOMAIN G : phi[p] \in DOMAIN H /\ G[p] = H[phi[p]]
      /\ \A p, q \in DOMAIN G : phi[p] = phi[q] => p = q
  BY DEF Carry
<1>2. LinearAlive(G, alive) /\ LinearApart(G)
  BY <1>1 DEF Good, LinearAlive, LinearApart
<1>3. AllHeld(G, alive)
  BY <1>1 DEF Good, AllHeld, Carry
<1>4. Recorded(G, records2)
  BY DEF Carry, Recorded
<1>5. Unshared(G)
  BY <1>1 DEF Good, Unshared
<1>6. Rooted(G)
  <2> SUFFICES ASSUME NEW p \in DOMAIN G, Refers(G[p]), G[p].slot.of # "agg" PROVE RootedIn(G, p)
    BY DEF Rooted
  <2>1. RootedIn(H, phi[p])
    BY <1>1 DEF Good, Rooted
  <2>2. InName(G[p].from) \in DOMAIN G /\ phi[InName(G[p].from)] = InName(G[p].from)
    BY DEF Carry
  <2> QED BY <1>1, <2>1, <2>2 DEF RootedIn
<1> QED BY <1>2, <1>3, <1>4, <1>5, <1>6 DEF Good

\* one more place, the others as they were
More(H, G, p, v) == /\ p \notin DOMAIN H /\ DOMAIN G = DOMAIN H \cup {p} /\ G[p] = v
                    /\ \A q \in DOMAIN H : G[q] = H[q]

LEMMA MoreRooted ==
  ASSUME NEW H, NEW G, NEW p, NEW v, Rooted(H), More(H, G, p, v),
         Refers(v) /\ v.slot.of # "agg" => LET r == InName(v.from) IN r \in DOMAIN H /\ Linear(H[r]) /\ H[r].at = v.at
  PROVE  Rooted(G)
<1> SUFFICES ASSUME NEW q \in DOMAIN G, Refers(G[q]), G[q].slot.of # "agg" PROVE RootedIn(G, q)
  BY DEF Rooted
<1>1. DOMAIN G = DOMAIN H \cup {p} /\ G[p] = v /\ \A k \in DOMAIN H : G[k] = H[k]
  BY DEF More
<1>2. CASE q \in DOMAIN H
  <2>1. RootedIn(H, q)
    BY <1>1, <1>2 DEF Rooted
  <2> QED BY <1>1, <1>2, <2>1 DEF RootedIn
<1>3. CASE q = p
  BY <1>1, <1>3 DEF RootedIn
<1> QED BY <1>1, <1>2, <1>3

\* a new value: a linear one with storage of its own, or a Copy aggregate
LEMMA NewValueKeeps ==
  ASSUME NEW H, NEW G, NEW p, NEW v, NEW alive, NEW records,
         Good(H, alive, records), More(H, G, p, v), ~IsRef(v.slot), v.at \notin alive
  PROVE  Good(G, IF Linear(v) THEN alive \cup {v.at} ELSE alive, records)
<1> DEFINE now == IF Linear(v) THEN alive \cup {v.at} ELSE alive
<1>1. DOMAIN G = DOMAIN H \cup {p} /\ G[p] = v /\ p \notin DOMAIN H /\ \A q \in DOMAIN H : G[q] = H[q]
  BY DEF More
<1>2. LinearAlive(G, now)
  BY <1>1 DEF Good, LinearAlive
<1>3. LinearApart(G)
  BY <1>1 DEF Good, LinearAlive, LinearApart
<1>4. AllHeld(G, now)
  BY <1>1 DEF Good, AllHeld
<1>5. Recorded(G, records)
  BY <1>1 DEF Good, Recorded, Refers
<1>6. Unshared(G)
  BY <1>1 DEF Good, Unshared, Refers
<1>7. Rooted(G)
  BY MoreRooted DEF Good, Refers
<1> QED BY <1>2, <1>3, <1>4, <1>5, <1>6, <1>7 DEF Good

\* another of a value that may be copied
LEMMA CopyKeeps ==
  ASSUME NEW H, NEW G, NEW p, NEW q \in DOMAIN H, NEW alive, NEW records,
         Good(H, alive, records), More(H, G, p, H[q]), ~Linear(H[q]), H[q].slot.kind # "mut"
  PROVE  Good(G, alive, records)
<1>1. DOMAIN G = DOMAIN H \cup {p} /\ G[p] = H[q] /\ p \notin DOMAIN H /\ \A k \in DOMAIN H : G[k] = H[k]
  BY DEF More
<1>2. LinearAlive(G, alive) /\ LinearApart(G) /\ AllHeld(G, alive) /\ Recorded(G, records)
  BY <1>1 DEF Good, LinearAlive, LinearApart, AllHeld, Recorded
<1>3. Unshared(G)
  <2> SUFFICES ASSUME NEW a \in DOMAIN G, NEW b \in DOMAIN G, a # b, Refers(G[a]), Refers(G[b]),
                      G[a].at = G[b].at, G[a].from = G[b].from, G[a].slot.kind = "mut"
               PROVE  FALSE
    BY DEF Unshared
  <2>1. a \in DOMAIN H /\ G[a] = H[a]
    BY <1>1
  <2>2. CASE b \in DOMAIN H
    BY <1>1, <2>1, <2>2 DEF Good, Unshared
  <2>3. CASE b = p
    BY <1>1, <2>1, <2>3 DEF Good, Unshared
  <2> QED BY <1>1, <2>2, <2>3
<1>4. Rooted(G)
  BY <1>1, MoreRooted DEF Good, Rooted, RootedIn
<1> QED BY <1>2, <1>3, <1>4 DEF Good

\* a borrow of a local that is still there, where no record of it is in the way
LEMMA BorrowKeeps ==
  ASSUME NEW H, NEW G, NEW p, NEW v, NEW n, NEW alive, NEW records, NEW records2,
         Good(H, alive, records), More(H, G, p, v), IsRef(v.slot), v.from = n, InName(n) \in DOMAIN H,
         v.at = H[InName(n)].at, v.slot.of # "agg" => Linear(H[InName(n)]),
         \A q \in DOMAIN H : Refers(H[q]) => RecordOf(H[q]) \in records2,
         RecordOf(v) \in records2,
         \A q \in DOMAIN H : Refers(H[q]) /\ H[q].from = n => H[q].slot.kind # "mut" /\ v.slot.kind # "mut"
  PROVE  Good(G, alive, records2)
<1>1. DOMAIN G = DOMAIN H \cup {p} /\ G[p] = v /\ p \notin DOMAIN H /\ \A k \in DOMAIN H : G[k] = H[k]
  BY DEF More
<1>2. ~Linear(v)
  BY DEF Linear, IsRef
<1>3. LinearAlive(G, alive) /\ LinearApart(G) /\ AllHeld(G, alive)
  BY <1>1, <1>2 DEF Good, LinearAlive, LinearApart, AllHeld
<1>4. Recorded(G, records2)
  BY <1>1 DEF Recorded
<1>5. Unshared(G)
  BY <1>1 DEF Good, Unshared
<1>6. Rooted(G)
  BY <1>1, MoreRooted DEF Good
<1> QED BY <1>3, <1>4, <1>5, <1>6 DEF Good

\* a linear value is disposed of from where no reference refers to
LEMMA DisposeKeeps ==
  ASSUME NEW H, NEW G, NEW p, NEW alive, NEW records,
         Good(H, alive, records), More(G, H, p, H[p]), Linear(H[p]), \A n : p # InName(n)
  PROVE  Good(G, alive \ {H[p].at}, records)
<1>1. DOMAIN H = DOMAIN G \cup {p} /\ p \notin DOMAIN G /\ \A k \in DOMAIN G : H[k] = G[k]
  BY DEF More
<1>2. LinearAlive(G, alive \ {H[p].at})
  BY <1>1 DEF Good, LinearAlive, LinearApart
<1>3. LinearApart(G) /\ Recorded(G, records) /\ Unshared(G)
  BY <1>1 DEF Good, LinearApart, Recorded, Unshared
<1>4. AllHeld(G, alive \ {H[p].at})
  BY <1>1 DEF Good, AllHeld
<1>5. Rooted(G)
  <2> SUFFICES ASSUME NEW q \in DOMAIN G, Refers(G[q]), G[q].slot.of # "agg" PROVE RootedIn(G, q)
    BY DEF Rooted
  <2>1. RootedIn(H, q)
    BY <1>1 DEF Good, Rooted
  <2> QED BY <1>1, <2>1 DEF RootedIn
<1> QED BY <1>2, <1>3, <1>4, <1>5 DEF Good

-----------------------------------------------------------------------------
(* What is wrong with an execution.                                          *)

SlotsHere == [kind : {"own"}, of : {"lin", "agg", "variant"}] \cup [kind : {"ref", "mut"}, of : {"lin", "agg"}]
ValuesHere == [slot : SlotsHere, at : Nat, from : PolyNames \cup {None}]
ExecOK(e) ==
  /\ e \in [vals : Seq(ValuesHere), env : [PolyNames -> ValuesHere \cup {None}],
            spent : SUBSET PolyNames, wrong : {{}}, alive : SUBSET Nat]
  /\ IsFiniteSet(e.alive)

LEMMA NoneIsNoValue == None \notin ValuesHere /\ None \notin SlotsHere /\ None \notin PolyNames
<1>1. SlotsHere \subseteq SlotTypes
  BY DEF SlotsHere, SlotTypes, Kinds, Variants
<1>2. ValuesHere \subseteq [slot : SlotTypes, at : Nat, from : PolyNames \cup {None}]
  BY <1>1 DEF ValuesHere
<1> QED BY <1>1, <1>2, PolyAssumption

LEMMA HeldIs ==
  ASSUME NEW e, ExecOK(e)
  PROVE  /\ DOMAIN Held(e) = HeldPlaces(e)
         /\ \A i : InSlot(i) \in DOMAIN Held(e) <=> i \in 1..Len(e.vals)
         /\ \A i \in 1..Len(e.vals) : Held(e)[InSlot(i)] = e.vals[i] /\ e.vals[i] \in ValuesHere
         /\ \A n : InName(n) \in DOMAIN Held(e) <=> n \in PolyNames /\ e.env[n] # None /\ n \notin e.spent
         /\ \A n \in PolyNames : InName(n) \in DOMAIN Held(e) => Held(e)[InName(n)] = e.env[n] /\ e.env[n] \in ValuesHere
         /\ \A p \in DOMAIN Held(e) : \/ \E i \in 1..Len(e.vals) : p = InSlot(i)
                                      \/ \E n \in PolyNames : p = InName(n) /\ n \in Bound(e) \ e.spent
         /\ \A p \in DOMAIN Held(e) : Held(e)[p] \in ValuesHere
<1>1. e.vals \in Seq(ValuesHere) /\ e.env \in [PolyNames -> ValuesHere \cup {None}]
  BY DEF ExecOK
<1>2. DOMAIN e.vals = 1..Len(e.vals) /\ \A i \in 1..Len(e.vals) : e.vals[i] \in ValuesHere
  BY <1>1
<1>3. DOMAIN Held(e) = HeldPlaces(e)
  BY DEF Held
<1>4. \A i : InSlot(i) \in HeldPlaces(e) <=> i \in 1..Len(e.vals)
  BY <1>2, PlacesDiffer DEF HeldPlaces
<1>5. \A n : InName(n) \in HeldPlaces(e) <=> n \in Bound(e) \ e.spent
  BY PlacesDiffer DEF HeldPlaces
<1>6. \A n : n \in Bound(e) \ e.spent <=> n \in PolyNames /\ e.env[n] # None /\ n \notin e.spent
  BY DEF Bound
<1>7. \A p \in HeldPlaces(e) : Held(e)[p] = IF p[1] = "slot" THEN e.vals[p[2]] ELSE e.env[p[2]]
  BY DEF Held
<1>8. \A i \in 1..Len(e.vals) : Held(e)[InSlot(i)] = e.vals[i]
  BY <1>4, <1>7 DEF InSlot
<1>9. \A n : InName(n) \in HeldPlaces(e) => Held(e)[InName(n)] = e.env[n]
  BY <1>7 DEF InName
<1>10. \A n \in PolyNames : e.env[n] \in ValuesHere \cup {None}
  BY <1>1
<1>11. \A n \in PolyNames : InName(n) \in HeldPlaces(e) => e.env[n] \in ValuesHere
  BY <1>5, <1>6, <1>10
<1>12. \A p \in HeldPlaces(e) : \/ \E i \in 1..Len(e.vals) : p = InSlot(i)
                                \/ \E n \in PolyNames : p = InName(n) /\ n \in Bound(e) \ e.spent
  BY <1>2, <1>6 DEF HeldPlaces
<1> QED BY <1>2, <1>3, <1>4, <1>5, <1>6, <1>8, <1>9, <1>11, <1>12

\* what is held in one place counts once
LEMMA CountsOnce ==
  ASSUME NEW e, ExecOK(e), NEW v,
         \A p, q \in DOMAIN Held(e) : Held(e)[p] = v /\ Held(e)[q] = v => p = q
  PROVE  ~(Count(e, v) > 1)
<1> DEFINE A == {i \in DOMAIN e.vals : e.vals[i] = v}
           B == {n \in Bound(e) \ e.spent : e.env[n] = v}
<1>1. Count(e, v) = Cardinality(A) + Cardinality(B)
  BY DEF Count
<1>2. DOMAIN e.vals = 1..Len(e.vals)
  BY DEF ExecOK
<1>3. /\ \A i, j \in A : i = j
      /\ \A n, m \in B : n = m
      /\ A = {} \/ B = {}
  <2>1. \A i \in A : InSlot(i) \in DOMAIN Held(e) /\ Held(e)[InSlot(i)] = v
    BY <1>2, HeldIs
  <2>2. \A n \in B : InName(n) \in DOMAIN Held(e) /\ Held(e)[InName(n)] = v
    BY HeldIs DEF Bound
  <2> HIDE DEF A, B
  <2> QED BY <2>1, <2>2, PlacesDiffer
<1> HIDE DEF A, B
<1>4. \A S : S # {} /\ (\A k, l \in S : k = l) => \E k : S = {k}
  <2> SUFFICES ASSUME NEW S, NEW k \in S, \A j, l \in S : j = l PROVE S = {k}
    OBVIOUS
  <2> QED OBVIOUS
<1>5. Cardinality({}) = 0 /\ \A k : Cardinality({k}) = 1
  BY FS_EmptySet, FS_Singleton
<1>6. Cardinality(A) \in {0, 1} /\ (A = {} => Cardinality(A) = 0)
  BY <1>3, <1>4, <1>5
<1>7. Cardinality(B) \in {0, 1} /\ (B = {} => Cardinality(B) = 0)
  BY <1>3, <1>4, <1>5
<1> QED BY <1>1, <1>3, <1>6, <1>7

LEMMA NothingWrong ==
  ASSUME NEW e, ExecOK(e), NEW records, Good(Held(e), e.alive, records)
  PROVE  Wrong(e) = {}
<1> DEFINE H == Held(e)
<1>1. \A v \in Values(e) : \E p \in DOMAIN H : H[p] = v
  <2>1. DOMAIN e.vals = 1..Len(e.vals)
    BY DEF ExecOK
  <2> QED BY <2>1, HeldIs DEF Values
<1>2. \A v \in Referring(e) : IsRef(v.slot) /\ \E p \in DOMAIN H : H[p] = v
  <2>1. \A n \in Bound(e) \ e.spent : InName(n) \in DOMAIN H /\ H[InName(n)] = e.env[n]
    BY HeldIs DEF Bound
  <2> QED BY <1>1, <2>1 DEF Referring
<1>3. \A w \in Values(e) : Linear(w) => w.at \in e.alive /\ ~(Count(e, w) > 1)
  <2> SUFFICES ASSUME NEW w \in Values(e), Linear(w) PROVE w.at \in e.alive /\ ~(Count(e, w) > 1)
    OBVIOUS
  <2>1. w.at \in e.alive
    BY <1>1 DEF Good, LinearAlive
  <2>2. \A p, q \in DOMAIN H : H[p] = w /\ H[q] = w => p = q
    BY DEF Good, LinearApart
  <2> QED BY <2>1, <2>2, CountsOnce
<1>4. \A w \in Referring(e) : w.from # None /\ w.slot.of # "agg" => w.at \in e.alive
  BY <1>2 DEF Good, Rooted, RootedIn, LinearAlive, Refers
<1>5. \A v, w \in Referring(e) : v.from # None /\ v.at = w.at /\ v.from = w.from /\ v.slot.kind = "mut"
                                 => v = w /\ ~(Count(e, v) > 1)
  <2> SUFFICES ASSUME NEW v \in Referring(e), NEW w \in Referring(e),
                      v.from # None, v.at = w.at, v.from = w.from, v.slot.kind = "mut"
               PROVE  v = w /\ ~(Count(e, v) > 1)
    OBVIOUS
  <2>1. Refers(v) /\ Refers(w)
    BY <1>2 DEF Refers
  <2>2. \A p, q \in DOMAIN H : H[p] = v /\ H[q] \in {v, w} => p = q
    BY <2>1 DEF Good, Unshared
  <2>3. v = w
    BY <1>2, <2>2
  <2>4. \A p, q \in DOMAIN H : H[p] = v /\ H[q] = v => p = q
    BY <2>2
  <2> QED BY <2>3, <2>4, CountsOnce
<1> HIDE DEF H
<1>6. {w \in Values(e) : Linear(w) /\ (w.at \notin e.alive \/ Count(e, w) > 1)} = {}
  BY <1>3
<1>7. {w \in Referring(e) : w.from # None /\ w.slot.of # "agg" /\ w.at \notin e.alive} = {}
  BY <1>4
<1>8. {q \in Referring(e) \X Referring(e) :
          /\ q[1].from # None /\ <<q[1].at, q[1].from>> = <<q[2].at, q[2].from>>
          /\ q[1].slot.kind = "mut" /\ (q[1] # q[2] \/ Count(e, q[1]) > 1)} = {}
  BY <1>5
<1> QED BY <1>6, <1>7, <1>8 DEF Wrong

-----------------------------------------------------------------------------
(* A state of the checker, and the execution that agrees with it.            *)

MoveStatesHere == {"absent", "live", "moved", "maybe"}
StateOK(c) ==
  /\ c.stack \in Seq(SlotsHere)
  /\ c.locals \in [PolyNames -> SlotsHere \cup {None}]
  /\ c.states \in [PolyNames -> MoveStatesHere]
  /\ c.borrows \subseteq [place : PolyNames, mutable : BOOLEAN]
  /\ \A n \in PolyNames : c.states[n] = "absent" <=> c.locals[n] = None \/ IsCopy(c.locals[n])
  /\ \A a, b \in c.borrows : a.place = b.place => a = b

HasReference(c) == (\E i \in DOMAIN c.stack : IsRef(c.stack[i])) \/ (\E n \in PolyNames : c.locals[n] # None /\ IsRef(c.locals[n]))
PrunedOf(c) == IF HasReference(c) THEN c.borrows ELSE {}

StackMatches(c, e) == Len(e.vals) = Len(c.stack) /\ \A i \in 1..Len(c.stack) : e.vals[i].slot = c.stack[i]
ScopeMatches(c, e) == \A n \in PolyNames :
  /\ e.env[n] = None <=> c.locals[n] = None
  /\ c.locals[n] # None => e.env[n].slot = c.locals[n]
SpentMatches(c, e) == \A n \in PolyNames :
  /\ n \in e.spent => c.locals[n] # None
  /\ c.states[n] \in {"absent", "live"} => n \notin e.spent
  /\ c.states[n] = "moved" => n \in e.spent
Matches(c, e) == StackMatches(c, e) /\ ScopeMatches(c, e) /\ SpentMatches(c, e)
Sync(c, e) == StateOK(c) /\ ExecOK(e) /\ Matches(c, e) /\ Good(Held(e), e.alive, c.borrows)

LEMMA LeastOfNaturals ==
  ASSUME NEW S \in SUBSET Nat, S # {}
  PROVE  \E n \in S : \A k \in S : n <= k
<1> DEFINE Less == OpToRel(<, Nat)
<1>1. IsWellFoundedOn(Less, Nat)
  BY NatLessThanWellFounded
<1>2. PICK n \in S : \A k \in S : <<k, n>> \notin Less
  <2> HIDE DEF Less
  <2> QED BY <1>1, WFMin
<1>3. \A k \in S : ~(k < n)
  BY <1>2 DEF OpToRel
<1> QED BY <1>3

LEMMA ImageIsFinite ==
  ASSUME NEW f, IsFiniteSet(DOMAIN f)
  PROVE  IsFiniteSet({f[k] : k \in DOMAIN f})
<1> DEFINE T == {f[k] : k \in DOMAIN f}
           g == [k \in DOMAIN f |-> f[k]]
<1>1. g \in Surjection(DOMAIN f, T)
  BY DEF Surjection
<1> QED BY <1>1, FS_Surjection

\* there is storage that nothing has
LEMMA FreshIs ==
  ASSUME NEW e, ExecOK(e)
  PROVE  Fresh(e) \in Nat /\ Fresh(e) \notin e.alive
<1> DEFINE ofValues == {v.at : v \in Values(e)}
           ofNames == {e.env[n].at : n \in Bound(e)}
           used == e.alive \cup ofValues \cup ofNames
<1>1. IsFiniteSet(used)
  <2>1. IsFiniteSet(Values(e))
    <3>1. DOMAIN e.vals = 1..Len(e.vals) /\ Len(e.vals) \in Nat
      BY DEF ExecOK
    <3>2. IsFiniteSet(DOMAIN e.vals)
      BY <3>1, FS_Interval
    <3> QED BY <3>2, ImageIsFinite DEF Values
  <2>2. IsFiniteSet(ofValues)
    <3> DEFINE g == [v \in Values(e) |-> v.at]
    <3>1. DOMAIN g = Values(e) /\ ofValues = {g[v] : v \in DOMAIN g}
      OBVIOUS
    <3> HIDE DEF g, ofValues
    <3> QED BY <2>1, <3>1, ImageIsFinite
  <2>3. IsFiniteSet(Bound(e))
    BY PolyAssumption, FS_Subset DEF Bound
  <2>4. IsFiniteSet(ofNames)
    <3> DEFINE g == [n \in Bound(e) |-> e.env[n].at]
    <3>1. DOMAIN g = Bound(e) /\ ofNames = {g[n] : n \in DOMAIN g}
      OBVIOUS
    <3> HIDE DEF g, ofNames
    <3> QED BY <2>3, <3>1, ImageIsFinite
  <2>5. IsFiniteSet(e.alive)
    BY DEF ExecOK
  <2> HIDE DEF ofValues, ofNames
  <2> QED BY <2>2, <2>4, <2>5, FS_Union
<1>2. Fresh(e) = CHOOSE i \in 1..Cardinality(used) + 1 : i \notin used /\ \A j \in 1..i - 1 : j \in used
  BY DEF Fresh
<1>3. e.alive \subseteq used
  OBVIOUS
<1> HIDE DEF used
<1> DEFINE k == Cardinality(used)
<1>4. k \in Nat
  BY <1>1, FS_CardinalityType
<1>5. \E i \in 1..k + 1 : i \notin used
  <2> SUFFICES ASSUME 1..k + 1 \subseteq used PROVE FALSE
    OBVIOUS
  <2>1. Cardinality(1..k + 1) = k + 1
    <3>1. 1 \in Int /\ k + 1 \in Int /\ ~(1 > k + 1)
      BY <1>4
    <3>2. Cardinality(1..k + 1) = (k + 1) - 1 + 1
      BY <3>1, FS_Interval
    <3> QED BY <1>4, <3>2
  <2>2. Cardinality(1..k + 1) <= k
    BY <1>1, FS_Subset
  <2> QED BY <1>4, <2>1, <2>2
<1> DEFINE free == {j \in 1..k + 1 : j \notin used}
<1>9. free \in SUBSET Nat /\ free # {}
  BY <1>4, <1>5
<1>6. PICK i \in free : \A l \in free : i <= l
  <2> HIDE DEF free
  <2> QED BY <1>9, LeastOfNaturals
<1>7. \A j \in 1..i - 1 : j \in used
  BY <1>4, <1>6
<1>8. Fresh(e) \in 1..k + 1 /\ Fresh(e) \notin used
  BY <1>2, <1>6, <1>7
<1> QED BY <1>3, <1>4, <1>8

\* every reference that is held is among what the pruning leaves
LEMMA PruningKeeps ==
  ASSUME NEW c, NEW e, Sync(c, e)
  PROVE  \A p \in DOMAIN Held(e) : Refers(Held(e)[p]) => RecordOf(Held(e)[p]) \in PrunedOf(c)
<1> SUFFICES ASSUME NEW p \in DOMAIN Held(e), Refers(Held(e)[p]) PROVE RecordOf(Held(e)[p]) \in PrunedOf(c)
  OBVIOUS
<1>1. RecordOf(Held(e)[p]) \in c.borrows
  BY DEF Sync, Good, Recorded
<1>2. CASE \E i \in 1..Len(e.vals) : p = InSlot(i)
  <2>1. PICK i \in 1..Len(e.vals) : p = InSlot(i)
    BY <1>2
  <2>2. Held(e)[p] = e.vals[i] /\ e.vals[i].slot = c.stack[i] /\ DOMAIN c.stack = 1..Len(e.vals)
    BY <2>1, HeldIs DEF Sync, Matches, StackMatches, StateOK
  <2> QED BY <1>1, <2>2 DEF Refers, PrunedOf, HasReference
<1>3. CASE \E n \in PolyNames : p = InName(n) /\ n \in Bound(e) \ e.spent
  <2>1. PICK n \in PolyNames : p = InName(n) /\ n \in Bound(e) \ e.spent
    BY <1>3
  <2>2. Held(e)[p] = e.env[n] /\ e.env[n] # None
    BY <2>1, HeldIs DEF Bound, Sync
  <2>3. c.locals[n] # None /\ e.env[n].slot = c.locals[n]
    BY <2>2 DEF Sync, Matches, ScopeMatches
  <2> QED BY <1>1, <2>2, <2>3 DEF Refers, PrunedOf, HasReference
<1> QED BY <1>2, <1>3, HeldIs DEF Sync

\* a term leaves the execution as it does when nothing goes wrong
LEMMA RunIs ==
  ASSUME NEW e, NEW t, ExecOK(Doing(t, e)), NEW records, Good(Held(Doing(t, e)), Doing(t, e).alive, records)
  PROVE  Run(e, t) = Doing(t, e)
<1> DEFINE f == Doing(t, e)
<1>1. Wrong(f) = {}
  BY NothingWrong
<1>2. f.wrong = {}
  BY DEF ExecOK
<1>3. f \in [vals : Seq(ValuesHere), env : [PolyNames -> ValuesHere \cup {None}],
             spent : SUBSET PolyNames, wrong : {{}}, alive : SUBSET Nat]
  BY DEF ExecOK
<1>4. Run(e, t) = [f EXCEPT !.wrong = @ \cup Wrong(f)]
  BY DEF Run
<1> HIDE DEF f
<1>5. f.wrong \cup Wrong(f) = f.wrong
  BY <1>1, <1>2
<1>6. f = [f EXCEPT !.wrong = f.wrong]
  BY <1>3
<1>7. [f EXCEPT !.wrong = @ \cup Wrong(f)] = [f EXCEPT !.wrong = f.wrong]
  BY <1>5, Zenon
<1> QED BY <1>4, <1>6, <1>7 DEF f

-----------------------------------------------------------------------------
(* The terms, each as the checker lets it pass: from a state to the next.    *)

InWayOf(c, n, mutableOnly) == {b \in PrunedOf(c) : b.place = n /\ (b.mutable \/ ~mutableOnly)}
StackOnly(c, d) == d.locals = c.locals /\ d.states = c.states /\ d.borrows = c.borrows

MakeStep(t, c, d) == \E of \in {"lin", "agg"} :
  t = [Plain("make") EXCEPT !.of = of] /\ d.stack = Append(c.stack, Own(of)) /\ StackOnly(c, d)
ConsumeStep(t, c, d) ==
  t = Plain("consume") /\ c.stack # <<>> /\ d.stack = Without(c.stack, 1) /\ StackOnly(c, d)
DupStep(t, c, d) ==
  /\ t = Plain("dup") /\ c.stack # <<>> /\ IsCopy(c.stack[Len(c.stack)])
  /\ d.stack = Append(c.stack, c.stack[Len(c.stack)]) /\ StackOnly(c, d)
OverStep(t, c, d) ==
  /\ t = Plain("over") /\ Len(c.stack) >= 2 /\ IsCopy(c.stack[Len(c.stack) - 1])
  /\ d.stack = Append(c.stack, c.stack[Len(c.stack) - 1]) /\ StackOnly(c, d)
RotateStep(t, c, d) == \E k \in 2..3 :
  /\ t = [Plain("rotate") EXCEPT !.k = k] /\ Len(c.stack) >= k
  /\ d.stack = Rotated(c.stack, k) /\ StackOnly(c, d)
BindStep(t, c, d) == \E n \in PolyNames :
  /\ t = [Plain("bind") EXCEPT !.n = n] /\ c.stack # <<>> /\ c.locals[n] = None
  /\ d.stack = Without(c.stack, 1) /\ d.borrows = c.borrows
  /\ d.locals = [c.locals EXCEPT ![n] = c.stack[Len(c.stack)]]
  /\ d.states = IF IsCopy(c.stack[Len(c.stack)]) THEN c.states ELSE [c.states EXCEPT ![n] = "live"]
NameStep(t, c, d) == \E n \in PolyNames :
  /\ t = [Plain("name") EXCEPT !.n = n] /\ c.locals[n] # None /\ c.states[n] \in {"absent", "live"}
  /\ InWayOf(c, n, IsCopy(c.locals[n])) = {}
  /\ d.stack = Append(c.stack, c.locals[n]) /\ d.locals = c.locals /\ d.borrows = PrunedOf(c)
  /\ d.states = [c.states EXCEPT ![n] = IF @ = "live" THEN "moved" ELSE @]
BorrowStep(t, c, d) == \E n \in PolyNames, mutable \in BOOLEAN :
  /\ t = [Plain("borrow") EXCEPT !.n = n, !.mutable = mutable]
  /\ c.locals[n] \in {Own("lin"), Own("agg")} /\ c.states[n] \in {"absent", "live"}
  /\ InWayOf(c, n, ~mutable) = {}
  /\ d.stack = Append(c.stack, Ref(mutable, c.locals[n].of)) /\ d.locals = c.locals /\ d.states = c.states
  /\ d.borrows = PrunedOf(c) \cup {[place |-> n, mutable |-> mutable]}

Step(t, c, d) ==
  \/ MakeStep(t, c, d) \/ ConsumeStep(t, c, d) \/ DupStep(t, c, d) \/ OverStep(t, c, d)
  \/ RotateStep(t, c, d) \/ BindStep(t, c, d) \/ NameStep(t, c, d) \/ BorrowStep(t, c, d)

LEMMA PopIs ==
  ASSUME NEW S, NEW s \in Seq(S), s # <<>>
  PROVE  /\ Without(s, 1) \in Seq(S) /\ Len(Without(s, 1)) = Len(s) - 1 /\ Len(s) \in Nat /\ Len(s) > 0
         /\ \A i \in 1..Len(s) - 1 : Without(s, 1)[i] = s[i]
         /\ s[Len(s)] \in S
<1>1. Len(s) \in Nat /\ Len(s) > 0 /\ \A i \in 1..Len(s) : s[i] \in S
  OBVIOUS
<1> DEFINE m == Len(s) - 1
<1>2. m \in Nat /\ \A i \in 1..m : s[i] \in S
  BY <1>1
<1>3. Without(s, 1) = SubSeq(s, 1, m)
  BY DEF Without
<1> HIDE DEF m
<1>4. /\ SubSeq(s, 1, m) \in Seq(S) /\ Len(SubSeq(s, 1, m)) = IF 1 <= m THEN m - 1 + 1 ELSE 0
      /\ \A i \in 1..m - 1 + 1 : SubSeq(s, 1, m)[i] = s[1 + i - 1]
  BY <1>2, SubSeqProperties
<1>5. Len(Without(s, 1)) = m /\ \A i \in 1..m : Without(s, 1)[i] = s[i]
  <2>1. (IF 1 <= m THEN m - 1 + 1 ELSE 0) = m /\ m - 1 + 1 = m
    BY <1>2
  <2>2. \A i \in 1..m : 1 + i - 1 = i
    OBVIOUS
  <2> QED BY <1>3, <1>4, <2>1, <2>2
<1> QED BY <1>1, <1>3, <1>4, <1>5 DEF m

LEMMA PushIs ==
  ASSUME NEW S, NEW s \in Seq(S), NEW v \in S
  PROVE  /\ Append(s, v) \in Seq(S) /\ Len(Append(s, v)) = Len(s) + 1 /\ Len(s) \in Nat
         /\ \A i \in 1..Len(s) : Append(s, v)[i] = s[i]
         /\ Append(s, v)[Len(s) + 1] = v
OBVIOUS

\* where the value at each place of a rotated stack was
WasAt(len, k, i) == IF i <= len - k THEN i ELSE IF i < len THEN i + 1 ELSE len - k + 1
LEMMA RotatedIs ==
  ASSUME NEW S, NEW s \in Seq(S), NEW k \in 2..3, Len(s) >= k
  PROVE  /\ Rotated(s, k) \in Seq(S) /\ Len(Rotated(s, k)) = Len(s)
         /\ \A i \in 1..Len(s) : WasAt(Len(s), k, i) \in 1..Len(s) /\ Rotated(s, k)[i] = s[WasAt(Len(s), k, i)]
         /\ \A i, j \in 1..Len(s) : WasAt(Len(s), k, i) = WasAt(Len(s), k, j) => i = j
         /\ \A j \in 1..Len(s) : \E i \in 1..Len(s) : WasAt(Len(s), k, i) = j
<1> DEFINE a == SubSeq(s, 1, Len(s) - k)
           b == SubSeq(s, Len(s) - k + 2, Len(s))
           c == <<s[Len(s) - k + 1]>>
<1>1. Len(s) \in Nat /\ k \in Nat /\ k >= 2
  OBVIOUS
<1>2. a \in Seq(S) /\ Len(a) = Len(s) - k /\ \A i \in 1..Len(s) - k : a[i] = s[i]
  BY <1>1
<1>3. b \in Seq(S) /\ Len(b) = k - 1 /\ \A i \in 1..k - 1 : b[i] = s[Len(s) - k + 1 + i]
  <2>1. \A i \in Len(s) - k + 2..Len(s) : s[i] \in S
    BY <1>1
  <2> QED BY <1>1, <2>1
<1>4. c \in Seq(S) /\ Len(c) = 1 /\ c[1] = s[Len(s) - k + 1]
  BY <1>1
<1>5. Rotated(s, k) = (a \o b) \o c
  BY DEF Rotated, Without
<1> HIDE DEF a, b, c
<1>6. a \o b \in Seq(S) /\ Len(a \o b) = Len(s) - 1 /\ \A i \in 1..Len(s) - 1 : (a \o b)[i] = IF i <= Len(s) - k THEN a[i] ELSE b[i - (Len(s) - k)]
  BY <1>1, <1>2, <1>3
<1> DEFINE r == (a \o b) \o c
<1>7. r \in Seq(S) /\ Len(r) = Len(s) /\ \A i \in 1..Len(s) : r[i] = IF i <= Len(s) - 1 THEN (a \o b)[i] ELSE c[1]
  <2> DEFINE ab == a \o b
  <2>1. ab \in Seq(S) /\ Len(ab) = Len(s) - 1
    BY <1>6
  <2> HIDE DEF ab
  <2>2. ab \o c \in Seq(S) /\ Len(ab \o c) = Len(s) /\ \A i \in 1..Len(s) : (ab \o c)[i] = IF i <= Len(s) - 1 THEN ab[i] ELSE c[1]
    <3>1. ab \o c \in Seq(S) /\ Len(ab \o c) = Len(ab) + Len(c)
      BY <1>4, <2>1, ConcatProperties
    <3>3. Len(ab \o c) = Len(s)
      BY <1>1, <1>4, <2>1, <3>1
    <3>4. \A i \in 1..Len(ab) + Len(c) : (ab \o c)[i] = IF i <= Len(ab) THEN ab[i] ELSE c[i - Len(ab)]
      BY <1>4, <2>1, ConcatProperties
    <3>5. Len(ab) + 1 = Len(s) /\ Len(s) - Len(ab) = 1
      BY <1>1, <2>1
    <3>6. \A i \in 1..Len(s) : (ab \o c)[i] = IF i <= Len(s) - 1 THEN ab[i] ELSE c[1]
      <4> SUFFICES ASSUME NEW i \in 1..Len(s) PROVE (ab \o c)[i] = IF i <= Len(s) - 1 THEN ab[i] ELSE c[1]
        OBVIOUS
      <4>1. CASE i <= Len(s) - 1
        BY <1>1, <1>4, <2>1, <3>4, <3>5, <4>1
      <4>2. CASE i = Len(s)
        <5>1. i \in 1..Len(ab) + Len(c) /\ ~(i <= Len(ab)) /\ ~(i <= Len(s) - 1) /\ i - Len(ab) = 1
          BY <1>1, <1>4, <2>1, <4>2
        <5>2. (ab \o c)[i] = c[i - Len(ab)]
          BY <3>4, <5>1
        <5>3. (ab \o c)[i] = c[1]
          BY <5>1, <5>2
        <5> QED BY <5>1, <5>3
      <4>3. i <= Len(s) - 1 \/ i = Len(s)
        BY <1>1
      <4> QED BY <4>1, <4>2, <4>3
    <3> QED BY <3>1, <3>3, <3>6
  <2> QED BY <2>2 DEF ab
<1>8. \A i \in 1..Len(s) : r[i] = s[WasAt(Len(s), k, i)]
  <2> SUFFICES ASSUME NEW i \in 1..Len(s) PROVE r[i] = s[WasAt(Len(s), k, i)]
    OBVIOUS
  <2> HIDE DEF r
  <2>1. CASE i <= Len(s) - k
    BY <1>1, <1>2, <1>6, <1>7, <2>1 DEF WasAt
  <2>2. CASE i > Len(s) - k /\ i < Len(s)
    <3>1. i - (Len(s) - k) \in 1..k - 1 /\ i \in 1..Len(s) - 1 /\ ~(i <= Len(s) - k) /\ i <= Len(s) - 1
      BY <1>1, <2>2
    <3>4. r[i] = (a \o b)[i]
      BY <1>7, <3>1
    <3>5. (a \o b)[i] = b[i - (Len(s) - k)]
      BY <1>6, <3>1
    <3>2. b[i - (Len(s) - k)] = s[Len(s) - k + 1 + (i - (Len(s) - k))]
      BY <1>3, <3>1
    <3>3. Len(s) - k + 1 + (i - (Len(s) - k)) = i + 1
      BY <1>1
    <3> QED BY <1>1, <2>2, <3>2, <3>3, <3>4, <3>5 DEF WasAt
  <2>3. CASE i = Len(s)
    BY <1>1, <1>4, <1>7, <2>3 DEF WasAt
  <2> QED BY <1>1, <2>1, <2>2, <2>3
<1> HIDE DEF r
<1>9. \A j \in 1..Len(s) : \E i \in 1..Len(s) : WasAt(Len(s), k, i) = j
  <2> SUFFICES ASSUME NEW j \in 1..Len(s) PROVE \E i \in 1..Len(s) : WasAt(Len(s), k, i) = j
    OBVIOUS
  <2>1. CASE j <= Len(s) - k
    BY <1>1, <2>1 DEF WasAt
  <2>2. CASE j = Len(s) - k + 1
    BY <1>1, <2>2 DEF WasAt
  <2>3. CASE j > Len(s) - k + 1
    <3>1. j - 1 \in 1..Len(s) /\ WasAt(Len(s), k, j - 1) = j
      BY <1>1, <2>3 DEF WasAt
    <3> QED BY <3>1
  <2> QED BY <1>1, <2>1, <2>2, <2>3
<1>10. \A i \in 1..Len(s) : WasAt(Len(s), k, i) \in 1..Len(s)
  BY <1>1 DEF WasAt
<1>11. \A i, j \in 1..Len(s) : WasAt(Len(s), k, i) = WasAt(Len(s), k, j) => i = j
  BY <1>1 DEF WasAt
<1>12. Rotated(s, k) = r
  BY <1>5 DEF r
<1> QED BY <1>7, <1>8, <1>9, <1>10, <1>11, <1>12

\* what may be copied is neither linear nor a mutable reference
LEMMA CopyIs ==
  ASSUME NEW v \in ValuesHere
  PROVE  /\ IsCopy(v.slot) <=> ~Linear(v) /\ v.slot.kind # "mut"
         /\ v.slot \in SlotsHere /\ v.slot.kind \in {"own", "ref", "mut"}
BY DEF ValuesHere, SlotsHere, IsCopy, IsRef, Linear

-----------------------------------------------------------------------------
(* What each term does to the execution.                                     *)

Exec(vals, env, spent, alive) == [vals |-> vals, env |-> env, spent |-> spent, wrong |-> {}, alive |-> alive]

LEMMA ExecIs ==
  ASSUME NEW e, ExecOK(e)
  PROVE  /\ e = Exec(e.vals, e.env, e.spent, e.alive)
         /\ e.vals \in Seq(ValuesHere) /\ Len(e.vals) \in Nat
         /\ e.env \in [PolyNames -> ValuesHere \cup {None}] /\ e.spent \in SUBSET PolyNames
         /\ e.alive \in SUBSET Nat /\ IsFiniteSet(e.alive)
BY DEF ExecOK, Exec

LEMMA ExecBecomes ==
  ASSUME NEW vals \in Seq(ValuesHere), NEW env \in [PolyNames -> ValuesHere \cup {None}],
         NEW spent \in SUBSET PolyNames, NEW alive \in SUBSET Nat, IsFiniteSet(alive)
  PROVE  /\ ExecOK(Exec(vals, env, spent, alive))
         /\ Exec(vals, env, spent, alive).vals = vals /\ Exec(vals, env, spent, alive).env = env
         /\ Exec(vals, env, spent, alive).spent = spent /\ Exec(vals, env, spent, alive).alive = alive
BY DEF ExecOK, Exec

LEMMA ExecWith ==
  ASSUME NEW a, NEW b, NEW c, NEW d, NEW x
  PROVE  /\ Exec(a, b, c, d).vals = a /\ Exec(a, b, c, d).env = b
         /\ Exec(a, b, c, d).spent = c /\ Exec(a, b, c, d).alive = d
         /\ [Exec(a, b, c, d) EXCEPT !.vals = x] = Exec(x, b, c, d)
         /\ [Exec(a, b, c, d) EXCEPT !.env = x] = Exec(a, x, c, d)
         /\ [Exec(a, b, c, d) EXCEPT !.spent = x] = Exec(a, b, x, d)
         /\ [Exec(a, b, c, d) EXCEPT !.alive = x] = Exec(a, b, c, x)
BY DEF Exec

LEMMA ExecVals ==
  ASSUME NEW e, ExecOK(e), NEW x
  PROVE  [e EXCEPT !.vals = x] = Exec(x, e.env, e.spent, e.alive)
<1> DEFINE a == e.vals
           b == e.env
           c == e.spent
           d == e.alive
<1>1. e = Exec(a, b, c, d)
  BY ExecIs
<1> HIDE DEF a, b, c, d
<1>2. [e EXCEPT !.vals = x] = Exec(x, b, c, d)
  BY <1>1, ExecWith
<1> QED BY <1>2 DEF b, c, d

LEMMA ExecAlive ==
  ASSUME NEW e, ExecOK(e), NEW x, NEW y
  PROVE  [[e EXCEPT !.vals = x] EXCEPT !.alive = y] = Exec(x, e.env, e.spent, y)
<1> DEFINE e1 == [e EXCEPT !.vals = x]
           b == e.env
           c == e.spent
           d == e.alive
<1>1. e1 = Exec(x, b, c, d)
  BY ExecVals
<1> HIDE DEF e1, b, c, d
<1>2. [e1 EXCEPT !.alive = y] = Exec(x, b, c, y)
  BY <1>1, ExecWith
<1> QED BY <1>2 DEF e1, b, c

LEMMA ExecSpent ==
  ASSUME NEW e, ExecOK(e), NEW x, NEW y
  PROVE  [[e EXCEPT !.vals = x] EXCEPT !.spent = y] = Exec(x, e.env, y, e.alive)
<1> DEFINE e1 == [e EXCEPT !.vals = x]
           b == e.env
           c == e.spent
           d == e.alive
<1>1. e1 = Exec(x, b, c, d)
  BY ExecVals
<1> HIDE DEF e1, b, c, d
<1>2. [e1 EXCEPT !.spent = y] = Exec(x, b, y, d)
  BY <1>1, ExecWith
<1> QED BY <1>2 DEF e1, b, d

LEMMA ExecEnv ==
  ASSUME NEW e, ExecOK(e), NEW y, NEW z
  PROVE  [[e EXCEPT !.env = y] EXCEPT !.spent = z] = Exec(e.vals, y, z, e.alive)
<1> DEFINE a == e.vals
           b == e.env
           c == e.spent
           d == e.alive
           e1 == [e EXCEPT !.env = y]
<1>1. e = Exec(a, b, c, d)
  BY ExecIs
<1> HIDE DEF a, b, c, d
<1>2. e1 = Exec(a, y, c, d)
  BY <1>1, ExecWith
<1> HIDE DEF e1
<1>3. [e1 EXCEPT !.spent = z] = Exec(a, y, z, d)
  BY <1>2, ExecWith
<1> QED BY <1>3 DEF a, d, e1

LEMMA MakeDoes ==
  ASSUME NEW e, ExecOK(e), NEW of \in {"lin", "agg"}
  PROVE  Doing([Plain("make") EXCEPT !.of = of], e) =
           Exec(Append(e.vals, Value(Own(of), Fresh(e), None)), e.env, e.spent,
                IF of = "lin" THEN e.alive \cup {Fresh(e)} ELSE e.alive)
<1> DEFINE t == [Plain("make") EXCEPT !.of = of]
           x == Append(e.vals, Value(Own(of), Fresh(e), None))
           y == IF of = "lin" THEN e.alive \cup {Fresh(e)} ELSE e.alive
<1>1. t.op = "make" /\ t.of = of
  BY DEF Plain
<1> HIDE DEF t
<1>2. Doing(t, e) = [Push(e, Value(Own(t.of), Fresh(e), None)) EXCEPT !.alive = IF t.of = "lin" THEN @ \cup {Fresh(e)} ELSE @]
  BY <1>1 DEF Doing
<1>3. Push(e, Value(Own(t.of), Fresh(e), None)) = [e EXCEPT !.vals = x]
  BY <1>1 DEF Push
<1>4. [e EXCEPT !.vals = x].alive = e.alive
  BY ExecIs, ExecWith
<1>5. Doing(t, e) = [[e EXCEPT !.vals = x] EXCEPT !.alive = y]
  BY <1>1, <1>2, <1>3, <1>4
<1> HIDE DEF x, y
<1>6. Doing(t, e) = Exec(x, e.env, e.spent, y)
  BY <1>5, ExecAlive
<1> QED BY <1>6 DEF t, x, y

LEMMA ConsumeDoes ==
  ASSUME NEW e, ExecOK(e)
  PROVE  Doing(Plain("consume"), e) =
           Exec(Without(e.vals, 1), e.env, e.spent,
                IF Linear(e.vals[Len(e.vals)]) THEN e.alive \ {e.vals[Len(e.vals)].at} ELSE e.alive)
<1> DEFINE t == Plain("consume")
           x == Without(e.vals, 1)
           y == IF Linear(e.vals[Len(e.vals)]) THEN e.alive \ {e.vals[Len(e.vals)].at} ELSE e.alive
<1>1. t.op = "consume"
  BY DEF Plain
<1> HIDE DEF t
<1>2. Doing(t, e) = [[e EXCEPT !.vals = x] EXCEPT
         !.alive = IF Linear(e.vals[Len(e.vals)]) THEN @ \ {e.vals[Len(e.vals)].at} ELSE @]
  BY <1>1 DEF Doing
<1>3. [e EXCEPT !.vals = x].alive = e.alive
  BY ExecIs, ExecWith
<1>4. Doing(t, e) = [[e EXCEPT !.vals = x] EXCEPT !.alive = y]
  BY <1>2, <1>3
<1> HIDE DEF x, y
<1>5. Doing(t, e) = Exec(x, e.env, e.spent, y)
  BY <1>4, ExecAlive
<1> QED BY <1>5 DEF t, x, y

LEMMA DupDoes ==
  ASSUME NEW e, ExecOK(e)
  PROVE  Doing(Plain("dup"), e) =
           LET v == e.vals[Len(e.vals)]
           IN Exec(Append(e.vals, IF v.slot = Own("agg") THEN Value(v.slot, Fresh(e), None) ELSE v), e.env, e.spent, e.alive)
<1> DEFINE t == Plain("dup")
           v == e.vals[Len(e.vals)]
           x == Append(e.vals, IF v.slot = Own("agg") THEN Value(v.slot, Fresh(e), None) ELSE v)
<1>1. t.op = "dup"
  BY DEF Plain
<1> HIDE DEF t
<1>2. Doing(t, e) = [e EXCEPT !.vals = x]
  BY <1>1 DEF Doing, Push
<1> HIDE DEF x
<1>3. Doing(t, e) = Exec(x, e.env, e.spent, e.alive)
  BY <1>2, ExecVals
<1> QED BY <1>3 DEF t, x

LEMMA OverDoes ==
  ASSUME NEW e, ExecOK(e)
  PROVE  Doing(Plain("over"), e) = Exec(Append(e.vals, e.vals[Len(e.vals) - 1]), e.env, e.spent, e.alive)
<1> DEFINE t == Plain("over")
           x == Append(e.vals, e.vals[Len(e.vals) - 1])
<1>1. t.op = "over"
  BY DEF Plain
<1> HIDE DEF t
<1>2. Doing(t, e) = [e EXCEPT !.vals = x]
  BY <1>1 DEF Doing, Push
<1> HIDE DEF x
<1>3. Doing(t, e) = Exec(x, e.env, e.spent, e.alive)
  BY <1>2, ExecVals
<1> QED BY <1>3 DEF t, x

LEMMA RotateDoes ==
  ASSUME NEW e, ExecOK(e), NEW k
  PROVE  Doing([Plain("rotate") EXCEPT !.k = k], e) = Exec(Rotated(e.vals, k), e.env, e.spent, e.alive)
<1> DEFINE t == [Plain("rotate") EXCEPT !.k = k]
           x == Rotated(e.vals, k)
<1>1. t.op = "rotate" /\ t.k = k
  BY DEF Plain
<1> HIDE DEF t
<1>2. Doing(t, e) = [e EXCEPT !.vals = x]
  BY <1>1 DEF Doing
<1> HIDE DEF x
<1>3. Doing(t, e) = Exec(x, e.env, e.spent, e.alive)
  BY <1>2, ExecVals
<1> QED BY <1>3 DEF t, x

LEMMA BindDoes ==
  ASSUME NEW e, ExecOK(e), NEW n
  PROVE  Doing([Plain("bind") EXCEPT !.n = n], e) =
           Exec(Without(e.vals, 1), [e.env EXCEPT ![n] = e.vals[Len(e.vals)]], e.spent \ {n}, e.alive)
<1> DEFINE t == [Plain("bind") EXCEPT !.n = n]
           x == Without(e.vals, 1)
           y == e.vals[Len(e.vals)]
           z == e.spent \ {n}
           e1 == [e EXCEPT !.vals = x, !.env[n] = y]
<1>1. t.op = "bind" /\ t.n = n
  BY DEF Plain
<1> HIDE DEF t
<1>2. Doing(t, e) = [[e EXCEPT !.vals = x, !.env[t.n] = y] EXCEPT !.spent = @ \ {t.n}]
  BY <1>1 DEF Doing
<1>3. Doing(t, e) = [e1 EXCEPT !.spent = e1.spent \ {n}]
  BY <1>1, <1>2
<1> HIDE DEF x, y
<1> DEFINE e0 == [e EXCEPT !.vals = x]
           b0 == [e0.env EXCEPT ![n] = y]
<1>4. e0 = Exec(x, e.env, e.spent, e.alive)
  BY ExecVals
<1>5. e1 = [e0 EXCEPT !.env = b0]
  OBVIOUS
<1> HIDE DEF e0, b0, e1
<1>6. e1 = Exec(x, b0, e.spent, e.alive)
  BY <1>4, <1>5, ExecWith
<1>7. e1.spent = e.spent
  BY <1>6, ExecWith
<1>8. Doing(t, e) = [e1 EXCEPT !.spent = z]
  BY <1>3, <1>7
<1>9. e0.env = e.env
  BY <1>4, ExecWith
<1> HIDE DEF z
<1>10. Doing(t, e) = Exec(x, b0, z, e.alive)
  BY <1>6, <1>8, ExecWith
<1>11. b0 = [e.env EXCEPT ![n] = y]
  BY <1>9 DEF b0
<1> QED BY <1>10, <1>11 DEF t, x, y, z

LEMMA NameDoes ==
  ASSUME NEW e, ExecOK(e), NEW n
  PROVE  Doing([Plain("name") EXCEPT !.n = n], e) =
           Exec(Append(e.vals, e.env[n]), e.env,
                IF Linear(e.env[n]) \/ e.env[n].slot.kind = "mut" THEN e.spent \cup {n} ELSE e.spent, e.alive)
<1> DEFINE t == [Plain("name") EXCEPT !.n = n]
           x == Append(e.vals, e.env[n])
           y == IF Linear(e.env[n]) \/ e.env[n].slot.kind = "mut" THEN e.spent \cup {n} ELSE e.spent
<1>1. t.op = "name" /\ t.n = n
  BY DEF Plain
<1> HIDE DEF t
<1>2. Doing(t, e) = [[e EXCEPT !.vals = x] EXCEPT
         !.spent = IF Linear(e.env[n]) \/ e.env[n].slot.kind = "mut" THEN @ \cup {n} ELSE @]
  BY <1>1 DEF Doing, Push
<1>3. [e EXCEPT !.vals = x].spent = e.spent
  BY ExecIs, ExecWith
<1>4. Doing(t, e) = [[e EXCEPT !.vals = x] EXCEPT !.spent = y]
  BY <1>2, <1>3
<1> HIDE DEF x, y
<1>5. Doing(t, e) = Exec(x, e.env, y, e.alive)
  BY <1>4, ExecSpent
<1> QED BY <1>5 DEF t, x, y

LEMMA BorrowDoes ==
  ASSUME NEW e, ExecOK(e), NEW n, NEW mutable
  PROVE  Doing([Plain("borrow") EXCEPT !.n = n, !.mutable = mutable], e) =
           Exec(Append(e.vals, Value(Ref(mutable, e.env[n].slot.of), e.env[n].at, n)), e.env, e.spent, e.alive)
<1> DEFINE t == [Plain("borrow") EXCEPT !.n = n, !.mutable = mutable]
           x == Append(e.vals, Value(Ref(mutable, e.env[n].slot.of), e.env[n].at, n))
<1>1. t.op = "borrow" /\ t.n = n /\ t.mutable = mutable
  BY DEF Plain
<1> HIDE DEF t
<1>2. Doing(t, e) = [e EXCEPT !.vals = x]
  BY <1>1 DEF Doing, Push
<1> HIDE DEF x
<1>3. Doing(t, e) = Exec(x, e.env, e.spent, e.alive)
  BY <1>2, ExecVals
<1> QED BY <1>3 DEF t, x

-----------------------------------------------------------------------------
(* Every term keeps the execution in agreement.                              *)

LEMMA RunSync ==
  ASSUME NEW t, NEW e, NEW d, StateOK(d), ExecOK(Doing(t, e)), Matches(d, Doing(t, e)),
         Good(Held(Doing(t, e)), Doing(t, e).alive, d.borrows)
  PROVE  Sync(d, Run(e, t))
<1>1. Run(e, t) = Doing(t, e)
  BY RunIs
<1> QED BY <1>1 DEF Sync

LEMMA GoodRecords ==
  ASSUME NEW H, NEW alive, NEW records, NEW records2, Good(H, alive, records),
         \A p \in DOMAIN H : Refers(H[p]) => RecordOf(H[p]) \in records2
  PROVE  Good(H, alive, records2)
BY DEF Good, Recorded

Pushed(e, v, alive) == Exec(Append(e.vals, v), e.env, e.spent, alive)

LEMMA PushHeld ==
  ASSUME NEW e, ExecOK(e), NEW v \in ValuesHere, NEW alive \in SUBSET Nat, IsFiniteSet(alive)
  PROVE  /\ ExecOK(Pushed(e, v, alive)) /\ Pushed(e, v, alive).alive = alive
         /\ More(Held(e), Held(Pushed(e, v, alive)), InSlot(Len(e.vals) + 1), v)
<1> DEFINE f == Pushed(e, v, alive)
           vals == Append(e.vals, v)
<1>1. /\ e.vals \in Seq(ValuesHere) /\ Len(e.vals) \in Nat
      /\ e.env \in [PolyNames -> ValuesHere \cup {None}] /\ e.spent \in SUBSET PolyNames
  BY ExecIs
<1>2. /\ vals \in Seq(ValuesHere) /\ Len(vals) = Len(e.vals) + 1
      /\ \A i \in 1..Len(e.vals) : vals[i] = e.vals[i]
      /\ vals[Len(e.vals) + 1] = v
  BY <1>1, PushIs
<1> DEFINE E == e.env
           S == e.spent
<1>13. f = Exec(vals, E, S, alive)
  BY DEF Pushed
<1> HIDE DEF vals, f
<1>3. ExecOK(f) /\ f.vals = vals /\ f.env = e.env /\ f.spent = e.spent /\ f.alive = alive
  <2>1. E \in [PolyNames -> ValuesHere \cup {None}] /\ S \in SUBSET PolyNames
    BY <1>1
  <2> HIDE DEF E, S
  <2>2. ExecOK(f) /\ f.vals = vals /\ f.env = E /\ f.spent = S /\ f.alive = alive
    BY <1>2, <1>13, <2>1, ExecBecomes
  <2> QED BY <2>2 DEF E, S
<1> DEFINE H == Held(e)
           G == Held(f)
           new == InSlot(Len(e.vals) + 1)
<1>4. /\ DOMAIN H = HeldPlaces(e) /\ DOMAIN G = HeldPlaces(f)
      /\ \A i : InSlot(i) \in DOMAIN H <=> i \in 1..Len(e.vals)
      /\ \A i : InSlot(i) \in DOMAIN G <=> i \in 1..Len(e.vals) + 1
      /\ \A n : InName(n) \in DOMAIN H <=> n \in PolyNames /\ e.env[n] # None /\ n \notin e.spent
      /\ \A n : InName(n) \in DOMAIN G <=> n \in PolyNames /\ e.env[n] # None /\ n \notin e.spent
  BY <1>2, <1>3, HeldIs
<1>5. /\ \A i \in 1..Len(e.vals) : H[InSlot(i)] = e.vals[i]
      /\ \A i \in 1..Len(e.vals) + 1 : G[InSlot(i)] = vals[i]
      /\ \A n \in PolyNames : InName(n) \in DOMAIN H => H[InName(n)] = e.env[n]
      /\ \A n \in PolyNames : InName(n) \in DOMAIN G => G[InName(n)] = e.env[n]
  BY <1>2, <1>3, HeldIs
<1>6. /\ \A p \in DOMAIN H : (\E i \in 1..Len(e.vals) : p = InSlot(i)) \/ (\E n \in PolyNames : p = InName(n))
      /\ \A p \in DOMAIN G : (\E i \in 1..Len(e.vals) + 1 : p = InSlot(i)) \/ (\E n \in PolyNames : p = InName(n))
  BY <1>2, <1>3, HeldIs
<1> HIDE DEF H, G
<1>7. \A i \in 1..Len(e.vals) + 1 : i \in 1..Len(e.vals) \/ i = Len(e.vals) + 1
  BY <1>1
<1>8. new \notin DOMAIN H
  BY <1>1, <1>4
<1>9. DOMAIN G = DOMAIN H \cup {new}
  <2>1. DOMAIN G \subseteq DOMAIN H \cup {new}
    BY <1>4, <1>6, <1>7
  <2>2. DOMAIN H \subseteq DOMAIN G
    BY <1>1, <1>4, <1>6
  <2>3. new \in DOMAIN G
    BY <1>1, <1>4
  <2> QED BY <2>1, <2>2, <2>3
<1>10. G[new] = v
  BY <1>1, <1>2, <1>5
<1>11. \A q \in DOMAIN H : G[q] = H[q]
  <2> SUFFICES ASSUME NEW q \in DOMAIN H PROVE G[q] = H[q]
    OBVIOUS
  <2>1. CASE \E i \in 1..Len(e.vals) : q = InSlot(i)
    BY <1>1, <1>2, <1>5, <2>1
  <2>2. CASE \E n \in PolyNames : q = InName(n)
    BY <1>5, <1>9, <2>2
  <2> QED BY <1>6, <2>1, <2>2
<1>12. More(H, G, new, v)
  BY <1>8, <1>9, <1>10, <1>11 DEF More
<1> QED BY <1>3, <1>12 DEF G, H, f

\* the rest of what agrees, when a value is pushed
LEMMA PushAgrees ==
  ASSUME NEW c, NEW e, Sync(c, e), NEW v \in ValuesHere, NEW alive \in SUBSET Nat, IsFiniteSet(alive), NEW d,
         d.stack = Append(c.stack, v.slot), d.locals = c.locals, d.states = c.states,
         d.borrows \subseteq [place : PolyNames, mutable : BOOLEAN],
         \A a, b \in d.borrows : a.place = b.place => a = b
  PROVE  StateOK(d) /\ Matches(d, Pushed(e, v, alive))
<1> DEFINE vals == Append(e.vals, v)
           f == Pushed(e, v, alive)
<1>1. /\ e.vals \in Seq(ValuesHere) /\ Len(e.vals) \in Nat
      /\ e.env \in [PolyNames -> ValuesHere \cup {None}] /\ e.spent \in SUBSET PolyNames
  BY ExecIs DEF Sync
<1>2. /\ vals \in Seq(ValuesHere) /\ Len(vals) = Len(e.vals) + 1
      /\ \A i \in 1..Len(e.vals) : vals[i] = e.vals[i]
      /\ vals[Len(e.vals) + 1] = v
  BY <1>1, PushIs
<1>3. f.vals = vals /\ f.env = e.env /\ f.spent = e.spent
  <2> DEFINE E == e.env
             S == e.spent
  <2>1. f = Exec(vals, E, S, alive)
    BY DEF Pushed
  <2> HIDE DEF vals, E, S, f
  <2>2. f.vals = vals /\ f.env = E /\ f.spent = S
    BY <2>1, ExecWith
  <2> QED BY <2>2 DEF E, S
<1> HIDE DEF vals, f
<1>4. v.slot \in SlotsHere
  BY DEF ValuesHere
<1>5. c.stack \in Seq(SlotsHere) /\ Len(c.stack) = Len(e.vals) /\ \A i \in 1..Len(c.stack) : e.vals[i].slot = c.stack[i]
  BY DEF Sync, StateOK, Matches, StackMatches
<1>6. /\ d.stack \in Seq(SlotsHere) /\ Len(d.stack) = Len(e.vals) + 1
      /\ \A i \in 1..Len(e.vals) : d.stack[i] = c.stack[i]
      /\ d.stack[Len(e.vals) + 1] = v.slot
  BY <1>4, <1>5, PushIs
<1>7. StateOK(d)
  BY <1>6 DEF Sync, StateOK
<1>8. StackMatches(d, f)
  <2> SUFFICES ASSUME NEW i \in 1..Len(e.vals) + 1 PROVE vals[i].slot = d.stack[i]
    BY <1>2, <1>3, <1>6 DEF StackMatches
  <2>1. i \in 1..Len(e.vals) \/ i = Len(e.vals) + 1
    BY <1>1
  <2> QED BY <1>2, <1>5, <1>6, <2>1
<1>9. ScopeMatches(d, f) /\ SpentMatches(d, f)
  BY <1>3 DEF Sync, Matches, ScopeMatches, SpentMatches
<1> QED BY <1>7, <1>8, <1>9 DEF Matches, f

LEMMA SyncIs ==
  ASSUME NEW c, NEW e, Sync(c, e)
  PROVE  /\ StateOK(c) /\ ExecOK(e) /\ Good(Held(e), e.alive, c.borrows)
         /\ c.stack \in Seq(SlotsHere) /\ Len(e.vals) = Len(c.stack) /\ Len(c.stack) \in Nat
         /\ \A i \in 1..Len(c.stack) : e.vals[i].slot = c.stack[i] /\ e.vals[i] \in ValuesHere
         /\ \A n \in PolyNames : c.locals[n] # None => e.env[n] # None /\ e.env[n] \in ValuesHere /\ e.env[n].slot = c.locals[n]
         /\ c.borrows \subseteq [place : PolyNames, mutable : BOOLEAN] /\ \A a, b \in c.borrows : a.place = b.place => a = b
         /\ PrunedOf(c) \subseteq c.borrows
         /\ e.alive \in SUBSET Nat /\ IsFiniteSet(e.alive)
<1>1. StateOK(c) /\ ExecOK(e) /\ Good(Held(e), e.alive, c.borrows) /\ Matches(c, e)
  BY DEF Sync
<1>2. /\ c.stack \in Seq(SlotsHere) /\ Len(c.stack) \in Nat
      /\ c.borrows \subseteq [place : PolyNames, mutable : BOOLEAN] /\ \A a, b \in c.borrows : a.place = b.place => a = b
      /\ PrunedOf(c) \subseteq c.borrows
  BY <1>1 DEF StateOK, PrunedOf
<1>3. /\ e.vals \in Seq(ValuesHere) /\ e.env \in [PolyNames -> ValuesHere \cup {None}]
      /\ e.alive \in SUBSET Nat /\ IsFiniteSet(e.alive)
  BY <1>1, ExecIs
<1>4. Len(e.vals) = Len(c.stack) /\ \A i \in 1..Len(c.stack) : e.vals[i].slot = c.stack[i]
  BY <1>1 DEF Matches, StackMatches
<1>5. \A i \in 1..Len(c.stack) : e.vals[i] \in ValuesHere
  BY <1>3, <1>4
<1>6. \A n \in PolyNames : c.locals[n] # None => e.env[n] # None /\ e.env[n].slot = c.locals[n]
  BY <1>1 DEF Matches, ScopeMatches
<1>7. \A n \in PolyNames : e.env[n] \in ValuesHere \cup {None}
  BY <1>3
<1> QED BY <1>1, <1>2, <1>3, <1>4, <1>5, <1>6, <1>7

LEMMA MakeKeeps ==
  ASSUME NEW c, NEW e, Sync(c, e), NEW t, NEW d, MakeStep(t, c, d)
  PROVE  Sync(d, Run(e, t))
<1>1. PICK of \in {"lin", "agg"} :
        t = [Plain("make") EXCEPT !.of = of] /\ d.stack = Append(c.stack, Own(of)) /\ StackOnly(c, d)
  BY DEF MakeStep
<1> DEFINE v == Value(Own(of), Fresh(e), None)
           alive == IF of = "lin" THEN e.alive \cup {Fresh(e)} ELSE e.alive
           f == Pushed(e, v, alive)
<1>2. Fresh(e) \in Nat /\ Fresh(e) \notin e.alive
  BY FreshIs DEF Sync
<1>3. /\ v \in ValuesHere /\ ~IsRef(v.slot) /\ v.slot = Own(of) /\ v.at = Fresh(e)
      /\ Linear(v) <=> of = "lin"
  BY <1>2 DEF ValuesHere, SlotsHere, Value, Own, IsRef, Linear
<1>4. alive \in SUBSET Nat /\ IsFiniteSet(alive)
  BY <1>2, SyncIs, FS_AddElement
<1>5. Doing(t, e) = f
  <2>1. ExecOK(e)
    BY DEF Sync
  <2> QED BY <1>1, <2>1, MakeDoes DEF Pushed
<1> HIDE DEF v
<1>6. alive = IF Linear(v) THEN e.alive \cup {v.at} ELSE e.alive
  BY <1>3
<1> HIDE DEF alive
<1>7. ExecOK(f) /\ f.alive = alive /\ More(Held(e), Held(f), InSlot(Len(e.vals) + 1), v)
  <2>1. ExecOK(e)
    BY DEF Sync
  <2> QED BY <1>3, <1>4, <2>1, PushHeld
<1>8. Good(Held(f), alive, c.borrows)
  <2>1. Good(Held(e), e.alive, c.borrows)
    BY DEF Sync
  <2> QED BY <1>2, <1>3, <1>6, <1>7, <2>1, NewValueKeeps, ZenonT(40)
<1>9. StateOK(d) /\ Matches(d, f) /\ d.borrows = c.borrows
  BY <1>1, <1>3, <1>4, PushAgrees, SyncIs DEF StackOnly
<1> QED BY <1>5, <1>7, <1>8, <1>9, RunSync

\* what is pushed is a copy of something held
LEMMA CopyAgrees ==
  ASSUME NEW c, NEW e, Sync(c, e), NEW t, NEW d, NEW p \in DOMAIN Held(e), Held(e)[p] \in ValuesHere,
         IsCopy(Held(e)[p].slot), Doing(t, e) = Pushed(e, Held(e)[p], e.alive),
         d.stack = Append(c.stack, Held(e)[p].slot), d.locals = c.locals, d.states = c.states,
         d.borrows \in {c.borrows, PrunedOf(c)}
  PROVE  Sync(d, Run(e, t))
<1> DEFINE v == Held(e)[p]
           f == Pushed(e, v, e.alive)
<1>1. ~Linear(v) /\ v.slot.kind # "mut"
  BY CopyIs
<1>2. ExecOK(f) /\ f.alive = e.alive /\ More(Held(e), Held(f), InSlot(Len(e.vals) + 1), v)
  BY PushHeld, SyncIs
<1>3. \A q \in DOMAIN Held(e) : Refers(Held(e)[q]) => RecordOf(Held(e)[q]) \in d.borrows
  BY PruningKeeps, SyncIs DEF Good, Recorded
<1>4. Good(Held(e), e.alive, d.borrows)
  BY <1>3, GoodRecords, SyncIs
<1>5. Good(Held(f), e.alive, d.borrows)
  BY <1>1, <1>2, <1>4, CopyKeeps
<1>6. StateOK(d) /\ Matches(d, f)
  BY PushAgrees, SyncIs
<1> QED BY <1>2, <1>5, <1>6, RunSync

LEMMA DupKeeps ==
  ASSUME NEW c, NEW e, Sync(c, e), NEW t, NEW d, DupStep(t, c, d)
  PROVE  Sync(d, Run(e, t))
<1> DEFINE len == Len(e.vals)
           v == e.vals[len]
<1>1. /\ t = Plain("dup") /\ c.stack # <<>> /\ IsCopy(c.stack[Len(c.stack)])
      /\ d.stack = Append(c.stack, c.stack[Len(c.stack)]) /\ StackOnly(c, d)
  BY DEF DupStep
<1>2. len = Len(c.stack) /\ len \in 1..Len(c.stack) /\ v \in ValuesHere /\ v.slot = c.stack[Len(c.stack)]
  <2>1. Len(c.stack) \in Nat /\ Len(c.stack) > 0
    BY <1>1, SyncIs, PopIs
  <2> QED BY <2>1, SyncIs
<1>3. InSlot(len) \in DOMAIN Held(e) /\ Held(e)[InSlot(len)] = v
  BY <1>2, HeldIs DEF Sync
<1>4. Doing(t, e) = Exec(Append(e.vals, IF v.slot = Own("agg") THEN Value(v.slot, Fresh(e), None) ELSE v), e.env, e.spent, e.alive)
  BY <1>1, DupDoes DEF Sync
<1> HIDE DEF v
<1>5. CASE v.slot # Own("agg")
  <2>1. Doing(t, e) = Pushed(e, v, e.alive)
    BY <1>4, <1>5 DEF Pushed
  <2> QED BY <1>1, <1>2, <1>3, <2>1, CopyAgrees DEF StackOnly
<1>6. CASE v.slot = Own("agg")
  <2> DEFINE w == Value(v.slot, Fresh(e), None)
             f == Pushed(e, w, e.alive)
  <2>1. Doing(t, e) = f
    BY <1>4, <1>6 DEF Pushed
  <2>2. Fresh(e) \in Nat /\ Fresh(e) \notin e.alive
    BY FreshIs DEF Sync
  <2>3. w \in ValuesHere /\ ~IsRef(w.slot) /\ w.slot = v.slot /\ w.at = Fresh(e) /\ ~Linear(w)
    BY <1>2, <1>6, <2>2 DEF ValuesHere, Value, Own, IsRef, Linear
  <2> HIDE DEF w
  <2>4. ExecOK(f) /\ f.alive = e.alive /\ More(Held(e), Held(f), InSlot(Len(e.vals) + 1), w)
    BY <2>3, PushHeld, SyncIs
  <2>5. Good(Held(f), e.alive, c.borrows)
    <3> DEFINE alive == IF Linear(w) THEN e.alive \cup {w.at} ELSE e.alive
    <3>1. Good(Held(e), e.alive, c.borrows) /\ w.at \notin e.alive
      BY <2>2, <2>3, SyncIs
    <3>2. Good(Held(f), alive, c.borrows)
      BY <2>3, <2>4, <3>1, NewValueKeeps
    <3>3. alive = e.alive
      BY <2>3
    <3> QED BY <3>2, <3>3
  <2>6. StateOK(d) /\ Matches(d, f) /\ d.borrows = c.borrows
    BY <1>1, <1>2, <2>3, PushAgrees, SyncIs DEF StackOnly
  <2> QED BY <2>1, <2>4, <2>5, <2>6, RunSync
<1> QED BY <1>5, <1>6

LEMMA OverKeeps ==
  ASSUME NEW c, NEW e, Sync(c, e), NEW t, NEW d, OverStep(t, c, d)
  PROVE  Sync(d, Run(e, t))
<1> DEFINE i == Len(e.vals) - 1
           v == e.vals[i]
<1>1. /\ t = Plain("over") /\ Len(c.stack) >= 2 /\ IsCopy(c.stack[Len(c.stack) - 1])
      /\ d.stack = Append(c.stack, c.stack[Len(c.stack) - 1]) /\ StackOnly(c, d)
  BY DEF OverStep
<1>2. i = Len(c.stack) - 1 /\ i \in 1..Len(c.stack) /\ v \in ValuesHere /\ v.slot = c.stack[Len(c.stack) - 1]
  <2>1. Len(c.stack) \in Nat /\ Len(e.vals) = Len(c.stack)
    BY SyncIs
  <2>2. i = Len(c.stack) - 1 /\ i \in 1..Len(c.stack)
    BY <1>1, <2>1
  <2> QED BY <2>2, SyncIs
<1>3. InSlot(i) \in DOMAIN Held(e) /\ Held(e)[InSlot(i)] = v
  BY <1>2, HeldIs, SyncIs
<1>4. Doing(t, e) = Pushed(e, v, e.alive)
  BY <1>1, OverDoes DEF Sync, Pushed
<1> HIDE DEF v, i
<1> QED BY <1>1, <1>2, <1>3, <1>4, CopyAgrees DEF StackOnly

LEMMA BorrowStepKeeps ==
  ASSUME NEW c, NEW e, Sync(c, e), NEW t, NEW d, BorrowStep(t, c, d)
  PROVE  Sync(d, Run(e, t))
<1>1. PICK n \in PolyNames, mutable \in BOOLEAN :
        /\ t = [Plain("borrow") EXCEPT !.n = n, !.mutable = mutable]
        /\ c.locals[n] \in {Own("lin"), Own("agg")} /\ c.states[n] \in {"absent", "live"}
        /\ InWayOf(c, n, ~mutable) = {}
        /\ d.stack = Append(c.stack, Ref(mutable, c.locals[n].of)) /\ d.locals = c.locals /\ d.states = c.states
        /\ d.borrows = PrunedOf(c) \cup {[place |-> n, mutable |-> mutable]}
  BY DEF BorrowStep
<1> DEFINE x == e.env[n]
           v == Value(Ref(mutable, x.slot.of), x.at, n)
           f == Pushed(e, v, e.alive)
<1>2. c.locals[n] # None
  BY <1>1, NoneIsNoValue DEF SlotsHere, Own
<1>3. x # None /\ x \in ValuesHere /\ x.slot = c.locals[n]
  BY <1>2, SyncIs
<1>4. /\ v \in ValuesHere /\ IsRef(v.slot) /\ v.from = n /\ v.at = x.at /\ v.slot = Ref(mutable, c.locals[n].of)
      /\ v.slot.of # "agg" => Linear(x)
      /\ v.slot.kind = "mut" <=> mutable
      /\ RecordOf(v) = [place |-> n, mutable |-> mutable]
  BY <1>1, <1>3 DEF ValuesHere, SlotsHere, Value, Ref, Own, IsRef, Linear, RecordOf
<1>5. Doing(t, e) = f
  BY <1>1, BorrowDoes DEF Pushed, Sync
<1>6. InName(n) \in DOMAIN Held(e) /\ Held(e)[InName(n)] = x
  <2>1. n \notin e.spent
    BY <1>1 DEF Sync, Matches, SpentMatches
  <2> QED BY <1>3, <2>1, HeldIs, SyncIs
<1> HIDE DEF x, v
<1>7. ExecOK(f) /\ f.alive = e.alive /\ More(Held(e), Held(f), InSlot(Len(e.vals) + 1), v)
  BY <1>4, PushHeld, SyncIs
<1>8. \A q \in DOMAIN Held(e) : Refers(Held(e)[q]) => RecordOf(Held(e)[q]) \in PrunedOf(c)
  BY PruningKeeps
<1>9. \A q \in DOMAIN Held(e) : Refers(Held(e)[q]) /\ Held(e)[q].from = n => Held(e)[q].slot.kind # "mut" /\ v.slot.kind # "mut"
  <2> SUFFICES ASSUME NEW q \in DOMAIN Held(e), Refers(Held(e)[q]), Held(e)[q].from = n
               PROVE  Held(e)[q].slot.kind # "mut" /\ v.slot.kind # "mut"
    OBVIOUS
  <2>1. RecordOf(Held(e)[q]) \in PrunedOf(c) /\ RecordOf(Held(e)[q]).place = n
        /\ (RecordOf(Held(e)[q]).mutable <=> Held(e)[q].slot.kind = "mut")
    BY <1>8 DEF RecordOf
  <2>2. ~(RecordOf(Held(e)[q]).mutable \/ mutable)
    BY <1>1, <2>1 DEF InWayOf
  <2> QED BY <1>4, <2>1, <2>2
<1>10. Good(Held(f), e.alive, d.borrows)
  <2>1. \A q \in DOMAIN Held(e) : Refers(Held(e)[q]) => RecordOf(Held(e)[q]) \in d.borrows
    BY <1>1, <1>8
  <2>2. RecordOf(v) \in d.borrows
    BY <1>1, <1>4
  <2>3. Good(Held(e), e.alive, c.borrows)
    BY SyncIs
  <2> QED BY <1>4, <1>6, <1>7, <1>9, <2>1, <2>2, <2>3, BorrowKeeps
<1>11. /\ d.borrows \subseteq [place : PolyNames, mutable : BOOLEAN]
       /\ \A a, b \in d.borrows : a.place = b.place => a = b
  <2>1. PrunedOf(c) \subseteq [place : PolyNames, mutable : BOOLEAN] /\ \A a, b \in PrunedOf(c) : a.place = b.place => a = b
    BY SyncIs
  <2>2. \A b \in PrunedOf(c) : b.place = n => b = [place |-> n, mutable |-> mutable]
    BY <1>1, <2>1 DEF InWayOf
  <2> QED BY <1>1, <2>1, <2>2
<1>12. StateOK(d) /\ Matches(d, f)
  <2>1. d.stack = Append(c.stack, v.slot) /\ d.locals = c.locals /\ d.states = c.states
    BY <1>1, <1>4
  <2>2. e.alive \in SUBSET Nat /\ IsFiniteSet(e.alive)
    BY SyncIs
  <2>3. v \in ValuesHere
    BY <1>4
  <2> QED BY <1>11, <2>1, <2>2, <2>3, PushAgrees
<1> QED BY <1>5, <1>7, <1>10, <1>12, RunSync

\* nothing refers to what is dropped, and it is not linear
LEMMA DropKeeps ==
  ASSUME NEW H, NEW G, NEW p, NEW alive, NEW records,
         Good(H, alive, records), More(G, H, p, H[p]), ~Linear(H[p]), \A n : p # InName(n)
  PROVE  Good(G, alive, records)
<1> DEFINE phi == [q \in DOMAIN G |-> q]
<1>1. DOMAIN H = DOMAIN G \cup {p} /\ p \notin DOMAIN G /\ \A k \in DOMAIN G : H[k] = G[k]
  BY DEF More
<1>2. \A q \in DOMAIN G : phi[q] = q
  OBVIOUS
<1> HIDE DEF phi
<1>3. \A q \in DOMAIN G : Refers(G[q]) => RecordOf(G[q]) \in records
  BY <1>1 DEF Good, Recorded
<1>4. \A q \in DOMAIN G : Refers(G[q]) /\ G[q].slot.of # "agg" =>
        InName(G[q].from) \in DOMAIN G /\ phi[InName(G[q].from)] = InName(G[q].from)
  BY <1>1, <1>2 DEF Good, Rooted, RootedIn
<1>5. Carry(H, G, phi, records)
  BY <1>1, <1>2, <1>3, <1>4 DEF Carry
<1> QED BY <1>5, CarryKeeps

Popped(e, alive) == Exec(Without(e.vals, 1), e.env, e.spent, alive)

LEMMA PopHeld ==
  ASSUME NEW e, ExecOK(e), e.vals # <<>>, NEW alive \in SUBSET Nat, IsFiniteSet(alive)
  PROVE  /\ ExecOK(Popped(e, alive)) /\ Popped(e, alive).alive = alive
         /\ Popped(e, alive).vals = Without(e.vals, 1) /\ Popped(e, alive).env = e.env /\ Popped(e, alive).spent = e.spent
         /\ InSlot(Len(e.vals)) \in DOMAIN Held(e) /\ Held(e)[InSlot(Len(e.vals))] = e.vals[Len(e.vals)]
         /\ More(Held(Popped(e, alive)), Held(e), InSlot(Len(e.vals)), Held(e)[InSlot(Len(e.vals))])
<1> DEFINE f == Popped(e, alive)
           vals == Without(e.vals, 1)
           E == e.env
           S == e.spent
           len == Len(e.vals)
<1>1. /\ e.vals \in Seq(ValuesHere) /\ Len(e.vals) \in Nat
      /\ e.env \in [PolyNames -> ValuesHere \cup {None}] /\ e.spent \in SUBSET PolyNames
  BY ExecIs
<1>2. /\ vals \in Seq(ValuesHere) /\ Len(vals) = len - 1 /\ len \in Nat /\ len > 0
      /\ \A i \in 1..len - 1 : vals[i] = e.vals[i]
  BY <1>1, PopIs
<1>3. f = Exec(vals, E, S, alive)
  BY DEF Popped
<1> HIDE DEF vals, f
<1>4. ExecOK(f) /\ f.vals = vals /\ f.env = e.env /\ f.spent = e.spent /\ f.alive = alive
  <2>1. E \in [PolyNames -> ValuesHere \cup {None}] /\ S \in SUBSET PolyNames
    BY <1>1
  <2> HIDE DEF E, S
  <2>2. ExecOK(f) /\ f.vals = vals /\ f.env = E /\ f.spent = S /\ f.alive = alive
    BY <1>2, <1>3, <2>1, ExecBecomes
  <2> QED BY <2>2 DEF E, S
<1> DEFINE H == Held(e)
           G == Held(f)
           old == InSlot(len)
<1>5. /\ DOMAIN H = HeldPlaces(e) /\ DOMAIN G = HeldPlaces(f)
      /\ \A i : InSlot(i) \in DOMAIN H <=> i \in 1..len
      /\ \A i : InSlot(i) \in DOMAIN G <=> i \in 1..len - 1
      /\ \A n : InName(n) \in DOMAIN H <=> n \in PolyNames /\ e.env[n] # None /\ n \notin e.spent
      /\ \A n : InName(n) \in DOMAIN G <=> n \in PolyNames /\ e.env[n] # None /\ n \notin e.spent
  BY <1>2, <1>4, HeldIs
<1>6. /\ \A i \in 1..len : H[InSlot(i)] = e.vals[i]
      /\ \A i \in 1..len - 1 : G[InSlot(i)] = vals[i]
      /\ \A n \in PolyNames : InName(n) \in DOMAIN H => H[InName(n)] = e.env[n]
      /\ \A n \in PolyNames : InName(n) \in DOMAIN G => G[InName(n)] = e.env[n]
  BY <1>2, <1>4, HeldIs
<1>7. /\ \A p \in DOMAIN H : (\E i \in 1..len : p = InSlot(i)) \/ (\E n \in PolyNames : p = InName(n))
      /\ \A p \in DOMAIN G : (\E i \in 1..len - 1 : p = InSlot(i)) \/ (\E n \in PolyNames : p = InName(n))
  BY <1>2, <1>4, HeldIs
<1> HIDE DEF H, G
<1>8. \A i \in 1..len : i \in 1..len - 1 \/ i = len
  BY <1>1
<1>9. old \notin DOMAIN G /\ old \in DOMAIN H
  BY <1>1, <1>2, <1>5
<1>10. DOMAIN H = DOMAIN G \cup {old}
  <2>1. DOMAIN H \subseteq DOMAIN G \cup {old}
    BY <1>5, <1>7, <1>8
  <2>2. DOMAIN G \subseteq DOMAIN H
    BY <1>1, <1>5, <1>7
  <2> QED BY <1>9, <2>1, <2>2
<1>11. \A q \in DOMAIN G : H[q] = G[q]
  <2> SUFFICES ASSUME NEW q \in DOMAIN G PROVE G[q] = H[q]
    OBVIOUS
  <2>1. CASE \E i \in 1..len - 1 : q = InSlot(i)
    BY <1>1, <1>2, <1>6, <2>1
  <2>2. CASE \E n \in PolyNames : q = InName(n)
    BY <1>6, <1>10, <2>2
  <2> QED BY <1>7, <2>1, <2>2
<1>12. More(G, H, old, H[old])
  BY <1>9, <1>10, <1>11 DEF More
<1>13. H[old] = e.vals[len]
  BY <1>2, <1>6
<1> QED BY <1>4, <1>9, <1>12, <1>13 DEF G, H, f, vals

LEMMA ConsumeKeeps ==
  ASSUME NEW c, NEW e, Sync(c, e), NEW t, NEW d, ConsumeStep(t, c, d)
  PROVE  Sync(d, Run(e, t))
<1> DEFINE len == Len(e.vals)
           v == e.vals[len]
           alive == IF Linear(v) THEN e.alive \ {v.at} ELSE e.alive
           f == Popped(e, alive)
           p == InSlot(len)
<1>1. t = Plain("consume") /\ c.stack # <<>> /\ d.stack = Without(c.stack, 1) /\ StackOnly(c, d)
  BY DEF ConsumeStep
<1>2. /\ d.stack \in Seq(SlotsHere) /\ Len(d.stack) = len - 1 /\ len \in Nat /\ len > 0
      /\ \A i \in 1..len - 1 : d.stack[i] = c.stack[i]
  BY <1>1, SyncIs, PopIs
<1>3. Doing(t, e) = f
  BY <1>1, ConsumeDoes DEF Sync, Popped
<1>4. alive \in SUBSET Nat /\ IsFiniteSet(alive)
  BY SyncIs, FS_RemoveElement
<1>5. e.vals # <<>>
  BY <1>2
<1> HIDE DEF alive
<1>6. /\ ExecOK(f) /\ f.alive = alive /\ f.vals = Without(e.vals, 1) /\ f.env = e.env /\ f.spent = e.spent
      /\ p \in DOMAIN Held(e) /\ Held(e)[p] = v
      /\ More(Held(f), Held(e), p, Held(e)[p])
  BY <1>4, <1>5, PopHeld, SyncIs
<1>7. \A n : p # InName(n)
  BY PlacesDiffer
<1>8. Good(Held(f), alive, c.borrows)
  <2>1. Good(Held(e), e.alive, c.borrows)
    BY SyncIs
  <2> HIDE DEF p, f, v
  <2>2. CASE Linear(v)
    <3>1. Good(Held(f), e.alive \ {Held(e)[p].at}, c.borrows)
      BY <1>6, <1>7, <2>1, <2>2, DisposeKeeps
    <3> QED BY <1>6, <2>2, <3>1 DEF alive
  <2>3. CASE ~Linear(v)
    <3>1. Good(Held(f), e.alive, c.borrows)
      BY <1>6, <1>7, <2>1, <2>3, DropKeeps
    <3> QED BY <2>3, <3>1 DEF alive
  <2> QED BY <2>2, <2>3
<1>9. StateOK(d)
  BY <1>1, <1>2 DEF Sync, StateOK, StackOnly
<1>10. StackMatches(d, f)
  <2>1. /\ e.vals \in Seq(ValuesHere) /\ e.vals # <<>>
        /\ \A i \in 1..len : e.vals[i].slot = c.stack[i]
    BY <1>5, ExecIs, SyncIs
  <2>2. Len(f.vals) = len - 1 /\ \A i \in 1..len - 1 : f.vals[i] = e.vals[i]
    BY <1>6, <2>1, PopIs
  <2> HIDE DEF f
  <2> QED BY <1>2, <2>1, <2>2 DEF StackMatches
<1>11. ScopeMatches(d, f) /\ SpentMatches(d, f)
  <2> HIDE DEF f
  <2> QED BY <1>1, <1>6 DEF Sync, Matches, ScopeMatches, SpentMatches, StackOnly
<1>12. d.borrows = c.borrows
  BY <1>1 DEF StackOnly
<1> QED BY <1>3, <1>6, <1>8, <1>9, <1>10, <1>11, <1>12, RunSync DEF Matches

LEMMA RotateKeeps ==
  ASSUME NEW c, NEW e, Sync(c, e), NEW t, NEW d, RotateStep(t, c, d)
  PROVE  Sync(d, Run(e, t))
<1>1. PICK k \in 2..3 :
        /\ t = [Plain("rotate") EXCEPT !.k = k] /\ Len(c.stack) >= k
        /\ d.stack = Rotated(c.stack, k) /\ StackOnly(c, d)
  BY DEF RotateStep
<1> DEFINE len == Len(e.vals)
           vals == Rotated(e.vals, k)
           E == e.env
           S == e.spent
           A == e.alive
           f == Exec(vals, E, S, A)
           was(i) == WasAt(len, k, i)
<1>2. /\ e.vals \in Seq(ValuesHere) /\ len \in Nat
      /\ E \in [PolyNames -> ValuesHere \cup {None}] /\ S \in SUBSET PolyNames
      /\ A \in SUBSET Nat /\ IsFiniteSet(A)
  BY ExecIs, SyncIs
<1>3. Len(c.stack) = len /\ c.stack \in Seq(SlotsHere) /\ len >= k /\ \A i \in 1..len : e.vals[i].slot = c.stack[i]
  BY <1>1, SyncIs
<1>4. /\ vals \in Seq(ValuesHere) /\ Len(vals) = len
      /\ \A i \in 1..len : was(i) \in 1..len /\ vals[i] = e.vals[was(i)]
      /\ \A i, j \in 1..len : was(i) = was(j) => i = j
      /\ \A j \in 1..len : \E i \in 1..len : was(i) = j
  <2> DEFINE s == e.vals
  <2>1. s \in Seq(ValuesHere) /\ Len(s) >= k
    BY <1>2, <1>3
  <2> HIDE DEF s
  <2>2. /\ Rotated(s, k) \in Seq(ValuesHere) /\ Len(Rotated(s, k)) = Len(s)
        /\ \A i \in 1..Len(s) : WasAt(Len(s), k, i) \in 1..Len(s) /\ Rotated(s, k)[i] = s[WasAt(Len(s), k, i)]
        /\ \A i, j \in 1..Len(s) : WasAt(Len(s), k, i) = WasAt(Len(s), k, j) => i = j
        /\ \A j \in 1..Len(s) : \E i \in 1..Len(s) : WasAt(Len(s), k, i) = j
    BY <2>1, RotatedIs, ZenonT(40)
  <2> QED BY <2>2 DEF s
<1>5. /\ d.stack \in Seq(SlotsHere) /\ Len(d.stack) = len
      /\ \A i \in 1..len : d.stack[i] = c.stack[was(i)]
  <2> DEFINE s == c.stack
  <2>1. s \in Seq(SlotsHere) /\ Len(s) >= k
    BY <1>1, <1>3
  <2> HIDE DEF s
  <2>2. /\ Rotated(s, k) \in Seq(SlotsHere) /\ Len(Rotated(s, k)) = Len(s)
        /\ \A i \in 1..Len(s) : WasAt(Len(s), k, i) \in 1..Len(s) /\ Rotated(s, k)[i] = s[WasAt(Len(s), k, i)]
    BY <2>1, RotatedIs
  <2> QED BY <1>1, <1>3, <2>2 DEF s
<1>6. Doing(t, e) = f
  BY <1>1, RotateDoes, SyncIs
<1>25. vals \in Seq(ValuesHere)
  BY <1>4
<1> HIDE DEF vals, E, S, A
<1>7. ExecOK(f) /\ f.vals = vals /\ f.env = E /\ f.spent = S /\ f.alive = A
  BY <1>2, <1>25, ExecBecomes
<1>26. Len(vals) = len
  BY <1>4
<1> HIDE DEF f, was
<1> DEFINE H == Held(e)
           G == Held(f)
           phi == [p \in DOMAIN G |-> IF \E i \in 1..len : p = InSlot(i) THEN InSlot(was(CHOOSE i \in 1..len : p = InSlot(i))) ELSE p]
<1>8. /\ \A i : InSlot(i) \in DOMAIN H <=> i \in 1..len
      /\ \A i : InSlot(i) \in DOMAIN G <=> i \in 1..len
      /\ \A n : InName(n) \in DOMAIN H <=> n \in PolyNames /\ E[n] # None /\ n \notin S
      /\ \A n : InName(n) \in DOMAIN G <=> n \in PolyNames /\ E[n] # None /\ n \notin S
  BY <1>7, <1>26, HeldIs, SyncIs DEF E, S
<1>9. /\ \A i \in 1..len : H[InSlot(i)] = e.vals[i]
      /\ \A i \in 1..len : G[InSlot(i)] = vals[i]
      /\ \A n \in PolyNames : InName(n) \in DOMAIN H => H[InName(n)] = E[n]
      /\ \A n \in PolyNames : InName(n) \in DOMAIN G => G[InName(n)] = E[n]
  BY <1>7, <1>26, HeldIs, SyncIs DEF E
<1>10. /\ \A p \in DOMAIN H : (\E i \in 1..len : p = InSlot(i)) \/ (\E n \in PolyNames : p = InName(n))
       /\ \A p \in DOMAIN G : (\E i \in 1..len : p = InSlot(i)) \/ (\E n \in PolyNames : p = InName(n))
  BY <1>7, <1>26, HeldIs, SyncIs
<1>11. Good(H, A, c.borrows)
  BY SyncIs DEF A
<1> HIDE DEF H, G
<1>12. \A i \in 1..len : InSlot(i) \in DOMAIN G /\ phi[InSlot(i)] = InSlot(was(i))
  <2> SUFFICES ASSUME NEW i \in 1..len PROVE InSlot(i) \in DOMAIN G /\ phi[InSlot(i)] = InSlot(was(i))
    OBVIOUS
  <2>1. InSlot(i) \in DOMAIN G
    BY <1>8
  <2>2. (CHOOSE j \in 1..len : InSlot(i) = InSlot(j)) = i
    BY PlacesDiffer
  <2> QED BY <2>1, <2>2
<1>13. \A n : InName(n) \in DOMAIN G => phi[InName(n)] = InName(n)
  BY PlacesDiffer
<1> HIDE DEF phi
<1>14. \A p \in DOMAIN G : phi[p] \in DOMAIN H /\ G[p] = H[phi[p]]
  <2> SUFFICES ASSUME NEW p \in DOMAIN G PROVE phi[p] \in DOMAIN H /\ G[p] = H[phi[p]]
    OBVIOUS
  <2>1. CASE \E i \in 1..len : p = InSlot(i)
    <3>1. PICK i \in 1..len : p = InSlot(i)
      BY <2>1
    <3>2. phi[p] = InSlot(was(i)) /\ was(i) \in 1..len /\ vals[i] = e.vals[was(i)]
      BY <1>4, <1>12, <3>1
    <3> QED BY <1>8, <1>9, <3>1, <3>2
  <2>2. CASE \E n \in PolyNames : p = InName(n)
    BY <1>8, <1>9, <1>13, <2>2
  <2> QED BY <1>10, <2>1, <2>2
<1>15. \A p, q \in DOMAIN G : phi[p] = phi[q] => p = q
  <2> SUFFICES ASSUME NEW p \in DOMAIN G, NEW q \in DOMAIN G, phi[p] = phi[q] PROVE p = q
    OBVIOUS
  <2>1. CASE \E i \in 1..len : p = InSlot(i)
    <3>1. PICK i \in 1..len : p = InSlot(i)
      BY <2>1
    <3>2. phi[p] = InSlot(was(i))
      BY <1>12, <3>1
    <3>3. \A n \in PolyNames : q # InName(n)
      BY <1>13, <3>2, PlacesDiffer
    <3>4. PICK j \in 1..len : q = InSlot(j)
      BY <1>10, <3>3
    <3>5. was(i) = was(j)
      BY <1>12, <3>2, <3>4, PlacesDiffer
    <3> QED BY <1>4, <3>1, <3>4, <3>5
  <2>2. CASE \E n \in PolyNames : p = InName(n)
    <3>1. \A i \in 1..len : q # InSlot(i)
      BY <1>12, <1>13, <2>2, PlacesDiffer
    <3> QED BY <1>10, <1>13, <2>2, <3>1
  <2> QED BY <1>10, <2>1, <2>2
<1>16. \A q \in DOMAIN H : \E p \in DOMAIN G : phi[p] = q
  <2> SUFFICES ASSUME NEW q \in DOMAIN H PROVE \E p \in DOMAIN G : phi[p] = q
    OBVIOUS
  <2>1. CASE \E i \in 1..len : q = InSlot(i)
    BY <1>4, <1>12, <2>1
  <2>2. CASE \E n \in PolyNames : q = InName(n)
    BY <1>8, <1>13, <2>2
  <2> QED BY <1>10, <2>1, <2>2
<1>17. \A p \in DOMAIN G : Refers(G[p]) => RecordOf(G[p]) \in c.borrows
  BY <1>11, <1>14 DEF Good, Recorded
<1>18. \A p \in DOMAIN G : Refers(G[p]) /\ G[p].slot.of # "agg" =>
         InName(G[p].from) \in DOMAIN G /\ phi[InName(G[p].from)] = InName(G[p].from)
  <2> SUFFICES ASSUME NEW p \in DOMAIN G, Refers(G[p]), G[p].slot.of # "agg"
               PROVE  InName(G[p].from) \in DOMAIN G
    BY <1>13
  <2>1. RootedIn(H, phi[p])
    BY <1>11, <1>14 DEF Good, Rooted
  <2>2. InName(G[p].from) \in DOMAIN H
    BY <1>14, <2>1 DEF RootedIn
  <2> QED BY <1>8, <2>2
<1>19. Carry(H, G, phi, c.borrows)
  BY <1>14, <1>15, <1>16, <1>17, <1>18 DEF Carry
<1>20. Good(G, A, c.borrows)
  BY <1>11, <1>19, CarryKeeps
<1>21. StateOK(d) /\ d.borrows = c.borrows
  BY <1>1, <1>5 DEF Sync, StateOK, StackOnly
<1>22. StackMatches(d, f)
  BY <1>3, <1>4, <1>5, <1>7 DEF StackMatches
<1>23. ScopeMatches(d, f) /\ SpentMatches(d, f)
  BY <1>1, <1>7 DEF Sync, Matches, ScopeMatches, SpentMatches, StackOnly, E, S
<1>24. Good(Held(Doing(t, e)), Doing(t, e).alive, d.borrows)
  BY <1>6, <1>7, <1>20, <1>21 DEF G
<1> QED BY <1>6, <1>7, <1>21, <1>22, <1>23, <1>24, RunSync DEF Matches

LEMMA BindKeeps ==
  ASSUME NEW c, NEW e, Sync(c, e), NEW t, NEW d, BindStep(t, c, d)
  PROVE  Sync(d, Run(e, t))
<1>1. PICK n \in PolyNames :
        /\ t = [Plain("bind") EXCEPT !.n = n] /\ c.stack # <<>> /\ c.locals[n] = None
        /\ d.stack = Without(c.stack, 1) /\ d.borrows = c.borrows
        /\ d.locals = [c.locals EXCEPT ![n] = c.stack[Len(c.stack)]]
        /\ d.states = IF IsCopy(c.stack[Len(c.stack)]) THEN c.states ELSE [c.states EXCEPT ![n] = "live"]
  BY DEF BindStep
<1> DEFINE len == Len(e.vals)
           v == e.vals[len]
           vals == Without(e.vals, 1)
           E == [e.env EXCEPT ![n] = v]
           S == e.spent \ {n}
           A == e.alive
           f == Exec(vals, E, S, A)
<1>2. /\ e.vals \in Seq(ValuesHere) /\ len \in Nat /\ Len(c.stack) = len /\ c.stack \in Seq(SlotsHere)
      /\ e.env \in [PolyNames -> ValuesHere \cup {None}] /\ e.spent \in SUBSET PolyNames
      /\ A \in SUBSET Nat /\ IsFiniteSet(A)
      /\ \A i \in 1..len : e.vals[i].slot = c.stack[i] /\ e.vals[i] \in ValuesHere
  BY ExecIs, SyncIs
<1>3. /\ len > 0 /\ Len(d.stack) = len - 1 /\ d.stack \in Seq(SlotsHere)
      /\ \A i \in 1..len - 1 : d.stack[i] = c.stack[i]
  BY <1>1, <1>2, PopIs
<1>4. v \in ValuesHere /\ v.slot = c.stack[len] /\ v.slot \in SlotsHere /\ v # None /\ v.slot # None
  BY <1>2, <1>3, NoneIsNoValue DEF ValuesHere
<1>5. /\ vals \in Seq(ValuesHere) /\ Len(vals) = len - 1
      /\ \A i \in 1..len - 1 : vals[i] = e.vals[i]
  <2>1. e.vals # <<>>
    BY <1>3
  <2> QED BY <1>2, <2>1, PopIs
<1>6. /\ E \in [PolyNames -> ValuesHere \cup {None}] /\ S \in SUBSET PolyNames
      /\ E[n] = v /\ \A m \in PolyNames : m # n => E[m] = e.env[m]
  BY <1>2, <1>4
<1>7. Doing(t, e) = f
  BY <1>1, BindDoes, SyncIs
<1>8. e.env[n] = None
  BY <1>1 DEF Sync, Matches, ScopeMatches
<1> DEFINE H == Held(e)
           G == Held(f)
           old == InSlot(len)
           new == InName(n)
<1>9. Good(H, A, c.borrows)
  BY SyncIs
<1>10. \A m : m \in S <=> m \in e.spent /\ m # n
  OBVIOUS
<1> HIDE DEF vals, E, S, A
<1>11. ExecOK(f) /\ f.vals = vals /\ f.env = E /\ f.spent = S /\ f.alive = A
  BY <1>2, <1>5, <1>6, ExecBecomes
<1> HIDE DEF f
<1>12. /\ \A i : InSlot(i) \in DOMAIN H <=> i \in 1..len
       /\ \A i : InSlot(i) \in DOMAIN G <=> i \in 1..len - 1
       /\ \A m : InName(m) \in DOMAIN H <=> m \in PolyNames /\ e.env[m] # None /\ m \notin e.spent
       /\ \A m : InName(m) \in DOMAIN G <=> m \in PolyNames /\ E[m] # None /\ m \notin S
  BY <1>5, <1>11, HeldIs, SyncIs
<1>13. /\ \A i \in 1..len : H[InSlot(i)] = e.vals[i]
       /\ \A i \in 1..len - 1 : G[InSlot(i)] = vals[i]
       /\ \A m \in PolyNames : InName(m) \in DOMAIN H => H[InName(m)] = e.env[m]
       /\ \A m \in PolyNames : InName(m) \in DOMAIN G => G[InName(m)] = E[m]
  BY <1>5, <1>11, HeldIs, SyncIs
<1>14. /\ \A p \in DOMAIN H : (\E i \in 1..len : p = InSlot(i)) \/ (\E m \in PolyNames : p = InName(m))
       /\ \A p \in DOMAIN G : (\E i \in 1..len - 1 : p = InSlot(i)) \/ (\E m \in PolyNames : p = InName(m))
  BY <1>5, <1>11, HeldIs, SyncIs
<1> HIDE DEF H, G
<1> DEFINE phi == [p \in DOMAIN G |-> IF p = new THEN old ELSE p]
<1>15. new \in DOMAIN G /\ new \notin DOMAIN H /\ old \in DOMAIN H /\ old \notin DOMAIN G /\ G[new] = v /\ H[old] = v
  BY <1>2, <1>3, <1>4, <1>6, <1>8, <1>10, <1>12, <1>13
<1>16. \A p \in DOMAIN G : p # new => p \in DOMAIN H /\ p # old /\ G[p] = H[p]
  <2> SUFFICES ASSUME NEW p \in DOMAIN G, p # new PROVE p \in DOMAIN H /\ p # old /\ G[p] = H[p]
    OBVIOUS
  <2>1. CASE \E i \in 1..len - 1 : p = InSlot(i)
    <3>1. PICK i \in 1..len - 1 : p = InSlot(i)
      BY <2>1
    <3>2. i \in 1..len /\ i # len
      BY <1>2
    <3> QED BY <1>5, <1>12, <1>13, <3>1, <3>2, PlacesDiffer
  <2>2. CASE \E m \in PolyNames : p = InName(m)
    <3>1. PICK m \in PolyNames : p = InName(m)
      BY <2>2
    <3>2. m # n
      BY <3>1
    <3> QED BY <1>6, <1>10, <1>12, <1>13, <3>1, <3>2, PlacesDiffer
  <2> QED BY <1>14, <2>1, <2>2
<1>17. \A q \in DOMAIN H : q # old => q \in DOMAIN G /\ q # new
  <2> SUFFICES ASSUME NEW q \in DOMAIN H, q # old PROVE q \in DOMAIN G
    BY <1>15
  <2>1. CASE \E i \in 1..len : q = InSlot(i)
    <3>1. PICK i \in 1..len : q = InSlot(i)
      BY <2>1
    <3>2. i \in 1..len - 1
      BY <1>2, <3>1
    <3> QED BY <1>12, <3>1, <3>2
  <2>2. CASE \E m \in PolyNames : q = InName(m)
    BY <1>6, <1>8, <1>10, <1>12, <2>2
  <2> QED BY <1>14, <2>1, <2>2
<1>18. phi[new] = old /\ \A p \in DOMAIN G : p # new => phi[p] = p
  BY <1>15
<1> HIDE DEF phi
<1>19. \A p \in DOMAIN G : phi[p] \in DOMAIN H /\ G[p] = H[phi[p]]
  BY <1>15, <1>16, <1>18
<1>20. \A p, q \in DOMAIN G : phi[p] = phi[q] => p = q
  BY <1>15, <1>16, <1>18
<1>21. \A q \in DOMAIN H : \E p \in DOMAIN G : phi[p] = q
  BY <1>15, <1>17, <1>18
<1>22. \A p \in DOMAIN G : Refers(G[p]) => RecordOf(G[p]) \in c.borrows
  BY <1>9, <1>19 DEF Good, Recorded
<1>23. \A p \in DOMAIN G : Refers(G[p]) /\ G[p].slot.of # "agg" =>
         InName(G[p].from) \in DOMAIN G /\ phi[InName(G[p].from)] = InName(G[p].from)
  <2> SUFFICES ASSUME NEW p \in DOMAIN G, Refers(G[p]), G[p].slot.of # "agg"
               PROVE  InName(G[p].from) \in DOMAIN G /\ phi[InName(G[p].from)] = InName(G[p].from)
    OBVIOUS
  <2>1. RootedIn(H, phi[p])
    BY <1>9, <1>19 DEF Good, Rooted
  <2>2. InName(G[p].from) \in DOMAIN H
    BY <1>19, <2>1 DEF RootedIn
  <2>3. InName(G[p].from) # old
    BY PlacesDiffer
  <2> QED BY <1>17, <1>18, <2>2, <2>3
<1>24. Carry(H, G, phi, c.borrows)
  BY <1>19, <1>20, <1>21, <1>22, <1>23 DEF Carry
<1>25. Good(G, A, c.borrows)
  BY <1>9, <1>24, CarryKeeps
<1>26. StateOK(d)
  <2>1. StateOK(c)
    BY SyncIs
  <2>2. d.locals \in [PolyNames -> SlotsHere \cup {None}] /\ d.locals[n] = v.slot /\ \A m \in PolyNames : m # n => d.locals[m] = c.locals[m]
    BY <1>1, <1>2, <1>4, <2>1 DEF StateOK
  <2>3. /\ d.states \in [PolyNames -> MoveStatesHere]
        /\ d.states[n] = "absent" <=> IsCopy(v.slot)
        /\ \A m \in PolyNames : m # n => d.states[m] = c.states[m]
    BY <1>1, <1>2, <1>4, <2>1 DEF StateOK, MoveStatesHere
  <2>4. \A m \in PolyNames : d.states[m] = "absent" <=> d.locals[m] = None \/ IsCopy(d.locals[m])
    BY <1>4, <2>1, <2>2, <2>3 DEF StateOK
  <2> QED BY <1>1, <1>3, <2>1, <2>2, <2>3, <2>4 DEF StateOK
<1>27. StackMatches(d, f)
  <2>1. \A i \in 1..len - 1 : i \in 1..len
    BY <1>2
  <2> QED BY <1>2, <1>3, <1>5, <1>11, <2>1 DEF StackMatches
<1>28. ScopeMatches(d, f)
  <2>1. c.locals \in [PolyNames -> SlotsHere \cup {None}] /\ ScopeMatches(c, e)
    BY DEF Sync, StateOK, Matches
  <2> QED BY <1>1, <1>2, <1>4, <1>6, <1>11, <2>1 DEF ScopeMatches
<1>29. SpentMatches(d, f)
  <2>1. c.locals \in [PolyNames -> SlotsHere \cup {None}] /\ c.states \in [PolyNames -> MoveStatesHere] /\ SpentMatches(c, e)
    BY DEF Sync, StateOK, Matches
  <2>2. c.states[n] = "absent"
    BY <1>1 DEF Sync, StateOK
  <2> SUFFICES ASSUME NEW m \in PolyNames
               PROVE  /\ m \in S => d.locals[m] # None
                      /\ d.states[m] \in {"absent", "live"} => m \notin S
                      /\ d.states[m] = "moved" => m \in S
    BY <1>11 DEF SpentMatches
  <2>3. CASE m = n
    <3>1. d.states[n] \in {"absent", "live"}
      BY <1>1, <2>1, <2>2
    <3> QED BY <1>10, <2>3, <3>1
  <2>4. CASE m # n
    <3>1. d.states[m] = c.states[m] /\ d.locals[m] = c.locals[m]
      BY <1>1, <2>1, <2>4
    <3> QED BY <1>10, <2>1, <2>4, <3>1 DEF SpentMatches
  <2> QED BY <2>3, <2>4
<1>30. Good(Held(Doing(t, e)), Doing(t, e).alive, d.borrows)
  BY <1>1, <1>7, <1>11, <1>25 DEF G
<1> QED BY <1>7, <1>11, <1>26, <1>27, <1>28, <1>29, <1>30, RunSync DEF Matches

\* a value that is not Copy is taken out of its local: nothing refers to it
LEMMA TakeKeeps ==
  ASSUME NEW c, NEW e, Sync(c, e), NEW n \in PolyNames, c.locals[n] # None, ~IsCopy(c.locals[n]),
         c.states[n] = "live", InWayOf(c, n, FALSE) = {}, NEW t, t = [Plain("name") EXCEPT !.n = n], NEW d,
         d.stack = Append(c.stack, c.locals[n]), d.locals = c.locals, d.borrows = PrunedOf(c),
         d.states = [c.states EXCEPT ![n] = "moved"]
  PROVE  Sync(d, Run(e, t))
<1> DEFINE len == Len(e.vals)
           v == e.env[n]
           vals == Append(e.vals, v)
           E == e.env
           S == e.spent \cup {n}
           A == e.alive
           f == Exec(vals, E, S, A)
<1>1. /\ e.vals \in Seq(ValuesHere) /\ len \in Nat /\ Len(c.stack) = len /\ c.stack \in Seq(SlotsHere)
      /\ E \in [PolyNames -> ValuesHere \cup {None}] /\ e.spent \in SUBSET PolyNames
      /\ A \in SUBSET Nat /\ IsFiniteSet(A)
      /\ \A i \in 1..len : e.vals[i].slot = c.stack[i] /\ e.vals[i] \in ValuesHere
  BY ExecIs, SyncIs
<1>2. v \in ValuesHere /\ v # None /\ v.slot = c.locals[n] /\ v.slot \in SlotsHere
  BY SyncIs DEF ValuesHere
<1>3. Linear(v) \/ v.slot.kind = "mut"
  BY <1>2, CopyIs
<1>4. n \notin e.spent
  BY DEF Sync, Matches, SpentMatches
<1>5. /\ vals \in Seq(ValuesHere) /\ Len(vals) = len + 1
      /\ \A i \in 1..len : vals[i] = e.vals[i]
      /\ vals[len + 1] = v
  BY <1>1, <1>2, PushIs
<1>6. /\ d.stack \in Seq(SlotsHere) /\ Len(d.stack) = len + 1
      /\ \A i \in 1..len : d.stack[i] = c.stack[i]
      /\ d.stack[len + 1] = v.slot
  BY <1>1, <1>2, PushIs
<1>7. Doing(t, e) = f
  BY <1>3, NameDoes, SyncIs
<1> DEFINE H == Held(e)
           G == Held(f)
           old == InName(n)
           new == InSlot(len + 1)
<1>8. Good(H, A, c.borrows) /\ S \in SUBSET PolyNames
  BY <1>1, SyncIs
<1>9. \A m : m \in S <=> m \in e.spent \/ m = n
  OBVIOUS
<1>10. vals \in Seq(ValuesHere) /\ Len(vals) = len + 1
  BY <1>5
<1> HIDE DEF vals, S, A, E, v
<1>11. ExecOK(f) /\ f.vals = vals /\ f.env = E /\ f.spent = S /\ f.alive = A
  <2>1. /\ vals \in Seq(ValuesHere) /\ E \in [PolyNames -> ValuesHere \cup {None}] /\ S \in SUBSET PolyNames
        /\ A \in SUBSET Nat /\ IsFiniteSet(A)
    BY <1>1, <1>8, <1>10
  <2> QED BY <2>1, ExecBecomes
<1> HIDE DEF f
<1>12. /\ \A i : InSlot(i) \in DOMAIN H <=> i \in 1..len
       /\ \A i : InSlot(i) \in DOMAIN G <=> i \in 1..len + 1
       /\ \A m : InName(m) \in DOMAIN H <=> m \in PolyNames /\ E[m] # None /\ m \notin e.spent
       /\ \A m : InName(m) \in DOMAIN G <=> m \in PolyNames /\ E[m] # None /\ m \notin S
  BY <1>10, <1>11, HeldIs, SyncIs DEF E
<1>13. /\ \A i \in 1..len : H[InSlot(i)] = e.vals[i]
       /\ \A i \in 1..len + 1 : G[InSlot(i)] = vals[i]
       /\ \A m \in PolyNames : InName(m) \in DOMAIN H => H[InName(m)] = E[m]
       /\ \A m \in PolyNames : InName(m) \in DOMAIN G => G[InName(m)] = E[m]
  BY <1>10, <1>11, HeldIs, SyncIs DEF E
<1>14. /\ \A p \in DOMAIN H : (\E i \in 1..len : p = InSlot(i)) \/ (\E m \in PolyNames : p = InName(m))
       /\ \A p \in DOMAIN G : (\E i \in 1..len + 1 : p = InSlot(i)) \/ (\E m \in PolyNames : p = InName(m))
  <2>1. ExecOK(e) /\ ExecOK(f) /\ Len(f.vals) = len + 1
    BY <1>10, <1>11, SyncIs
  <2> QED BY <2>1, HeldIs
<1>31. E[n] = v
  BY DEF E, v
<1> HIDE DEF H, G
<1> DEFINE phi == [p \in DOMAIN G |-> IF p = new THEN old ELSE p]
<1>15. new \in DOMAIN G /\ new \notin DOMAIN H /\ old \in DOMAIN H /\ old \notin DOMAIN G /\ G[new] = v /\ H[old] = v
  <2>1. new \in DOMAIN G /\ new \notin DOMAIN H
    BY <1>1, <1>12
  <2>2. old \in DOMAIN H /\ old \notin DOMAIN G
    BY <1>2, <1>4, <1>9, <1>12, <1>31
  <2>3. G[new] = vals[len + 1]
    BY <1>1, <1>13
  <2>4. H[old] = E[n]
    BY <1>13, <2>2
  <2> QED BY <1>5, <1>31, <2>1, <2>2, <2>3, <2>4
<1>16. \A p \in DOMAIN G : p # new => p \in DOMAIN H /\ p # old /\ G[p] = H[p]
  <2> SUFFICES ASSUME NEW p \in DOMAIN G, p # new PROVE p \in DOMAIN H /\ p # old /\ G[p] = H[p]
    OBVIOUS
  <2>1. CASE \E i \in 1..len + 1 : p = InSlot(i)
    <3>1. PICK i \in 1..len + 1 : p = InSlot(i)
      BY <2>1
    <3>2. i \in 1..len
      BY <1>1, <3>1
    <3> QED BY <1>5, <1>12, <1>13, <3>1, <3>2, PlacesDiffer
  <2>2. CASE \E m \in PolyNames : p = InName(m)
    <3>1. PICK m \in PolyNames : p = InName(m)
      BY <2>2
    <3>2. m # n
      BY <1>15, <3>1
    <3> QED BY <1>9, <1>12, <1>13, <3>1, <3>2, PlacesDiffer
  <2> QED BY <1>14, <2>1, <2>2
<1>17. \A q \in DOMAIN H : q # old => q \in DOMAIN G /\ q # new
  <2> SUFFICES ASSUME NEW q \in DOMAIN H, q # old PROVE q \in DOMAIN G
    BY <1>15
  <2>1. CASE \E i \in 1..len : q = InSlot(i)
    <3>1. PICK i \in 1..len : q = InSlot(i)
      BY <2>1
    <3>2. i \in 1..len + 1
      BY <1>1, <3>1
    <3> QED BY <1>12, <3>1, <3>2
  <2>2. CASE \E m \in PolyNames : q = InName(m)
    BY <1>9, <1>12, <2>2
  <2> QED BY <1>14, <2>1, <2>2
<1>18. phi[new] = old /\ \A p \in DOMAIN G : p # new => phi[p] = p
  BY <1>15
<1> HIDE DEF phi
<1>19. \A p \in DOMAIN G : phi[p] \in DOMAIN H /\ G[p] = H[phi[p]]
  BY <1>15, <1>16, <1>18
<1>20. \A p, q \in DOMAIN G : phi[p] = phi[q] => p = q
  BY <1>15, <1>16, <1>18
<1>21. \A q \in DOMAIN H : \E p \in DOMAIN G : phi[p] = q
  BY <1>15, <1>17, <1>18
<1>22. \A q \in DOMAIN H : Refers(H[q]) => RecordOf(H[q]) \in d.borrows
  BY PruningKeeps DEF H
<1>23. \A q \in DOMAIN H : Refers(H[q]) => H[q].from # n
  <2> SUFFICES ASSUME NEW q \in DOMAIN H, Refers(H[q]), H[q].from = n PROVE FALSE
    OBVIOUS
  <2>1. RecordOf(H[q]) \in PrunedOf(c) /\ RecordOf(H[q]).place = n
    BY <1>22 DEF RecordOf
  <2> QED BY <2>1 DEF InWayOf
<1>24. \A p \in DOMAIN G : Refers(G[p]) /\ G[p].slot.of # "agg" =>
         InName(G[p].from) \in DOMAIN G /\ phi[InName(G[p].from)] = InName(G[p].from)
  <2> SUFFICES ASSUME NEW p \in DOMAIN G, Refers(G[p]), G[p].slot.of # "agg"
               PROVE  InName(G[p].from) \in DOMAIN G /\ phi[InName(G[p].from)] = InName(G[p].from)
    OBVIOUS
  <2>1. RootedIn(H, phi[p])
    BY <1>8, <1>19 DEF Good, Rooted
  <2>2. InName(G[p].from) \in DOMAIN H
    BY <1>19, <2>1 DEF RootedIn
  <2>3. InName(G[p].from) # old
    BY <1>19, <1>23, PlacesDiffer
  <2> QED BY <1>17, <1>18, <2>2, <2>3
<1>25. Carry(H, G, phi, d.borrows)
  BY <1>19, <1>20, <1>21, <1>22, <1>24 DEF Carry
<1>26. Good(G, A, d.borrows)
  BY <1>8, <1>25, CarryKeeps
<1>27. StateOK(d)
  <2>1. StateOK(c) /\ PrunedOf(c) \subseteq c.borrows
    BY SyncIs
  <2>2. /\ d.states \in [PolyNames -> MoveStatesHere] /\ d.states[n] = "moved"
        /\ \A m \in PolyNames : m # n => d.states[m] = c.states[m]
    BY <2>1 DEF StateOK, MoveStatesHere
  <2>3. \A m \in PolyNames : d.states[m] = "absent" <=> d.locals[m] = None \/ IsCopy(d.locals[m])
    BY <2>1, <2>2 DEF StateOK
  <2> QED BY <1>6, <2>1, <2>2, <2>3 DEF StateOK
<1>28. StackMatches(d, f)
  <2> SUFFICES ASSUME NEW i \in 1..len + 1 PROVE vals[i].slot = d.stack[i]
    BY <1>6, <1>10, <1>11 DEF StackMatches
  <2>1. i \in 1..len \/ i = len + 1
    BY <1>1
  <2> QED BY <1>1, <1>5, <1>6, <2>1
<1>29. ScopeMatches(d, f)
  BY <1>11 DEF Sync, Matches, ScopeMatches, E
<1>30. SpentMatches(d, f)
  <2>1. c.states \in [PolyNames -> MoveStatesHere] /\ SpentMatches(c, e)
    BY DEF Sync, StateOK, Matches
  <2> SUFFICES ASSUME NEW m \in PolyNames
               PROVE  /\ m \in S => d.locals[m] # None
                      /\ d.states[m] \in {"absent", "live"} => m \notin S
                      /\ d.states[m] = "moved" => m \in S
    BY <1>11 DEF SpentMatches
  <2>2. CASE m = n
    <3>1. d.states[n] = "moved"
      BY <2>1
    <3> QED BY <1>9, <2>2, <3>1
  <2>3. CASE m # n
    <3>1. d.states[m] = c.states[m]
      BY <2>1, <2>3
    <3> QED BY <1>9, <2>1, <2>3, <3>1 DEF SpentMatches
  <2> QED BY <2>2, <2>3
<1>32. Good(Held(Doing(t, e)), Doing(t, e).alive, d.borrows)
  BY <1>7, <1>11, <1>26 DEF G
<1> QED BY <1>7, <1>11, <1>27, <1>28, <1>29, <1>30, <1>32, RunSync DEF Matches

LEMMA NameKeeps ==
  ASSUME NEW c, NEW e, Sync(c, e), NEW t, NEW d, NameStep(t, c, d)
  PROVE  Sync(d, Run(e, t))
<1>1. PICK n \in PolyNames :
        /\ t = [Plain("name") EXCEPT !.n = n] /\ c.locals[n] # None /\ c.states[n] \in {"absent", "live"}
        /\ InWayOf(c, n, IsCopy(c.locals[n])) = {}
        /\ d.stack = Append(c.stack, c.locals[n]) /\ d.locals = c.locals /\ d.borrows = PrunedOf(c)
        /\ d.states = [c.states EXCEPT ![n] = IF @ = "live" THEN "moved" ELSE @]
  BY DEF NameStep
<1>2. c.states \in [PolyNames -> MoveStatesHere] /\ (c.states[n] = "absent" <=> IsCopy(c.locals[n]))
  BY <1>1 DEF Sync, StateOK
<1>3. CASE IsCopy(c.locals[n])
  <2> DEFINE v == e.env[n]
             p == InName(n)
  <2>1. v \in ValuesHere /\ v # None /\ v.slot = c.locals[n]
    BY <1>1, SyncIs
  <2>2. n \notin e.spent
    BY <1>1 DEF Sync, Matches, SpentMatches
  <2>3. p \in DOMAIN Held(e) /\ Held(e)[p] = v
    BY <2>1, <2>2, HeldIs, SyncIs
  <2>4. ~Linear(v) /\ v.slot.kind # "mut"
    BY <1>3, <2>1, CopyIs
  <2>5. Doing(t, e) = Pushed(e, v, e.alive)
    BY <1>1, <2>4, NameDoes, SyncIs DEF Pushed
  <2>6. d.states = c.states
    BY <1>1, <1>2, <1>3
  <2> HIDE DEF v, p
  <2> QED BY <1>1, <1>3, <2>1, <2>3, <2>5, <2>6, CopyAgrees
<1>4. CASE ~IsCopy(c.locals[n])
  <2>1. c.states[n] = "live"
    BY <1>1, <1>2, <1>4
  <2>2. d.states = [c.states EXCEPT ![n] = "moved"]
    BY <1>1, <2>1
  <2>3. InWayOf(c, n, FALSE) = {}
    BY <1>1, <1>4 DEF InWayOf
  <2> QED BY <1>1, <1>4, <2>1, <2>2, <2>3, TakeKeeps
<1> QED BY <1>3, <1>4

LEMMA StepKeeps ==
  ASSUME NEW c, NEW e, Sync(c, e), NEW t, NEW d, Step(t, c, d)
  PROVE  Sync(d, Run(e, t))
BY MakeKeeps, ConsumeKeeps, DupKeeps, OverKeeps, RotateKeeps, BindKeeps, NameKeeps, BorrowStepKeeps DEF Step

-----------------------------------------------------------------------------
(* What a run of several terms is, and that it may be taken in parts.        *)

Runs(f, e, ts, n) == DOMAIN f = 0..n /\ f[0] = e /\ \A i \in 1..n : f[i] = Run(f[i - 1], ts[i])

LEMMA RunsExist ==
  ASSUME NEW e, NEW ts
  PROVE  \A n \in Nat : \E f : Runs(f, e, ts, n) /\ f = [i \in 0..n |-> f[i]]
<1> DEFINE Fail == {n \in Nat : ~\E f : Runs(f, e, ts, n) /\ f = [i \in 0..n |-> f[i]]}
<1> SUFFICES ASSUME Fail # {} PROVE FALSE
  OBVIOUS
<1>1. PICK n \in Fail : \A k \in Fail : n <= k
  <2>1. Fail \in SUBSET Nat
    OBVIOUS
  <2> HIDE DEF Fail
  <2> QED BY <2>1, LeastOfNaturals
<1>2. n \in Nat /\ ~\E f : Runs(f, e, ts, n) /\ f = [i \in 0..n |-> f[i]]
  BY <1>1
<1>3. CASE n = 0
  <2> DEFINE f == [i \in 0..0 |-> e]
  <2>1. Runs(f, e, ts, 0)
    BY DEF Runs
  <2>2. f = [i \in 0..0 |-> f[i]]
    OBVIOUS
  <2> QED BY <1>2, <1>3, <2>1, <2>2
<1>4. CASE n > 0
  <2>1. n - 1 \in Nat /\ n - 1 \notin Fail
    BY <1>1, <1>2, <1>4
  <2>2. PICK g : Runs(g, e, ts, n - 1)
    BY <2>1
  <2> DEFINE f == [i \in 0..n |-> IF i <= n - 1 THEN g[i] ELSE Run(g[n - 1], ts[n])]
  <2>3. \A i \in 0..n - 1 : i \in 0..n /\ i <= n - 1
    BY <1>2, <1>4
  <2>4. \A i \in 0..n - 1 : f[i] = g[i]
    BY <2>3
  <2>5. f[n] = Run(g[n - 1], ts[n])
    BY <1>2, <1>4
  <2>6. DOMAIN f = 0..n /\ f = [i \in 0..n |-> f[i]]
    OBVIOUS
  <2> HIDE DEF f
  <2>7. \A i \in 1..n : f[i] = Run(f[i - 1], ts[i])
    <3> SUFFICES ASSUME NEW i \in 1..n PROVE f[i] = Run(f[i - 1], ts[i])
      OBVIOUS
    <3>1. CASE i = n
      BY <1>2, <1>4, <2>4, <2>5, <3>1
    <3>2. CASE i # n
      <4>1. i \in 1..n - 1 /\ i \in 0..n - 1 /\ i - 1 \in 0..n - 1
        BY <1>2, <3>2
      <4>2. g[i] = Run(g[i - 1], ts[i])
        BY <2>2, <4>1 DEF Runs
      <4> QED BY <2>4, <4>1, <4>2
    <3> QED BY <3>1, <3>2
  <2>8. f[0] = e
    BY <1>2, <1>4, <2>2, <2>4 DEF Runs
  <2>9. Runs(f, e, ts, n)
    BY <2>6, <2>7, <2>8 DEF Runs
  <2> QED BY <1>2, <2>6, <2>9
<1> QED BY <1>2, <1>3, <1>4

SameTerms(ts, us, n, m, k) == n \in Nat /\ m \in Nat /\ k \in Nat /\ n <= m /\ n <= k /\ \A i \in 1..n : ts[i] = us[i]

LEMMA RunsUnique ==
  ASSUME NEW e, NEW ts, NEW us, NEW n, NEW m, NEW k, SameTerms(ts, us, n, m, k),
         NEW f, NEW g, Runs(f, e, ts, m), Runs(g, e, us, k)
  PROVE  \A i \in 0..n : f[i] = g[i]
<1>6. n \in Nat /\ m \in Nat /\ k \in Nat /\ n <= m /\ n <= k /\ \A i \in 1..n : ts[i] = us[i]
  BY DEF SameTerms
<1> DEFINE Fail == {i \in 0..n : f[i] # g[i]}
<1> SUFFICES ASSUME Fail # {} PROVE FALSE
  OBVIOUS
<1>1. PICK i \in Fail : \A j \in Fail : i <= j
  <2>1. Fail \in SUBSET Nat
    BY <1>6
  <2> HIDE DEF Fail
  <2> QED BY <2>1, LeastOfNaturals
<1>2. i \in 0..n /\ f[i] # g[i]
  BY <1>1
<1>3. i # 0
  BY <1>2 DEF Runs
<1>4. i \in 1..n /\ i - 1 \in 0..n /\ i - 1 \notin Fail /\ i \in 1..m /\ i \in 1..k
  BY <1>1, <1>2, <1>3, <1>6
<1>5. f[i - 1] = g[i - 1] /\ f[i] = Run(f[i - 1], ts[i]) /\ g[i] = Run(g[i - 1], us[i]) /\ ts[i] = us[i]
  BY <1>4, <1>6 DEF Runs
<1> QED BY <1>2, <1>5

LEMMA RunAllIs ==
  ASSUME NEW e, NEW ts, Len(ts) \in Nat, NEW f, Runs(f, e, ts, Len(ts))
  PROVE  RunAll(e, ts) = f[Len(ts)]
<1> DEFINE n == Len(ts)
           body(h) == [i \in 0..n |-> IF i = 0 THEN e ELSE Run(h[i - 1], ts[i])]
           after == CHOOSE h : h = body(h)
<1>1. PICK g : Runs(g, e, ts, n) /\ g = [i \in 0..n |-> g[i]]
  BY RunsExist, ZenonT(40)
<1>2. g = body(g)
  <2>1. \A i \in 0..n : g[i] = IF i = 0 THEN e ELSE Run(g[i - 1], ts[i])
    BY <1>1 DEF Runs
  <2>2. body(g) = [i \in 0..n |-> g[i]]
    BY <2>1
  <2> QED BY <1>1, <2>2
<1>3. after = body(after)
  BY <1>2
<1>4. Runs(after, e, ts, n)
  <2> HIDE DEF after
  <2>1. DOMAIN after = 0..n
    BY <1>3
  <2>2. \A i \in 0..n : after[i] = IF i = 0 THEN e ELSE Run(after[i - 1], ts[i])
    BY <1>3
  <2>3. after[0] = e /\ \A i \in 1..n : after[i] = Run(after[i - 1], ts[i])
    BY <2>2
  <2> QED BY <2>1, <2>3 DEF Runs
<1>5. RunAll(e, ts) = after[n]
  BY DEF RunAll
<1> HIDE DEF after
<1>6. SameTerms(ts, ts, n, n, n) /\ n \in 0..n
  BY DEF SameTerms
<1>8. Runs(f, e, ts, n)
  OBVIOUS
<1> HIDE DEF n
<1>9. \A i \in 0..n : after[i] = f[i]
  BY <1>4, <1>6, <1>8, RunsUnique
<1>7. after[n] = f[n]
  BY <1>6, <1>9
<1> QED BY <1>5, <1>7 DEF n

LEMMA RunAllEmpty ==
  ASSUME NEW e
  PROVE  RunAll(e, <<>>) = e
<1> DEFINE f == [i \in 0..0 |-> e]
<1>1. Runs(f, e, <<>>, 0)
  BY DEF Runs
<1>2. Len(<<>>) = 0
  OBVIOUS
<1>3. f[0] = e
  OBVIOUS
<1> HIDE DEF f
<1> QED BY <1>1, <1>2, <1>3, RunAllIs

LEMMA RunAllAppend ==
  ASSUME NEW e, NEW S, NEW ts \in Seq(S), NEW t
  PROVE  RunAll(e, Append(ts, t)) = Run(RunAll(e, ts), t)
<1> DEFINE n == Len(ts)
           us == Append(ts, t)
<1>1. n \in Nat /\ Len(us) = n + 1 /\ us[n + 1] = t /\ \A i \in 1..n : us[i] = ts[i]
  OBVIOUS
<1> HIDE DEF us, n
<1>2. PICK f : Runs(f, e, ts, n)
  BY <1>1, RunsExist
<1>3. PICK g : Runs(g, e, us, n + 1)
  <2>1. n + 1 \in Nat
    BY <1>1
  <2> QED BY <2>1, RunsExist
<1>4. RunAll(e, ts) = f[n] /\ RunAll(e, us) = g[n + 1]
  <2>1. RunAll(e, ts) = f[n]
    BY <1>1, <1>2, RunAllIs DEF n
  <2>2. RunAll(e, us) = g[Len(us)]
    BY <1>1, <1>3, RunAllIs
  <2> QED BY <1>1, <2>1, <2>2
<1>5. g[n + 1] = Run(g[n], t)
  BY <1>1, <1>3 DEF Runs
<1>6. f[n] = g[n]
  <2>1. SameTerms(ts, us, n, n, n + 1) /\ n \in 0..n
    BY <1>1 DEF SameTerms
  <2>2. \A i \in 0..n : f[i] = g[i]
    BY <1>2, <1>3, <2>1, RunsUnique
  <2> QED BY <2>1, <2>2
<1> QED BY <1>4, <1>5, <1>6 DEF us

LEMMA RunAllConcat ==
  ASSUME NEW e, NEW S, NEW ts \in Seq(S), NEW T, NEW us \in Seq(T)
  PROVE  RunAll(e, ts \o us) = RunAll(RunAll(e, ts), us)
<1> DEFINE m == Len(ts)
           n == Len(us)
           all == ts \o us
<1>1. m \in Nat /\ n \in Nat /\ Len(all) = m + n /\ m + n \in Nat
  <2>1. m \in Nat /\ n \in Nat
    OBVIOUS
  <2>2. ts \in Seq(S \cup T) /\ us \in Seq(S \cup T)
    OBVIOUS
  <2> QED BY <2>1, <2>2, ConcatProperties
<1>2. \A i \in 1..m + n : all[i] = IF i <= m THEN ts[i] ELSE us[i - m]
  <2>1. ts \in Seq(S \cup T) /\ us \in Seq(S \cup T)
    OBVIOUS
  <2> QED BY <2>1, ConcatProperties
<1> HIDE DEF all, m, n
<1>3. PICK f : Runs(f, e, ts, m)
  BY <1>1, RunsExist
<1>4. RunAll(e, ts) = f[m]
  BY <1>1, <1>3, RunAllIs DEF m
<1>5. PICK g : Runs(g, f[m], us, n)
  BY <1>1, RunsExist
<1>6. RunAll(f[m], us) = g[n]
  BY <1>1, <1>5, RunAllIs DEF n
<1> DEFINE h == [i \in 0..m + n |-> IF i <= m THEN f[i] ELSE g[i - m]]
<1>7. DOMAIN h = 0..m + n
  OBVIOUS
<1>8. \A i \in 0..m : h[i] = f[i]
  BY <1>1
<1>9. \A i \in 0..n : h[m + i] = g[i]
  <2> SUFFICES ASSUME NEW i \in 0..n PROVE h[m + i] = g[i]
    OBVIOUS
  <2>1. CASE i = 0
    <3>1. h[m] = f[m]
      BY <1>1, <1>8
    <3>2. m + i = m
      BY <1>1, <2>1
    <3> HIDE DEF h
    <3> QED BY <1>5, <2>1, <3>1, <3>2 DEF Runs
  <2>2. CASE i > 0
    <3> DEFINE j == m + i
    <3>1. j \in 0..m + n /\ ~(j <= m) /\ j - m = i
      BY <1>1, <2>2
    <3> HIDE DEF j
    <3>2. h[j] = g[j - m]
      BY <3>1
    <3> HIDE DEF h
    <3> QED BY <3>1, <3>2 DEF j
  <2>3. i = 0 \/ i > 0
    OBVIOUS
  <2> QED BY <2>1, <2>2, <2>3
<1> HIDE DEF h
<1>10. \A i \in 1..m + n : h[i] = Run(h[i - 1], all[i])
  <2> SUFFICES ASSUME NEW i \in 1..m + n PROVE h[i] = Run(h[i - 1], all[i])
    OBVIOUS
  <2>1. CASE i <= m
    <3>1. i \in 1..m /\ i \in 0..m /\ i - 1 \in 0..m
      BY <1>1, <2>1
    <3>2. f[i] = Run(f[i - 1], ts[i])
      BY <1>3, <3>1 DEF Runs
    <3> QED BY <1>2, <1>8, <2>1, <3>1, <3>2
  <2>2. CASE i > m
    <3> DEFINE j == i - m
    <3>1. j \in 1..n /\ j \in 0..n /\ j - 1 \in 0..n /\ m + j = i /\ m + (j - 1) = i - 1 /\ ~(i <= m)
      BY <1>1, <2>2
    <3>2. g[j] = Run(g[j - 1], us[j])
      BY <1>5, <3>1 DEF Runs
    <3>3. h[m + j] = g[j] /\ h[m + (j - 1)] = g[j - 1]
      BY <1>9, <3>1
    <3>4. all[i] = us[j]
      BY <1>2, <3>1
    <3> QED BY <3>1, <3>2, <3>3, <3>4
  <2>3. i <= m \/ i > m
    BY <1>1
  <2> QED BY <2>1, <2>2, <2>3
<1>11. h[0] = e
  BY <1>1, <1>3, <1>8 DEF Runs
<1>12. Runs(h, e, all, m + n)
  BY <1>7, <1>10, <1>11 DEF Runs
<1>13. RunAll(e, all) = h[m + n]
  <2>1. Len(all) = m + n /\ Len(all) \in Nat
    BY <1>1
  <2>2. RunAll(e, all) = h[Len(all)]
    BY <1>12, <2>1, RunAllIs
  <2> QED BY <2>1, <2>2
<1>14. h[m + n] = g[n]
  BY <1>1, <1>9
<1> QED BY <1>4, <1>6, <1>13, <1>14 DEF all

-----------------------------------------------------------------------------
(* What a term does to the checker's state alone.                            *)

LEMMA StateIs ==
  ASSUME NEW c, StateOK(c)
  PROVE  /\ c.stack \in Seq(SlotsHere) /\ Len(c.stack) \in Nat
         /\ c.locals \in [PolyNames -> SlotsHere \cup {None}] /\ c.states \in [PolyNames -> MoveStatesHere]
         /\ c.borrows \subseteq [place : PolyNames, mutable : BOOLEAN] /\ \A a, b \in c.borrows : a.place = b.place => a = b
         /\ PrunedOf(c) \subseteq c.borrows
         /\ \A n \in PolyNames : c.states[n] = "absent" <=> c.locals[n] = None \/ IsCopy(c.locals[n])
BY DEF StateOK, PrunedOf

LEMMA StateBecomes ==
  ASSUME NEW c, StateOK(c), NEW d, d.stack \in Seq(SlotsHere), d.locals = c.locals, d.states = c.states,
         d.borrows \subseteq c.borrows
  PROVE  StateOK(d)
BY DEF StateOK

LEMMA OwnIs == \A of \in {"lin", "agg", "variant"} : Own(of) \in SlotsHere /\ ~IsRef(Own(of))
BY DEF Own, SlotsHere, IsRef

LEMMA StepTypes ==
  ASSUME NEW c, StateOK(c), NEW t, NEW d, Step(t, c, d)
  PROVE  StateOK(d)
<1> DEFINE len == Len(c.stack)
           s == c.stack
<1>1. s \in Seq(SlotsHere) /\ len \in Nat /\ \A i \in 1..len : s[i] \in SlotsHere
  BY StateIs
<1>2. CASE MakeStep(t, c, d)
  <2>1. PICK of \in {"lin", "agg"} : d.stack = Append(s, Own(of)) /\ StackOnly(c, d)
    BY <1>2 DEF MakeStep
  <2>2. d.stack \in Seq(SlotsHere)
    BY <1>1, <2>1, OwnIs, PushIs
  <2> QED BY <2>1, <2>2, StateBecomes DEF StackOnly
<1>3. CASE ConsumeStep(t, c, d)
  <2>1. s # <<>> /\ d.stack = Without(s, 1) /\ StackOnly(c, d)
    BY <1>3 DEF ConsumeStep
  <2>2. d.stack \in Seq(SlotsHere)
    BY <1>1, <2>1, PopIs
  <2> QED BY <2>1, <2>2, StateBecomes DEF StackOnly
<1>4. CASE DupStep(t, c, d)
  <2>1. s # <<>> /\ d.stack = Append(s, s[len]) /\ StackOnly(c, d)
    BY <1>4 DEF DupStep
  <2>2. s[len] \in SlotsHere
    BY <1>1, <2>1, PopIs
  <2>3. d.stack \in Seq(SlotsHere)
    BY <1>1, <2>1, <2>2, PushIs
  <2> QED BY <2>1, <2>3, StateBecomes DEF StackOnly
<1>5. CASE OverStep(t, c, d)
  <2>1. len >= 2 /\ len - 1 \in 1..len
    BY <1>1, <1>5 DEF OverStep
  <2> QED BY <1>1, <1>5, <2>1, PushIs, StateBecomes DEF OverStep, StackOnly
<1>6. CASE RotateStep(t, c, d)
  <2>1. PICK k \in 2..3 : Len(s) >= k /\ d.stack = Rotated(s, k) /\ StackOnly(c, d)
    BY <1>6 DEF RotateStep
  <2> HIDE DEF s
  <2>2. Rotated(s, k) \in Seq(SlotsHere)
    BY <1>1, <2>1, RotatedIs
  <2> QED BY <2>1, <2>2, StateBecomes DEF StackOnly
<1>7. CASE BindStep(t, c, d)
  <2>1. PICK n \in PolyNames :
        /\ s # <<>> /\ c.locals[n] = None /\ d.stack = Without(s, 1) /\ d.borrows = c.borrows
        /\ d.locals = [c.locals EXCEPT ![n] = s[len]]
        /\ d.states = IF IsCopy(s[len]) THEN c.states ELSE [c.states EXCEPT ![n] = "live"]
    BY <1>7 DEF BindStep
  <2>2. d.stack \in Seq(SlotsHere) /\ s[len] \in SlotsHere /\ s[len] # None
    BY <1>1, <2>1, PopIs, NoneIsNoValue
  <2>3. d.locals \in [PolyNames -> SlotsHere \cup {None}] /\ d.locals[n] = s[len] /\ \A m \in PolyNames : m # n => d.locals[m] = c.locals[m]
    BY <2>1, <2>2, StateIs
  <2>4. /\ d.states \in [PolyNames -> MoveStatesHere]
        /\ d.states[n] = "absent" <=> IsCopy(s[len])
        /\ \A m \in PolyNames : m # n => d.states[m] = c.states[m]
    BY <2>1, StateIs DEF MoveStatesHere
  <2>5. \A m \in PolyNames : d.states[m] = "absent" <=> d.locals[m] = None \/ IsCopy(d.locals[m])
    BY <2>2, <2>3, <2>4, StateIs
  <2> QED BY <2>1, <2>2, <2>3, <2>4, <2>5, StateIs DEF StateOK
<1>8. CASE NameStep(t, c, d)
  <2>1. PICK n \in PolyNames :
        /\ c.locals[n] # None /\ c.states[n] \in {"absent", "live"}
        /\ d.stack = Append(s, c.locals[n]) /\ d.locals = c.locals /\ d.borrows = PrunedOf(c)
        /\ d.states = [c.states EXCEPT ![n] = IF @ = "live" THEN "moved" ELSE @]
    BY <1>8 DEF NameStep
  <2>2. d.stack \in Seq(SlotsHere)
    <3>1. c.locals[n] \in SlotsHere
      BY <2>1, StateIs
    <3> QED BY <1>1, <2>1, <3>1, PushIs
  <2>3. /\ d.states \in [PolyNames -> MoveStatesHere]
        /\ \A m \in PolyNames : d.states[m] = "absent" <=> c.states[m] = "absent"
    BY <2>1, StateIs DEF MoveStatesHere
  <2> QED BY <2>1, <2>2, <2>3, StateIs DEF StateOK
<1>9. CASE BorrowStep(t, c, d)
  <2>1. PICK n \in PolyNames, mutable \in BOOLEAN :
        /\ c.locals[n] \in {Own("lin"), Own("agg")} /\ InWayOf(c, n, ~mutable) = {}
        /\ d.stack = Append(s, Ref(mutable, c.locals[n].of)) /\ d.locals = c.locals /\ d.states = c.states
        /\ d.borrows = PrunedOf(c) \cup {[place |-> n, mutable |-> mutable]}
    BY <1>9 DEF BorrowStep
  <2>2. Ref(mutable, c.locals[n].of) \in SlotsHere
    BY <2>1 DEF Ref, Own, SlotsHere
  <2>3. d.stack \in Seq(SlotsHere)
    BY <1>1, <2>1, <2>2, PushIs
  <2>4. PrunedOf(c) \subseteq [place : PolyNames, mutable : BOOLEAN] /\ \A a, b \in PrunedOf(c) : a.place = b.place => a = b
    BY StateIs
  <2>5. \A b \in PrunedOf(c) : b.place = n => b = [place |-> n, mutable |-> mutable]
    BY <2>1, <2>4 DEF InWayOf
  <2>6. d.borrows \subseteq [place : PolyNames, mutable : BOOLEAN] /\ \A a, b \in d.borrows : a.place = b.place => a = b
    BY <2>1, <2>4, <2>5
  <2> QED BY <2>1, <2>3, <2>6, StateIs DEF StateOK
<1> QED BY <1>2, <1>3, <1>4, <1>5, <1>6, <1>7, <1>8, <1>9 DEF Step

\* the locals that are bound stay so; a state that is not "live" stays, and a
\* local that holds a reference keeps the records
OuterKept(c, d) ==
  /\ \A n \in PolyNames : c.locals[n] # None => d.locals[n] = c.locals[n] /\ (c.states[n] # "live" => d.states[n] = c.states[n])
  /\ (\E n \in PolyNames : c.locals[n] # None /\ IsRef(c.locals[n])) => c.borrows \subseteq d.borrows

LEMMA StepOuter ==
  ASSUME NEW c, StateOK(c), NEW t, NEW d, Step(t, c, d)
  PROVE  OuterKept(c, d)
<1>1. c.locals \in [PolyNames -> SlotsHere \cup {None}] /\ c.states \in [PolyNames -> MoveStatesHere]
  BY StateIs
<1>2. (\E n \in PolyNames : c.locals[n] # None /\ IsRef(c.locals[n])) => PrunedOf(c) = c.borrows
  BY DEF PrunedOf, HasReference
<1>3. CASE StackOnly(c, d)
  BY <1>3 DEF OuterKept, StackOnly
<1>4. CASE BindStep(t, c, d)
  BY <1>1, <1>4 DEF BindStep, OuterKept
<1>5. CASE NameStep(t, c, d)
  BY <1>1, <1>2, <1>5 DEF NameStep, OuterKept
<1>6. CASE BorrowStep(t, c, d)
  BY <1>1, <1>2, <1>6 DEF BorrowStep, OuterKept
<1> QED BY <1>3, <1>4, <1>5, <1>6 DEF Step, MakeStep, ConsumeStep, DupStep, OverStep, RotateStep

\* nor does the execution change them
EnvKept(c, e, f) == \A n \in PolyNames : c.locals[n] # None => f.env[n] = e.env[n] /\ (n \in e.spent => n \in f.spent)

LEMMA RunFields ==
  ASSUME NEW e, NEW t, NEW a, NEW b, NEW c, NEW d, Doing(t, e) = Exec(a, b, c, d)
  PROVE  Run(e, t).env = b /\ Run(e, t).spent = c
<1> DEFINE f == Doing(t, e)
<1>1. f = Exec(a, b, c, d)
  OBVIOUS
<1>2. Run(e, t) = [f EXCEPT !.wrong = f.wrong \cup Wrong(f)]
  BY DEF Run
<1> HIDE DEF f
<1>3. [f EXCEPT !.wrong = f.wrong \cup Wrong(f)].env = b /\ [f EXCEPT !.wrong = f.wrong \cup Wrong(f)].spent = c
  BY <1>1 DEF Exec
<1> QED BY <1>2, <1>3

LEMMA StepEnvKept ==
  ASSUME NEW c, NEW e, Sync(c, e), NEW t, NEW d, Step(t, c, d)
  PROVE  EnvKept(c, e, Run(e, t))
<1>1. ExecOK(e) /\ e.env \in [PolyNames -> ValuesHere \cup {None}]
  BY SyncIs, ExecIs
<1>2. ASSUME NEW a, NEW b, Doing(t, e) = Exec(a, e.env, e.spent, b) PROVE EnvKept(c, e, Run(e, t))
  BY <1>2, RunFields DEF EnvKept
<1>3. CASE MakeStep(t, c, d)
  <2>1. PICK of \in {"lin", "agg"} : t = [Plain("make") EXCEPT !.of = of]
    BY <1>3 DEF MakeStep
  <2>2. Doing(t, e) = Exec(Append(e.vals, Value(Own(of), Fresh(e), None)), e.env, e.spent,
                           IF of = "lin" THEN e.alive \cup {Fresh(e)} ELSE e.alive)
    BY <1>1, <2>1, MakeDoes
  <2> QED BY <1>2, <2>2
<1>4. CASE ConsumeStep(t, c, d)
  <2>1. \E b : Doing(t, e) = Exec(Without(e.vals, 1), e.env, e.spent, b)
    BY <1>1, <1>4, ConsumeDoes DEF ConsumeStep
  <2> QED BY <1>2, <2>1
<1>5. CASE DupStep(t, c, d)
  <2>1. \E a : Doing(t, e) = Exec(a, e.env, e.spent, e.alive)
    BY <1>1, <1>5, DupDoes DEF DupStep
  <2> QED BY <1>2, <2>1
<1>6. CASE OverStep(t, c, d)
  <2>1. \E a : Doing(t, e) = Exec(a, e.env, e.spent, e.alive)
    BY <1>1, <1>6, OverDoes DEF OverStep
  <2> QED BY <1>2, <2>1
<1>7. CASE RotateStep(t, c, d)
  <2>1. \E a : Doing(t, e) = Exec(a, e.env, e.spent, e.alive)
    BY <1>1, <1>7, RotateDoes DEF RotateStep
  <2> QED BY <1>2, <2>1
<1>8. CASE BindStep(t, c, d)
  <2>1. PICK n \in PolyNames : t = [Plain("bind") EXCEPT !.n = n] /\ c.locals[n] = None
    BY <1>8 DEF BindStep
  <2>2. Doing(t, e) = Exec(Without(e.vals, 1), [e.env EXCEPT ![n] = e.vals[Len(e.vals)]], e.spent \ {n}, e.alive)
    BY <1>1, <2>1, BindDoes
  <2>3. Run(e, t).env = [e.env EXCEPT ![n] = e.vals[Len(e.vals)]] /\ Run(e, t).spent = e.spent \ {n}
    BY <2>2, RunFields
  <2> QED BY <1>1, <2>1, <2>3 DEF EnvKept
<1>9. CASE NameStep(t, c, d)
  <2>1. PICK n \in PolyNames : t = [Plain("name") EXCEPT !.n = n]
    BY <1>9 DEF NameStep
  <2>2. Doing(t, e) = Exec(Append(e.vals, e.env[n]), e.env,
                           IF Linear(e.env[n]) \/ e.env[n].slot.kind = "mut" THEN e.spent \cup {n} ELSE e.spent, e.alive)
    BY <1>1, <2>1, NameDoes
  <2>3. Run(e, t).env = e.env /\ Run(e, t).spent = IF Linear(e.env[n]) \/ e.env[n].slot.kind = "mut" THEN e.spent \cup {n} ELSE e.spent
    BY <2>2, RunFields
  <2> QED BY <2>3 DEF EnvKept
<1>10. CASE BorrowStep(t, c, d)
  <2>1. PICK n \in PolyNames, mutable \in BOOLEAN : t = [Plain("borrow") EXCEPT !.n = n, !.mutable = mutable]
    BY <1>10 DEF BorrowStep
  <2>2. Doing(t, e) = Exec(Append(e.vals, Value(Ref(mutable, e.env[n].slot.of), e.env[n].at, n)), e.env, e.spent, e.alive)
    BY <1>1, <2>1, BorrowDoes
  <2> QED BY <1>2, <2>2
<1> QED BY <1>3, <1>4, <1>5, <1>6, <1>7, <1>8, <1>9, <1>10 DEF Step

-----------------------------------------------------------------------------
(* The invariant.                                                            *)

State(stack, locs, sts, records) == [stack |-> stack, locals |-> locs, states |-> sts, borrows |-> records]

\* what the checker has now, with the caller's part of the stack beneath
Under == IF Nested = 0 THEN <<>> ELSE Innermost.under
Here == State(Under \o operands, locals, states, borrows)

\* what it had where a literal was met, and what it walks its first arm over;
\* what it had where the first of two arms ended
Before(f) == State(IF f.kind = "ground" THEN f.under ELSE f.entry, f.locals, f.states, f.borrows)
EntryIn(f) == State(f.under \o f.entry, f.locals, f.states, f.borrows)
ExitOf(f) == State(f.exit, f.locals, f.joined, f.met)
Waiting(f) == IF f.arm = 1 THEN Before(f) ELSE ExitOf(f)
TurnsOf(f) == f.turns[f.arm]

TurnsFor(kind) ==
  IF kind = "call" THEN {<<1>>} ELSE IF kind = "arms" THEN {<<1, 0>>, <<0, 1>>} ELSE {<<0>>, <<1>>, <<2>>}
NoReferences(s) == \A i \in DOMAIN s : ~IsRef(s[i])
FrameFields == {"kind", "entry", "under", "callee", "turns", "arm", "locals", "states", "borrows",
                "exit", "joined", "met", "terms", "running"}
FrameOK(f) ==
  /\ DOMAIN f = FrameFields
  /\ f.kind \in {"call", "arms", "times", "ground"} /\ f.turns \in TurnsFor(f.kind)
  /\ f.arm \in {1, 2} /\ (f.arm = 2 => f.kind = "arms" /\ StateOK(ExitOf(f))) /\ (f.arm = 1 => f.met = {})
  /\ StateOK(Before(f)) /\ f.under \in Seq(SlotsHere) /\ f.entry \in Seq(SlotsHere) /\ NoReferences(f.under)
  /\ f.kind # "ground" => f.under = <<>>
  /\ f.kind = "ground" => f.callee \in Callees /\ f.entry = f.callee.ins
  /\ f.running \in BOOLEAN
  /\ \E S : f.terms \in Seq(S)

Nesting ==
  /\ DOMAIN literals = 1..Nested /\ Nested \in Nat
  /\ \A i \in 1..Nested : FrameOK(literals[i])
  /\ \A i \in 1..Nested : Repeats(literals[i]) => i = Nested
  /\ literals = [i \in 1..Nested |-> literals[i]] /\ operands \in Seq(SlotsHere)

\* the locals from outside are as they were where the literal was met
Kept(f, locs) == \A n \in PolyNames : f.locals[n] # None => locs[n] = f.locals[n]
OutsideKept ==
  \A i \in 1..Nested : Kept(literals[i], locals) /\ \A j \in i..Nested : Kept(literals[i], literals[j].locals)

Reached(i) == \A j \in 1..i : TurnsOf(literals[j]) > 0
Running ==
  /\ running \in BOOLEAN /\ (running <=> Reached(Nested))
  /\ \A i \in 1..Nested : literals[i].running <=> Reached(i - 1)

Agrees ==
  /\ ExecOK(exec) /\ StateOK(Here)
  /\ running => Sync(Here, exec)
  /\ \A i \in 1..Nested : literals[i].running /\ TurnsOf(literals[i]) = 0 => Sync(Waiting(literals[i]), exec)

\* a literal its callee may call again: what it takes was live, and while a
\* local holds a reference no record is forgotten
LocalReference(f) == \E n \in PolyNames : f.locals[n] # None /\ IsRef(f.locals[n])
GroundKeeps ==
  Nested > 0 /\ Innermost.kind = "ground" =>
    /\ \A n \in PolyNames : Innermost.locals[n] # None /\ Innermost.states[n] # "live" => states[n] = Innermost.states[n]
    /\ LocalReference(Innermost) => Innermost.borrows \subseteq borrows

\* the terms walked may be run again from where the literal was met
Replays(ts, a, b) == \A e : Sync(a, e) => Sync(b, RunAll(e, ts))
KnownBefore(f, e) ==
  \A n \in PolyNames : f.locals[n] # None /\ n \notin e.spent /\ Refers(e.env[n]) => RecordOf(e.env[n]) \in f.borrows
RunsAgain ==
  running /\ Nested > 0 /\ Turns = 2 =>
    KnownBefore(Innermost, exec) /\ Replays(Innermost.terms, EntryIn(Innermost), Here)

AtTheEnd ==
  /\ verdict \in {"walking", "accepted", "looped"}
  /\ verdict # "walking" => UnconsumedIn(PolyNames) = {} /\ Under = <<>>
  /\ verdict = "looped" => ~Carried

PolyInvariant == Nesting /\ OutsideKept /\ Running /\ Agrees /\ GroundKeeps /\ RunsAgain /\ AtTheEnd

-----------------------------------------------------------------------------
(* What ends a scope, joins two, or narrows an enum.                         *)

Outside(f, inside) == [n \in PolyNames |-> IF n \in inside THEN None ELSE f[n]]
StatesOut(f, inside) == [n \in PolyNames |-> IF n \in inside THEN "absent" ELSE f[n]]
Forget(e, inside) == Exec(e.vals, Outside(e.env, inside), e.spent \ inside, e.alive)

\* locals that hold nothing linear go out of scope
LEMMA ForgetTypes ==
  ASSUME NEW c, StateOK(c), NEW inside
  PROVE  StateOK(State(c.stack, Outside(c.locals, inside), StatesOut(c.states, inside), c.borrows))
<1> DEFINE L == Outside(c.locals, inside)
           M == StatesOut(c.states, inside)
<1>1. L \in [PolyNames -> SlotsHere \cup {None}] /\ \A n \in PolyNames : L[n] = IF n \in inside THEN None ELSE c.locals[n]
  BY StateIs DEF Outside
<1>2. M \in [PolyNames -> MoveStatesHere] /\ \A n \in PolyNames : M[n] = IF n \in inside THEN "absent" ELSE c.states[n]
  BY StateIs DEF StatesOut, MoveStatesHere
<1> HIDE DEF L, M
<1>3. \A n \in PolyNames : M[n] = "absent" <=> L[n] = None \/ IsCopy(L[n])
  BY <1>1, <1>2, StateIs
<1> DEFINE d == State(c.stack, L, M, c.borrows)
<1>4. d.stack = c.stack /\ d.locals = L /\ d.states = M /\ d.borrows = c.borrows
  BY DEF State
<1> HIDE DEF d
<1>5. StateOK(d)
  BY <1>1, <1>2, <1>3, <1>4, StateIs DEF StateOK
<1> QED BY <1>5 DEF d, L, M

LEMMA ForgetKeeps ==
  ASSUME NEW c, NEW e, Sync(c, e), NEW inside, \A n \in PolyNames : n \in inside => c.states[n] \in {"absent", "moved"}
  PROVE  Sync(State(c.stack, Outside(c.locals, inside), StatesOut(c.states, inside), c.borrows), Forget(e, inside))
<1> DEFINE L == Outside(c.locals, inside)
           M == StatesOut(c.states, inside)
           d == State(c.stack, L, M, c.borrows)
           vals == e.vals
           E == Outside(e.env, inside)
           S == e.spent \ inside
           A == e.alive
           f == Exec(vals, E, S, A)
<1>1. /\ vals \in Seq(ValuesHere) /\ Len(vals) \in Nat /\ e.env \in [PolyNames -> ValuesHere \cup {None}]
      /\ e.spent \in SUBSET PolyNames /\ A \in SUBSET Nat /\ IsFiniteSet(A)
  BY ExecIs, SyncIs
<1>2. E \in [PolyNames -> ValuesHere \cup {None}] /\ \A n \in PolyNames : E[n] = IF n \in inside THEN None ELSE e.env[n]
  BY <1>1 DEF Outside
<1>3. S \in SUBSET PolyNames /\ \A n : n \in S <=> n \in e.spent /\ n \notin inside
  BY <1>1
<1>4. \A n \in PolyNames : L[n] = (IF n \in inside THEN None ELSE c.locals[n]) /\ M[n] = IF n \in inside THEN "absent" ELSE c.states[n]
  BY DEF Outside, StatesOut
<1>5. StateOK(d)
  BY ForgetTypes, SyncIs
<1>6. d.stack = c.stack /\ d.locals = L /\ d.states = M /\ d.borrows = c.borrows
  BY DEF State
<1>7. Good(Held(e), A, c.borrows)
  BY SyncIs
<1> HIDE DEF vals, E, S, A, L, M, d
<1>8. ExecOK(f) /\ f.vals = vals /\ f.env = E /\ f.spent = S /\ f.alive = A
  <2>1. vals \in Seq(ValuesHere) /\ E \in [PolyNames -> ValuesHere \cup {None}] /\ S \in SUBSET PolyNames /\ A \in SUBSET Nat /\ IsFiniteSet(A)
    BY <1>1, <1>2, <1>3
  <2> QED BY <2>1, ExecBecomes
<1> HIDE DEF f
<1> DEFINE H == Held(e)
           G == Held(f)
           phi == [p \in DOMAIN G |-> p]
<1>9. /\ \A i : InSlot(i) \in DOMAIN H <=> i \in 1..Len(vals)
      /\ \A i : InSlot(i) \in DOMAIN G <=> i \in 1..Len(vals)
      /\ \A n : InName(n) \in DOMAIN H <=> n \in PolyNames /\ e.env[n] # None /\ n \notin e.spent
      /\ \A n : InName(n) \in DOMAIN G <=> n \in PolyNames /\ E[n] # None /\ n \notin S
  BY <1>8, HeldIs, SyncIs DEF vals
<1>10. /\ \A i \in 1..Len(vals) : H[InSlot(i)] = vals[i] /\ G[InSlot(i)] = vals[i]
       /\ \A n \in PolyNames : InName(n) \in DOMAIN H => H[InName(n)] = e.env[n]
       /\ \A n \in PolyNames : InName(n) \in DOMAIN G => G[InName(n)] = E[n]
  BY <1>8, HeldIs, SyncIs DEF vals
<1>11. /\ \A p \in DOMAIN H : (\E i \in 1..Len(vals) : p = InSlot(i)) \/ (\E n \in PolyNames : p = InName(n))
       /\ \A p \in DOMAIN G : (\E i \in 1..Len(vals) : p = InSlot(i)) \/ (\E n \in PolyNames : p = InName(n))
  BY <1>8, HeldIs, SyncIs DEF vals
<1>12. \A n \in PolyNames : n \in inside /\ InName(n) \in DOMAIN H => ~Linear(H[InName(n)])
  <2> SUFFICES ASSUME NEW n \in PolyNames, n \in inside, InName(n) \in DOMAIN H PROVE ~Linear(H[InName(n)])
    OBVIOUS
  <2>1. e.env[n] # None /\ n \notin e.spent /\ H[InName(n)] = e.env[n] /\ e.env[n] \in ValuesHere
    BY <1>1, <1>9, <1>10
  <2>2. c.locals[n] # None /\ e.env[n].slot = c.locals[n]
    BY <2>1 DEF Sync, Matches, ScopeMatches
  <2>3. c.states[n] = "absent"
    BY <2>1 DEF Sync, Matches, SpentMatches
  <2>4. IsCopy(c.locals[n])
    BY <2>2, <2>3, StateIs DEF Sync
  <2> QED BY <2>1, <2>2, <2>4, CopyIs
<1>24. Good(H, A, c.borrows)
  BY <1>7
<1> HIDE DEF H, G
<1>13. \A p \in DOMAIN G : p \in DOMAIN H /\ G[p] = H[p]
  <2> SUFFICES ASSUME NEW p \in DOMAIN G PROVE p \in DOMAIN H /\ G[p] = H[p]
    OBVIOUS
  <2>1. CASE \E i \in 1..Len(vals) : p = InSlot(i)
    BY <1>9, <1>10, <2>1
  <2>2. CASE \E n \in PolyNames : p = InName(n)
    BY <1>2, <1>3, <1>9, <1>10, <2>2
  <2> QED BY <1>11, <2>1, <2>2
<1>14. \A q \in DOMAIN H : Linear(H[q]) => q \in DOMAIN G
  <2> SUFFICES ASSUME NEW q \in DOMAIN H, Linear(H[q]) PROVE q \in DOMAIN G
    OBVIOUS
  <2>1. CASE \E i \in 1..Len(vals) : q = InSlot(i)
    BY <1>9, <2>1
  <2>2. CASE \E n \in PolyNames : q = InName(n)
    BY <1>2, <1>3, <1>9, <1>12, <2>2
  <2> QED BY <1>11, <2>1, <2>2
<1>15. \A p \in DOMAIN G : phi[p] = p
  OBVIOUS
<1> HIDE DEF phi
<1>16. \A p \in DOMAIN G : Refers(G[p]) => RecordOf(G[p]) \in c.borrows
  BY <1>13, <1>24 DEF Good, Recorded
<1>17. \A p \in DOMAIN G : Refers(G[p]) /\ G[p].slot.of # "agg" => InName(G[p].from) \in DOMAIN G /\ phi[InName(G[p].from)] = InName(G[p].from)
  BY <1>13, <1>14, <1>15, <1>24 DEF Good, Rooted, RootedIn
<1>18. Carry(H, G, phi, c.borrows)
  BY <1>13, <1>14, <1>15, <1>16, <1>17 DEF Carry
<1>19. Good(G, A, c.borrows)
  BY <1>18, <1>24, CarryKeeps
<1>20. StackMatches(d, f)
  BY <1>6, <1>8 DEF Sync, Matches, StackMatches, vals
<1>21. ScopeMatches(d, f)
  BY <1>2, <1>4, <1>6, <1>8 DEF Sync, Matches, ScopeMatches
<1>22. SpentMatches(d, f)
  BY <1>3, <1>4, <1>6, <1>8 DEF Sync, Matches, SpentMatches
<1>23. Sync(d, f)
  BY <1>5, <1>6, <1>8, <1>19, <1>20, <1>21, <1>22 DEF Sync, Matches, G
<1> QED BY <1>23 DEF d, f, L, M, E, S, A, vals, Forget

\* the checker may know less of the move-states, and other records of what is held
LEMMA WeakerKeeps ==
  ASSUME NEW c, NEW e, Sync(c, e), NEW d, StateOK(d), d.stack = c.stack, d.locals = c.locals,
         \A n \in PolyNames : d.states[n] \in {c.states[n], "maybe"},
         \A p \in DOMAIN Held(e) : Refers(Held(e)[p]) => RecordOf(Held(e)[p]) \in d.borrows
  PROVE  Sync(d, e)
<1>1. Good(Held(e), e.alive, d.borrows)
  BY GoodRecords, SyncIs
<1>2. StackMatches(d, e) /\ ScopeMatches(d, e)
  BY DEF Sync, Matches, StackMatches, ScopeMatches
<1>3. SpentMatches(d, e)
  BY DEF Sync, Matches, SpentMatches
<1> QED BY <1>1, <1>2, <1>3 DEF Sync, Matches

LEMMA RecordedIs ==
  ASSUME NEW c, NEW e, Sync(c, e), NEW records, c.borrows \subseteq records
  PROVE  \A p \in DOMAIN Held(e) : Refers(Held(e)[p]) => RecordOf(Held(e)[p]) \in records
BY DEF Sync, Good, Recorded

\* no reference on the stack: those held are in locals
LEMMA RecordedInLocals ==
  ASSUME NEW c, NEW e, Sync(c, e), NoReferences(c.stack), NEW records,
         \A n \in PolyNames : c.locals[n] # None /\ n \notin e.spent /\ Refers(e.env[n]) => RecordOf(e.env[n]) \in records
  PROVE  \A p \in DOMAIN Held(e) : Refers(Held(e)[p]) => RecordOf(Held(e)[p]) \in records
<1> SUFFICES ASSUME NEW p \in DOMAIN Held(e), Refers(Held(e)[p]) PROVE RecordOf(Held(e)[p]) \in records
  OBVIOUS
<1>1. CASE \E i \in 1..Len(e.vals) : p = InSlot(i)
  <2>1. PICK i \in 1..Len(e.vals) : p = InSlot(i)
    BY <1>1
  <2>2. Held(e)[p] = e.vals[i] /\ e.vals[i].slot = c.stack[i] /\ i \in DOMAIN c.stack
    BY <2>1, HeldIs, SyncIs
  <2> QED BY <2>2 DEF NoReferences, Refers
<1>2. CASE \E n \in PolyNames : p = InName(n) /\ n \in Bound(e) \ e.spent
  <2>1. PICK n \in PolyNames : p = InName(n) /\ n \in Bound(e) \ e.spent
    BY <1>2
  <2>2. Held(e)[p] = e.env[n] /\ e.env[n] # None
    BY <2>1, HeldIs DEF Bound, Sync
  <2>3. c.locals[n] # None
    BY <2>2 DEF Sync, Matches, ScopeMatches
  <2> QED BY <2>1, <2>2, <2>3
<1> QED BY <1>1, <1>2, HeldIs DEF Sync

\* a value on the stack becomes of the variant an arm is for
LEMMA NarrowKeeps ==
  ASSUME NEW H, NEW G, NEW p \in DOMAIN H, NEW alive, NEW records, Good(H, alive, records),
         DOMAIN G = DOMAIN H, \A q \in DOMAIN H : q # p => G[q] = H[q],
         Linear(H[p]), Linear(G[p]), G[p].at = H[p].at
  PROVE  Good(G, alive, records)
<1>1. \A q \in DOMAIN G : /\ Linear(G[q]) <=> Linear(H[q])
                          /\ G[q].at = H[q].at \/ ~Linear(H[q])
                          /\ Refers(G[q]) => G[q] = H[q] /\ Refers(H[q])
  <2> SUFFICES ASSUME NEW q \in DOMAIN G
               PROVE  /\ Linear(G[q]) <=> Linear(H[q])
                      /\ G[q].at = H[q].at \/ ~Linear(H[q])
                      /\ Refers(G[q]) => G[q] = H[q] /\ Refers(H[q])
    OBVIOUS
  <2>1. CASE q = p
    BY <2>1 DEF Refers, Linear, IsRef
  <2>2. CASE q # p
    BY <2>2
  <2> QED BY <2>1, <2>2
<1>2. \A q \in DOMAIN G : Linear(G[q]) => G[q].at = H[q].at
  BY <1>1
<1>3. LinearAlive(G, alive) /\ LinearApart(G)
  BY <1>1, <1>2 DEF Good, LinearAlive, LinearApart
<1>4. AllHeld(G, alive)
  BY <1>1, <1>2 DEF Good, AllHeld
<1>5. Recorded(G, records) /\ Unshared(G)
  BY <1>1 DEF Good, Recorded, Unshared
<1>6. Rooted(G)
  <2> SUFFICES ASSUME NEW q \in DOMAIN G, Refers(G[q]), G[q].slot.of # "agg" PROVE RootedIn(G, q)
    BY DEF Rooted
  <2>1. G[q] = H[q] /\ RootedIn(H, q)
    BY <1>1 DEF Good, Rooted
  <2> QED BY <1>1, <1>2, <2>1 DEF RootedIn
<1> QED BY <1>3, <1>4, <1>5, <1>6 DEF Good

Narrowed(e) == [e EXCEPT !.vals[Len(e.vals)].slot = Own("variant")]

LEMMA NarrowedIs ==
  ASSUME NEW e, ExecOK(e), e.vals # <<>>
  PROVE  /\ Narrowed(e) = Exec([e.vals EXCEPT ![Len(e.vals)] = [e.vals[Len(e.vals)] EXCEPT !.slot = Own("variant")]], e.env, e.spent, e.alive)
         /\ [e.vals EXCEPT ![Len(e.vals)] = [e.vals[Len(e.vals)] EXCEPT !.slot = Own("variant")]] \in Seq(ValuesHere)
<1> DEFINE len == Len(e.vals)
           v == e.vals[len]
           w == [v EXCEPT !.slot = Own("variant")]
           x == [e.vals EXCEPT ![len] = w]
<1>1. e.vals \in Seq(ValuesHere) /\ v \in ValuesHere
  <2>1. e.vals \in Seq(ValuesHere)
    BY ExecIs
  <2> QED BY <2>1, PopIs
<1>2. w \in ValuesHere
  <2>1. Own("variant") \in SlotsHere
    BY OwnIs
  <2> QED BY <1>1, <2>1 DEF ValuesHere
<1>3. Narrowed(e) = [e EXCEPT !.vals = x]
  BY DEF Narrowed
<1> HIDE DEF w
<1>4. x \in Seq(ValuesHere)
  BY <1>1, <1>2
<1> HIDE DEF x
<1>5. Narrowed(e) = Exec(x, e.env, e.spent, e.alive)
  BY <1>3, ExecVals
<1> QED BY <1>4, <1>5 DEF x, w

LEMMA NarrowTypes ==
  ASSUME NEW c, StateOK(c), c.stack # <<>>, NEW d, d.stack = Append(Without(c.stack, 1), Own("variant")),
         d.locals = c.locals, d.states = c.states, d.borrows = c.borrows
  PROVE  StateOK(d)
<1>1. Without(c.stack, 1) \in Seq(SlotsHere)
  BY PopIs, StateIs
<1>2. d.stack \in Seq(SlotsHere)
  BY <1>1, PushIs, OwnIs
<1> QED BY <1>2, StateBecomes

LEMMA NarrowSync ==
  ASSUME NEW c, NEW e, Sync(c, e), c.stack # <<>>, c.stack[Len(c.stack)] = Own("lin"),
         NEW d, d.stack = Append(Without(c.stack, 1), Own("variant")),
         d.locals = c.locals, d.states = c.states, d.borrows = c.borrows
  PROVE  Sync(d, Narrowed(e))
<1> DEFINE len == Len(e.vals)
           v == e.vals[len]
           w == [v EXCEPT !.slot = Own("variant")]
           x == [e.vals EXCEPT ![len] = w]
           f == Narrowed(e)
<1>1. /\ e.vals \in Seq(ValuesHere) /\ len \in Nat /\ Len(c.stack) = len /\ c.stack \in Seq(SlotsHere)
      /\ e.env \in [PolyNames -> ValuesHere \cup {None}] /\ e.spent \in SUBSET PolyNames
      /\ e.alive \in SUBSET Nat /\ IsFiniteSet(e.alive)
      /\ \A i \in 1..len : e.vals[i].slot = c.stack[i] /\ e.vals[i] \in ValuesHere
  BY ExecIs, SyncIs
<1>2. len > 0 /\ len \in 1..len
  BY <1>1, PopIs
<1>3. e.vals # <<>>
  BY <1>1, <1>2
<1>4. f = Exec(x, e.env, e.spent, e.alive) /\ x \in Seq(ValuesHere)
  BY <1>3, NarrowedIs, SyncIs
<1>5. Len(x) = len /\ x[len] = w /\ \A i \in 1..len : i # len => x[i] = e.vals[i]
  BY <1>1, <1>2
<1>6. v \in ValuesHere /\ v.slot = Own("lin") /\ w.slot = Own("variant") /\ w.at = v.at /\ Linear(v) /\ Linear(w)
  BY <1>1, <1>2 DEF ValuesHere, Own, Linear
<1> DEFINE E == e.env
           S == e.spent
           A == e.alive
           H == Held(e)
           G == Held(f)
           p == InSlot(len)
<1>7. Good(H, A, c.borrows) /\ E \in [PolyNames -> ValuesHere \cup {None}] /\ S \in SUBSET PolyNames /\ A \in SUBSET Nat /\ IsFiniteSet(A)
  BY <1>1, SyncIs
<1>8. f = Exec(x, E, S, A)
  BY <1>4
<1> HIDE DEF x, w, f, E, S, A
<1>9. ExecOK(f) /\ f.vals = x /\ f.env = E /\ f.spent = S /\ f.alive = A
  BY <1>4, <1>7, <1>8, ExecBecomes
<1>10. /\ \A i : InSlot(i) \in DOMAIN H <=> i \in 1..len
       /\ \A i : InSlot(i) \in DOMAIN G <=> i \in 1..len
       /\ \A n : InName(n) \in DOMAIN H <=> n \in PolyNames /\ E[n] # None /\ n \notin S
       /\ \A n : InName(n) \in DOMAIN G <=> n \in PolyNames /\ E[n] # None /\ n \notin S
  BY <1>5, <1>9, HeldIs, SyncIs DEF E, S
<1>11. /\ \A i \in 1..len : H[InSlot(i)] = e.vals[i] /\ G[InSlot(i)] = x[i]
       /\ \A n \in PolyNames : InName(n) \in DOMAIN H => H[InName(n)] = E[n]
       /\ \A n \in PolyNames : InName(n) \in DOMAIN G => G[InName(n)] = E[n]
  BY <1>5, <1>9, HeldIs, SyncIs DEF E
<1>12. /\ \A q \in DOMAIN H : (\E i \in 1..len : q = InSlot(i)) \/ (\E n \in PolyNames : q = InName(n))
       /\ \A q \in DOMAIN G : (\E i \in 1..len : q = InSlot(i)) \/ (\E n \in PolyNames : q = InName(n))
  <2>1. ExecOK(e) /\ ExecOK(f) /\ Len(f.vals) = len
    BY <1>5, <1>9, SyncIs
  <2> QED BY <2>1, HeldIs
<1> HIDE DEF H, G, len
<1>13. DOMAIN G = DOMAIN H
  BY <1>10, <1>12
<1>14. p \in DOMAIN H /\ H[p] = v /\ G[p] = w
  BY <1>2, <1>5, <1>10, <1>11
<1>15. \A q \in DOMAIN H : q # p => G[q] = H[q]
  <2> SUFFICES ASSUME NEW q \in DOMAIN H, q # p PROVE G[q] = H[q]
    OBVIOUS
  <2>1. CASE \E i \in 1..len : q = InSlot(i)
    BY <1>5, <1>11, <2>1
  <2>2. CASE \E n \in PolyNames : q = InName(n)
    BY <1>11, <1>13, <2>2
  <2> QED BY <1>12, <2>1, <2>2
<1>16. Good(G, A, d.borrows)
  BY <1>6, <1>7, <1>13, <1>14, <1>15, NarrowKeeps
<1>17. StateOK(d)
  BY NarrowTypes, SyncIs
<1>18. StackMatches(d, f)
  <2>1. /\ Without(c.stack, 1) \in Seq(SlotsHere) /\ Len(Without(c.stack, 1)) = len - 1
        /\ \A i \in 1..len - 1 : Without(c.stack, 1)[i] = c.stack[i]
    BY <1>1, PopIs DEF len
  <2>2. /\ Len(d.stack) = len /\ d.stack[len] = Own("variant")
        /\ \A i \in 1..len - 1 : d.stack[i] = c.stack[i]
    <3>1. len - 1 + 1 = len
      BY <1>1
    <3> QED BY <2>1, <3>1, PushIs, OwnIs
  <2> SUFFICES ASSUME NEW i \in 1..len PROVE x[i].slot = d.stack[i]
    BY <1>5, <1>9, <2>2 DEF StackMatches
  <2>3. CASE i = len
    BY <1>5, <1>6, <2>2, <2>3
  <2>4. CASE i # len
    <3>1. i \in 1..len - 1
      BY <1>1, <2>4
    <3> QED BY <1>1, <1>5, <2>2, <2>4, <3>1
  <2> QED BY <2>3, <2>4
<1>19. ScopeMatches(d, f) /\ SpentMatches(d, f)
  BY <1>9 DEF Sync, Matches, ScopeMatches, SpentMatches, E, S
<1> QED BY <1>9, <1>16, <1>17, <1>18, <1>19 DEF Sync, Matches, G, f

-----------------------------------------------------------------------------
(* The inputs a callee supplies to a literal, and the outputs it consumes.   *)

Prefix(s, k) == SubSeq(s, 1, k)

LEMMA PrefixIs ==
  ASSUME NEW S, NEW s \in Seq(S), NEW k \in 0..Len(s)
  PROVE  /\ Prefix(s, k) \in Seq(S) /\ Len(Prefix(s, k)) = k /\ \A i \in 1..k : Prefix(s, k)[i] = s[i]
<1>1. Len(s) \in Nat /\ k \in Nat /\ \A i \in 1..k : s[i] \in S
  OBVIOUS
<1> QED BY <1>1, SubSeqProperties DEF Prefix

LEMMA SameSequence ==
  ASSUME NEW S, NEW T, NEW s \in Seq(S), NEW t \in Seq(T), Len(s) = Len(t), \A i \in 1..Len(s) : s[i] = t[i]
  PROVE  s = t
OBVIOUS

LEMMA PrefixGrows ==
  ASSUME NEW S, NEW s \in Seq(S), NEW k \in 1..Len(s)
  PROVE  /\ Prefix(s, k) = Append(Prefix(s, k - 1), s[k])
         /\ Without(Prefix(s, k), 1) = Prefix(s, k - 1) /\ Prefix(s, k) # <<>>
<1>1. k \in 0..Len(s) /\ k - 1 \in 0..Len(s) /\ k \in Nat /\ k - 1 \in Nat /\ k - 1 + 1 = k /\ k > 0
  OBVIOUS
<1> DEFINE a == Prefix(s, k)
           b == Prefix(s, k - 1)
<1>2. a \in Seq(S) /\ Len(a) = k /\ \A i \in 1..k : a[i] = s[i]
  BY <1>1, PrefixIs
<1>3. b \in Seq(S) /\ Len(b) = k - 1 /\ \A i \in 1..k - 1 : b[i] = s[i]
  BY <1>1, PrefixIs
<1>4. s[k] \in S
  OBVIOUS
<1> HIDE DEF a, b
<1>5. a # <<>>
  BY <1>1, <1>2
<1> DEFINE c == Append(b, s[k])
           d == Without(a, 1)
<1>6. c \in Seq(S) /\ Len(c) = k /\ c[k] = s[k] /\ \A i \in 1..k - 1 : c[i] = b[i]
  BY <1>1, <1>3, <1>4, PushIs
<1>7. d \in Seq(S) /\ Len(d) = k - 1 /\ \A i \in 1..k - 1 : d[i] = a[i]
  BY <1>2, <1>5, PopIs
<1> HIDE DEF c, d
<1>8. a = c
  <2>1. \A i \in 1..k : a[i] = c[i]
    <3> SUFFICES ASSUME NEW i \in 1..k PROVE a[i] = c[i]
      OBVIOUS
    <3>1. i \in 1..k - 1 \/ i = k
      BY <1>1
    <3> QED BY <1>2, <1>3, <1>6, <3>1
  <2> QED BY <1>2, <1>6, <2>1, SameSequence
<1>9. d = b
  <2>1. \A i \in 1..k - 1 : d[i] = b[i]
    <3> SUFFICES ASSUME NEW i \in 1..k - 1 PROVE d[i] = b[i]
      OBVIOUS
    <3>1. i \in 1..k
      BY <1>1
    <3>2. d[i] = a[i] /\ a[i] = s[i] /\ b[i] = s[i]
      BY <1>2, <1>3, <1>7, <3>1
    <3> QED BY <3>2
  <2> QED BY <1>3, <1>7, <2>1, SameSequence
<1> QED BY <1>5, <1>8, <1>9 DEF a, b, c, d

LEMMA PrefixEnds ==
  ASSUME NEW S, NEW s \in Seq(S), NEW t \in Seq(S)
  PROVE  /\ s \o t \in Seq(S) /\ Len(s \o t) = Len(s) + Len(t) /\ Len(s) \in Nat /\ Len(t) \in Nat
         /\ Prefix(s \o t, Len(s)) = s /\ Prefix(s \o t, Len(s) + Len(t)) = s \o t
         /\ \A i \in 1..Len(t) : (s \o t)[Len(s) + i] = t[i]
<1> DEFINE m == Len(s)
           n == Len(t)
           all == s \o t
<1>1. m \in Nat /\ n \in Nat
  OBVIOUS
<1>2. /\ all \in Seq(S) /\ Len(all) = m + n
      /\ \A i \in 1..m + n : all[i] = IF i <= m THEN s[i] ELSE t[i - m]
  BY ConcatProperties
<1> HIDE DEF all, m, n
<1>3. m \in 0..Len(all) /\ m + n \in 0..Len(all)
  BY <1>1, <1>2
<1>4. /\ Prefix(all, m) \in Seq(S) /\ Len(Prefix(all, m)) = m
      /\ \A i \in 1..m : Prefix(all, m)[i] = all[i]
  BY <1>2, <1>3, PrefixIs
<1>5. /\ Prefix(all, m + n) \in Seq(S) /\ Len(Prefix(all, m + n)) = m + n
      /\ \A i \in 1..m + n : Prefix(all, m + n)[i] = all[i]
  BY <1>2, <1>3, PrefixIs
<1>6. Prefix(all, m) = s
  <2>1. \A i \in 1..m : i \in 1..m + n /\ i <= m
    BY <1>1
  <2>2. \A i \in 1..m : Prefix(all, m)[i] = s[i]
    BY <1>2, <1>4, <2>1
  <2>3. Len(s) = m
    BY DEF m
  <2> QED BY <1>4, <2>2, <2>3, SameSequence
<1>7. Prefix(all, m + n) = all
  BY <1>2, <1>5, SameSequence
<1>8. \A i \in 1..n : all[m + i] = t[i]
  <2> SUFFICES ASSUME NEW i \in 1..n PROVE all[m + i] = t[i]
    OBVIOUS
  <2> DEFINE j == m + i
  <2>1. j \in 1..m + n /\ ~(j <= m) /\ j - m = i
    BY <1>1
  <2> HIDE DEF j
  <2>2. all[j] = t[j - m]
    BY <1>2, <2>1
  <2> QED BY <2>1, <2>2 DEF j
<1> QED BY <1>1, <1>2, <1>6, <1>7, <1>8 DEF all, m, n

LEMMA SyncSame ==
  ASSUME NEW c, NEW e, Sync(c, e), NEW d,
         d.stack = c.stack, d.locals = c.locals, d.states = c.states, d.borrows = c.borrows
  PROVE  Sync(d, e)
<1>1. StateOK(d)
  BY DEF Sync, StateOK
<1>2. Matches(d, e)
  BY DEF Sync, Matches, StackMatches, ScopeMatches, SpentMatches
<1> QED BY <1>1, <1>2 DEF Sync

LEMMA StateFields ==
  ASSUME NEW a, NEW b, NEW c, NEW d
  PROVE  State(a, b, c, d).stack = a /\ State(a, b, c, d).locals = b /\ State(a, b, c, d).states = c /\ State(a, b, c, d).borrows = d
BY DEF State

OwnSlots == [kind : {"own"}, of : {"lin", "agg"}]
Makes(ins) == [i \in DOMAIN ins |-> [Plain("make") EXCEPT !.of = ins[i].of]]
Consumes(outs) == [i \in DOMAIN outs |-> Plain("consume")]

LEMMA MakesKeep ==
  ASSUME NEW c, NEW e, Sync(c, e), NEW ins \in Seq(OwnSlots)
  PROVE  Sync(State(c.stack \o ins, c.locals, c.states, c.borrows), RunAll(e, Makes(ins)))
<1> DEFINE n == Len(ins)
           m == Len(c.stack)
           all == c.stack \o ins
           ts == Makes(ins)
           At(j) == State(Prefix(all, m + j), c.locals, c.states, c.borrows)
<1>1. n \in Nat /\ m \in Nat /\ DOMAIN ins = 1..n /\ ins \in Seq(SlotsHere) /\ c.stack \in Seq(SlotsHere)
  <2>1. OwnSlots \subseteq SlotsHere
    BY DEF OwnSlots, SlotsHere
  <2>2. ins \in Seq(SlotsHere)
    BY <2>1, SeqMonotonic
  <2> QED BY <2>2, SyncIs
<1>2. /\ all \in Seq(SlotsHere) /\ Len(all) = m + n
      /\ Prefix(all, m) = c.stack /\ Prefix(all, m + n) = all
      /\ \A i \in 1..n : all[m + i] = ins[i]
  <2> DEFINE s == c.stack
  <2>1. s \in Seq(SlotsHere) /\ ins \in Seq(SlotsHere)
    BY <1>1
  <2> HIDE DEF s
  <2>2. /\ s \o ins \in Seq(SlotsHere) /\ Len(s \o ins) = Len(s) + Len(ins) /\ Len(s) \in Nat /\ Len(ins) \in Nat
        /\ Prefix(s \o ins, Len(s)) = s /\ Prefix(s \o ins, Len(s) + Len(ins)) = s \o ins
        /\ \A i \in 1..Len(ins) : (s \o ins)[Len(s) + i] = ins[i]
    BY <2>1, PrefixEnds
  <2> QED BY <2>2 DEF s
<1>3. Len(ts) = n /\ \A i \in 1..n : ts[i] = [Plain("make") EXCEPT !.of = ins[i].of]
  BY <1>1 DEF Makes
<1>4. \A i \in 1..n : ins[i].of \in {"lin", "agg"} /\ ins[i] = Own(ins[i].of)
  <2> SUFFICES ASSUME NEW i \in 1..n PROVE ins[i].of \in {"lin", "agg"} /\ ins[i] = Own(ins[i].of)
    OBVIOUS
  <2>1. ins[i] \in OwnSlots
    BY ElementOfSeq
  <2> QED BY <2>1 DEF OwnSlots, Own
<1> HIDE DEF n, m, all, ts
<1>5. PICK f : Runs(f, e, ts, n)
  BY <1>1, RunsExist
<1>6. RunAll(e, ts) = f[n]
  <2>1. Len(ts) \in Nat /\ Runs(f, e, ts, Len(ts))
    BY <1>1, <1>3, <1>5
  <2> QED BY <1>3, <2>1, RunAllIs
<1>7. Sync(At(0), f[0])
  <2>1. m + 0 = m
    BY <1>1
  <2>2. At(0).stack = c.stack /\ At(0).locals = c.locals /\ At(0).states = c.states /\ At(0).borrows = c.borrows
    BY <1>2, <2>1, StateFields
  <2>3. f[0] = e
    BY <1>5 DEF Runs
  <2> HIDE DEF At
  <2> QED BY <2>2, <2>3, SyncSame
<1>8. \A j \in 1..n : Sync(At(j - 1), f[j - 1]) => Sync(At(j), f[j])
  <2> SUFFICES ASSUME NEW j \in 1..n, Sync(At(j - 1), f[j - 1]) PROVE Sync(At(j), f[j])
    OBVIOUS
  <2> DEFINE k == m + j
  <2>1. k \in 1..Len(all) /\ k - 1 = m + (j - 1)
    BY <1>1, <1>2
  <2> HIDE DEF k
  <2>7. Prefix(all, k) = Append(Prefix(all, k - 1), all[k])
    BY <1>2, <2>1, PrefixGrows
  <2>2. Prefix(all, m + j) = Append(Prefix(all, m + (j - 1)), all[m + j])
    BY <2>1, <2>7 DEF k
  <2>3. all[m + j] = Own(ins[j].of) /\ ins[j].of \in {"lin", "agg"}
    BY <1>2, <1>4
  <2>4. /\ At(j).stack = Append(At(j - 1).stack, Own(ins[j].of))
        /\ At(j).locals = At(j - 1).locals /\ At(j).states = At(j - 1).states /\ At(j).borrows = At(j - 1).borrows
    BY <2>2, <2>3, StateFields
  <2> HIDE DEF At
  <2>5. MakeStep(ts[j], At(j - 1), At(j))
    BY <1>3, <2>3, <2>4 DEF MakeStep, StackOnly
  <2>6. f[j] = Run(f[j - 1], ts[j])
    BY <1>5 DEF Runs
  <2> QED BY <2>5, <2>6, MakeKeeps
<1>9. Sync(At(n), f[n])
  <2> DEFINE Fail == {j \in 0..n : ~Sync(At(j), f[j])}
  <2> SUFFICES ASSUME Fail # {} PROVE FALSE
    BY <1>1
  <2> HIDE DEF At
  <2>1. PICK j \in Fail : \A k \in Fail : j <= k
    <3>1. Fail \in SUBSET Nat
      OBVIOUS
    <3> HIDE DEF Fail
    <3> QED BY <3>1, LeastOfNaturals
  <2>2. j \in 0..n /\ ~Sync(At(j), f[j])
    BY <2>1
  <2>3. j # 0
    BY <1>7, <2>2
  <2>4. j \in 1..n /\ j - 1 \in 0..n /\ j - 1 \notin Fail
    BY <1>1, <2>1, <2>2, <2>3
  <2> QED BY <1>8, <2>2, <2>4
<1> QED BY <1>2, <1>6, <1>9 DEF all, ts

LEMMA ConsumesKeep ==
  ASSUME NEW stack \in Seq(SlotsHere), NEW outs \in Seq(SlotsHere), NEW L, NEW M, NEW B, NEW e,
         Sync(State(stack \o outs, L, M, B), e)
  PROVE  /\ Sync(State(stack, L, M, B), RunAll(e, Consumes(outs)))
         /\ RunAll(e, Consumes(outs)).env = e.env /\ RunAll(e, Consumes(outs)).spent = e.spent
<1> DEFINE n == Len(outs)
           m == Len(stack)
           all == stack \o outs
           ts == Consumes(outs)
           At(j) == State(Prefix(all, m + (n - j)), L, M, B)
<1>1. n \in Nat /\ m \in Nat /\ DOMAIN outs = 1..n
  OBVIOUS
<1>2. /\ all \in Seq(SlotsHere) /\ Len(all) = m + n
      /\ Prefix(all, m) = stack /\ Prefix(all, m + n) = all
  BY PrefixEnds
<1>3. Len(ts) = n /\ \A i \in 1..n : ts[i] = Plain("consume")
  BY <1>1 DEF Consumes
<1>10. Sync(State(all, L, M, B), e)
  OBVIOUS
<1> HIDE DEF n, m, all, ts
<1>4. PICK f : Runs(f, e, ts, n)
  BY <1>1, RunsExist
<1>5. RunAll(e, ts) = f[n]
  <2>1. Len(ts) \in Nat /\ Runs(f, e, ts, Len(ts))
    BY <1>1, <1>3, <1>4
  <2> QED BY <1>3, <2>1, RunAllIs
<1> DEFINE Same(x) == x.env = e.env /\ x.spent = e.spent
<1>6. Sync(At(0), f[0]) /\ Same(f[0])
  <2>1. n - 0 = n
    BY <1>1
  <2> QED BY <1>2, <1>4, <1>10, <2>1 DEF Runs
<1>7. \A j \in 1..n : Sync(At(j - 1), f[j - 1]) /\ Same(f[j - 1]) => Sync(At(j), f[j]) /\ Same(f[j])
  <2> SUFFICES ASSUME NEW j \in 1..n, Sync(At(j - 1), f[j - 1]), Same(f[j - 1]) PROVE Sync(At(j), f[j]) /\ Same(f[j])
    OBVIOUS
  <2> DEFINE k == m + (n - (j - 1))
  <2>1. k \in 1..Len(all) /\ k - 1 = m + (n - j)
    BY <1>1, <1>2
  <2> HIDE DEF k
  <2>2. Without(Prefix(all, k), 1) = Prefix(all, k - 1) /\ Prefix(all, k) # <<>>
    BY <1>2, <2>1, PrefixGrows
  <2>3. At(j - 1) = State(Prefix(all, k), L, M, B) /\ At(j) = State(Prefix(all, k - 1), L, M, B)
    BY <2>1 DEF k
  <2>4. /\ At(j).stack = Without(At(j - 1).stack, 1) /\ At(j - 1).stack # <<>>
        /\ At(j).locals = At(j - 1).locals /\ At(j).states = At(j - 1).states /\ At(j).borrows = At(j - 1).borrows
    <3> HIDE DEF At
    <3> QED BY <2>2, <2>3, StateFields
  <2> HIDE DEF At
  <2>5. ConsumeStep(ts[j], At(j - 1), At(j))
    BY <1>3, <2>4 DEF ConsumeStep, StackOnly
  <2>6. f[j] = Run(f[j - 1], ts[j])
    BY <1>4 DEF Runs
  <2>7. Sync(At(j), f[j])
    BY <2>5, <2>6, ConsumeKeeps
  <2>8. Same(f[j])
    <3> DEFINE g == f[j - 1]
    <3>1. ExecOK(g)
      BY SyncIs
    <3> HIDE DEF g
    <3>2. \E b : Doing(Plain("consume"), g) = Exec(Without(g.vals, 1), g.env, g.spent, b)
      BY <3>1, ConsumeDoes
    <3>3. Run(g, Plain("consume")).env = g.env /\ Run(g, Plain("consume")).spent = g.spent
      BY <3>2, RunFields
    <3> QED BY <1>3, <2>6, <3>3 DEF g
  <2> QED BY <2>7, <2>8
<1>8. Sync(At(n), f[n]) /\ Same(f[n])
  <2> DEFINE Fail == {j \in 0..n : ~(Sync(At(j), f[j]) /\ Same(f[j]))}
  <2> SUFFICES ASSUME Fail # {} PROVE FALSE
    BY <1>1
  <2> HIDE DEF At, Same
  <2>1. PICK j \in Fail : \A k \in Fail : j <= k
    <3>1. Fail \in SUBSET Nat
      OBVIOUS
    <3> HIDE DEF Fail
    <3> QED BY <3>1, LeastOfNaturals
  <2>2. j \in 0..n /\ ~(Sync(At(j), f[j]) /\ Same(f[j]))
    BY <2>1
  <2>3. j # 0
    BY <1>6, <2>2
  <2>4. j \in 1..n /\ j - 1 \in 0..n /\ j - 1 \notin Fail
    BY <1>1, <2>1, <2>2, <2>3
  <2> QED BY <1>7, <2>2, <2>4
<1>9. m + (n - n) = m
  BY <1>1
<1> QED BY <1>2, <1>5, <1>8, <1>9 DEF ts

-----------------------------------------------------------------------------
(* A stack of its own over what the caller keeps: the same terms.            *)

LEMMA OverPrefix ==
  ASSUME NEW S, NEW u \in Seq(S), NEW s \in Seq(S)
  PROVE  /\ u \o s \in Seq(S) /\ Len(u \o s) = Len(u) + Len(s) /\ Len(u) \in Nat /\ Len(s) \in Nat
         /\ \A i \in 1..Len(u) : (u \o s)[i] = u[i]
         /\ \A i \in 1..Len(s) : (u \o s)[Len(u) + i] = s[i]
<1>1. /\ u \o s \in Seq(S) /\ Len(u \o s) = Len(u) + Len(s) /\ Len(u) \in Nat /\ Len(s) \in Nat
      /\ \A i \in 1..Len(s) : (u \o s)[Len(u) + i] = s[i]
  BY PrefixEnds
<1>2. \A i \in 1..Len(u) + Len(s) : (u \o s)[i] = IF i <= Len(u) THEN u[i] ELSE s[i - Len(u)]
  BY ConcatProperties
<1>3. \A i \in 1..Len(u) : (u \o s)[i] = u[i]
  BY <1>1, <1>2
<1> QED BY <1>1, <1>3

LEMMA EqualStacks ==
  ASSUME NEW S, NEW u \in Seq(S), NEW s \in Seq(S), NEW r \in Seq(S), Len(r) = Len(u) + Len(s),
         \A i \in 1..Len(u) : r[i] = u[i], \A i \in 1..Len(s) : r[Len(u) + i] = s[i]
  PROVE  r = u \o s
<1> DEFINE all == u \o s
           m == Len(u)
           n == Len(s)
<1>1. /\ all \in Seq(S) /\ Len(all) = m + n /\ m \in Nat /\ n \in Nat
      /\ \A i \in 1..m : all[i] = u[i]
      /\ \A i \in 1..n : all[m + i] = s[i]
  BY OverPrefix
<1>2. Len(r) = m + n /\ (\A i \in 1..m : r[i] = u[i]) /\ \A i \in 1..n : r[m + i] = s[i]
  OBVIOUS
<1> HIDE DEF all, m, n
<1>3. \A i \in 1..m + n : r[i] = all[i]
  <2> SUFFICES ASSUME NEW i \in 1..m + n PROVE r[i] = all[i]
    OBVIOUS
  <2>1. CASE i <= m
    <3>1. i \in 1..m
      BY <1>1, <2>1
    <3> QED BY <1>1, <1>2, <3>1
  <2>2. CASE i > m
    <3> DEFINE j == i - m
    <3>1. j \in 1..n /\ m + j = i
      BY <1>1, <2>2
    <3> HIDE DEF j
    <3>2. r[m + j] = all[m + j]
      BY <1>1, <1>2, <3>1
    <3> QED BY <3>1, <3>2
  <2> QED BY <1>1, <2>1, <2>2
<1>4. r = all
  BY <1>1, <1>2, <1>3, SameSequence
<1> QED BY <1>4 DEF all

LEMMA PushOver ==
  ASSUME NEW S, NEW u \in Seq(S), NEW s \in Seq(S), NEW v \in S
  PROVE  u \o Append(s, v) = Append(u \o s, v)
<1> DEFINE all == u \o s
           t == Append(s, v)
           r == Append(all, v)
           m == Len(u)
           n == Len(s)
<1>1. /\ all \in Seq(S) /\ Len(all) = m + n /\ m \in Nat /\ n \in Nat
      /\ \A i \in 1..m : all[i] = u[i]
      /\ \A i \in 1..n : all[m + i] = s[i]
  BY OverPrefix
<1>2. t \in Seq(S) /\ Len(t) = n + 1 /\ t[n + 1] = v /\ \A i \in 1..n : t[i] = s[i]
  BY PushIs
<1> HIDE DEF all
<1>3. r \in Seq(S) /\ Len(r) = m + n + 1 /\ r[m + n + 1] = v /\ \A i \in 1..m + n : r[i] = all[i]
  BY <1>1, PushIs
<1> HIDE DEF t, r, m, n
<1>4. \A i \in 1..m : r[i] = u[i]
  BY <1>1, <1>3
<1>5. \A i \in 1..n + 1 : r[m + i] = t[i]
  <2> SUFFICES ASSUME NEW i \in 1..n + 1 PROVE r[m + i] = t[i]
    OBVIOUS
  <2>1. CASE i = n + 1
    <3>1. m + i = m + n + 1
      BY <1>1, <2>1
    <3> QED BY <1>2, <1>3, <2>1, <3>1
  <2>2. CASE i # n + 1
    <3> DEFINE j == m + i
    <3>1. i \in 1..n /\ j \in 1..m + n /\ j = m + i
      BY <1>1, <2>2
    <3> HIDE DEF j
    <3>2. r[j] = all[j] /\ all[m + i] = s[i] /\ t[i] = s[i]
      BY <1>1, <1>2, <1>3, <3>1
    <3> QED BY <3>1, <3>2
  <2> QED BY <2>1, <2>2
<1>6. Len(r) = Len(u) + Len(t) /\ (\A i \in 1..Len(u) : r[i] = u[i]) /\ \A i \in 1..Len(t) : r[Len(u) + i] = t[i]
  BY <1>1, <1>2, <1>3, <1>4, <1>5 DEF m
<1>7. r = u \o t
  BY <1>2, <1>3, <1>6, EqualStacks
<1> QED BY <1>7 DEF r, t, all

LEMMA PopOver ==
  ASSUME NEW S, NEW u \in Seq(S), NEW s \in Seq(S), s # <<>>
  PROVE  /\ u \o Without(s, 1) = Without(u \o s, 1)
         /\ u \o s # <<>> /\ (u \o s)[Len(u \o s)] = s[Len(s)]
<1> DEFINE all == u \o s
           t == Without(s, 1)
           r == Without(all, 1)
           m == Len(u)
           n == Len(s)
<1>1. /\ all \in Seq(S) /\ Len(all) = m + n /\ m \in Nat /\ n \in Nat
      /\ \A i \in 1..m : all[i] = u[i]
      /\ \A i \in 1..n : all[m + i] = s[i]
  BY OverPrefix
<1>2. t \in Seq(S) /\ Len(t) = n - 1 /\ n > 0 /\ \A i \in 1..n - 1 : t[i] = s[i]
  BY PopIs
<1> HIDE DEF all
<1>8. all # <<>>
  BY <1>1, <1>2
<1>3. r \in Seq(S) /\ Len(r) = m + n - 1 /\ \A i \in 1..m + n - 1 : r[i] = all[i]
  <2>1. all \in Seq(S) /\ Len(all) = m + n
    BY <1>1
  <2>2. r \in Seq(S) /\ Len(r) = Len(all) - 1 /\ \A i \in 1..Len(all) - 1 : r[i] = all[i]
    BY <1>8, <2>1, PopIs
  <2> QED BY <2>1, <2>2
<1> HIDE DEF t, r, m, n
<1>4. \A i \in 1..m : r[i] = u[i]
  BY <1>1, <1>2, <1>3
<1>5. \A i \in 1..n - 1 : r[m + i] = t[i]
  <2> SUFFICES ASSUME NEW i \in 1..n - 1 PROVE r[m + i] = t[i]
    OBVIOUS
  <2> DEFINE j == m + i
  <2>1. i \in 1..n /\ j \in 1..m + n - 1 /\ j = m + i
    BY <1>1
  <2> HIDE DEF j
  <2>2. r[j] = all[j] /\ all[m + i] = s[i] /\ t[i] = s[i]
    BY <1>1, <1>2, <1>3, <2>1
  <2> QED BY <2>1, <2>2
<1>6. Len(r) = Len(u) + Len(t) /\ (\A i \in 1..Len(u) : r[i] = u[i]) /\ \A i \in 1..Len(t) : r[Len(u) + i] = t[i]
  BY <1>1, <1>2, <1>3, <1>4, <1>5 DEF m
<1>7. r = u \o t
  BY <1>2, <1>3, <1>6, EqualStacks
<1>9. all[Len(all)] = s[n]
  BY <1>1, <1>2
<1> QED BY <1>7, <1>8, <1>9 DEF r, t, all, n

LEMMA RotateOver ==
  ASSUME NEW S, NEW u \in Seq(S), NEW s \in Seq(S), NEW k \in 2..3, Len(s) >= k
  PROVE  u \o Rotated(s, k) = Rotated(u \o s, k) /\ Len(u \o s) >= k
<1> DEFINE all == u \o s
           t == Rotated(s, k)
           r == Rotated(all, k)
           m == Len(u)
           n == Len(s)
<1>1. /\ all \in Seq(S) /\ Len(all) = m + n /\ m \in Nat /\ n \in Nat
      /\ \A i \in 1..m : all[i] = u[i]
      /\ \A i \in 1..n : all[m + i] = s[i]
  BY OverPrefix
<1>2. /\ t \in Seq(S) /\ Len(t) = n
      /\ \A i \in 1..n : WasAt(n, k, i) \in 1..n /\ t[i] = s[WasAt(n, k, i)]
  BY RotatedIs
<1>3. n >= k /\ k \in 2..3
  OBVIOUS
<1> HIDE DEF all, t, m, n
<1>4. Len(all) >= k
  BY <1>1, <1>3
<1>5. /\ r \in Seq(S) /\ Len(r) = m + n
      /\ \A i \in 1..m + n : r[i] = all[WasAt(m + n, k, i)]
  <2>1. all \in Seq(S) /\ Len(all) = m + n
    BY <1>1
  <2>2. /\ r \in Seq(S) /\ Len(r) = Len(all)
        /\ \A i \in 1..Len(all) : WasAt(Len(all), k, i) \in 1..Len(all) /\ r[i] = all[WasAt(Len(all), k, i)]
    BY <1>4, <2>1, RotatedIs
  <2> QED BY <2>1, <2>2
<1> HIDE DEF r
<1>6. \A i \in 1..m : r[i] = u[i]
  <2> SUFFICES ASSUME NEW i \in 1..m PROVE r[i] = u[i]
    OBVIOUS
  <2>1. i \in 1..m + n /\ WasAt(m + n, k, i) = i
    BY <1>1, <1>3 DEF WasAt
  <2> QED BY <1>1, <1>5, <2>1
<1>7. \A i \in 1..n : r[m + i] = t[i]
  <2> SUFFICES ASSUME NEW i \in 1..n PROVE r[m + i] = t[i]
    OBVIOUS
  <2> DEFINE j == m + i
             w == WasAt(n, k, i)
  <2>1. j \in 1..m + n /\ WasAt(m + n, k, j) = m + w
    BY <1>1, <1>3 DEF WasAt
  <2>2. w \in 1..n /\ t[i] = s[w]
    BY <1>2
  <2> HIDE DEF j, w
  <2>3. r[j] = all[m + w] /\ all[m + w] = s[w]
    BY <1>1, <1>5, <2>1, <2>2
  <2> QED BY <2>2, <2>3 DEF j
<1>8. Len(r) = Len(u) + Len(t) /\ (\A i \in 1..Len(u) : r[i] = u[i]) /\ \A i \in 1..Len(t) : r[Len(u) + i] = t[i]
  BY <1>1, <1>2, <1>5, <1>6, <1>7 DEF m
<1>9. r = u \o t
  BY <1>2, <1>5, <1>8, EqualStacks
<1> QED BY <1>4, <1>9 DEF r, t, all

LEMMA SecondOver ==
  ASSUME NEW S, NEW u \in Seq(S), NEW s \in Seq(S), Len(s) >= 2
  PROVE  Len(u \o s) >= 2 /\ (u \o s)[Len(u \o s) - 1] = s[Len(s) - 1]
<1> DEFINE all == u \o s
           m == Len(u)
           n == Len(s)
           j == n - 1
<1>1. /\ Len(all) = m + n /\ m \in Nat /\ n \in Nat
      /\ \A i \in 1..n : all[m + i] = s[i]
  BY OverPrefix
<1>2. n >= 2
  OBVIOUS
<1> HIDE DEF all, m, n
<1>3. j \in 1..n /\ Len(all) - 1 = m + j /\ Len(all) >= 2
  BY <1>1, <1>2
<1>4. all[m + j] = s[j]
  BY <1>1, <1>3
<1> QED BY <1>3, <1>4 DEF all, n

\* the term is noted in the literal; nothing else of the literals changes
LEMMA FrameSame ==
  ASSUME NEW f, FrameOK(f), NEW t
  PROVE  LET g == [f EXCEPT !.terms = Append(f.terms, t)]
         IN FrameOK(g) /\ g.terms = Append(f.terms, t) /\ \A x \in FrameFields \ {"terms"} : g[x] = f[x]
<1> DEFINE g == [f EXCEPT !.terms = Append(f.terms, t)]
<1>1. DOMAIN f = FrameFields
  BY DEF FrameOK
<1>2. DOMAIN g = FrameFields /\ g.terms = Append(f.terms, t) /\ \A x \in FrameFields \ {"terms"} : g[x] = f[x]
  BY <1>1 DEF FrameFields
<1> HIDE DEF g
<1>3. /\ g.kind = f.kind /\ g.turns = f.turns /\ g.arm = f.arm /\ g.met = f.met /\ g.under = f.under /\ g.entry = f.entry
      /\ g.callee = f.callee /\ g.running = f.running /\ g.locals = f.locals /\ g.states = f.states /\ g.borrows = f.borrows
      /\ g.exit = f.exit /\ g.joined = f.joined
  BY <1>2 DEF FrameFields
<1>4. ExitOf(g) = ExitOf(f) /\ Before(g) = Before(f)
  BY <1>3 DEF ExitOf, Before
<1>5. \E S : g.terms \in Seq(S)
  <2>1. PICK S : f.terms \in Seq(S)
    BY DEF FrameOK
  <2>2. f.terms \in Seq(S \cup {t})
    BY <2>1, SeqMonotonic
  <2> QED BY <1>2, <2>2
<1>6. FrameOK(g)
  BY <1>2, <1>3, <1>4, <1>5 DEF FrameOK
<1> QED BY <1>2, <1>6 DEF g

SameFrame(f, g) ==
  /\ g.kind = f.kind /\ g.turns = f.turns /\ g.arm = f.arm /\ g.met = f.met /\ g.under = f.under /\ g.entry = f.entry
  /\ g.callee = f.callee /\ g.running = f.running /\ g.locals = f.locals /\ g.states = f.states /\ g.borrows = f.borrows
  /\ g.exit = f.exit /\ g.joined = f.joined

LEMMA DoesIs ==
  ASSUME Nesting, NEW t, Does(t)
  PROVE  /\ Nested' = Nested /\ DOMAIN literals' = 1..Nested /\ literals' = [i \in 1..Nested |-> literals'[i]]
         /\ \A i \in 1..Nested : FrameOK(literals'[i]) /\ SameFrame(literals[i], literals'[i])
         /\ running /\ Nested > 0 /\ Turns = 2 => literals'[Nested].terms = Append(literals[Nested].terms, t)
         /\ Under' = Under
<1> DEFINE L == literals
           M == literals'
           n == Nested
           f == L[n]
           g == [f EXCEPT !.terms = Append(f.terms, t)]
<1>1. n \in Nat /\ DOMAIN L = 1..n /\ L = [i \in 1..n |-> L[i]] /\ \A i \in 1..n : FrameOK(L[i])
  BY DEF Nesting
<1>2. M = IF n > 0 /\ running /\ Turns = 2 THEN [L EXCEPT ![n] = g] ELSE L
  BY DEF Does
<1>3. n > 0 => FrameOK(g) /\ g.terms = Append(f.terms, t) /\ SameFrame(f, g)
  <2> SUFFICES ASSUME n > 0 PROVE FrameOK(g) /\ g.terms = Append(f.terms, t) /\ SameFrame(f, g)
    OBVIOUS
  <2>1. FrameOK(f)
    BY <1>1
  <2> HIDE DEF f
  <2>2. FrameOK(g) /\ g.terms = Append(f.terms, t) /\ \A x \in FrameFields \ {"terms"} : g[x] = f[x]
    BY <2>1, FrameSame
  <2> HIDE DEF g
  <2>3. SameFrame(f, g)
    BY <2>2 DEF SameFrame, FrameFields
  <2> QED BY <2>2, <2>3
<1>4. \A h : SameFrame(h, h)
  BY DEF SameFrame
<1>5. Nested = n /\ Turns = f.turns[f.arm] /\ L = literals
  BY DEF Turns, Innermost
<1>6. M = literals'
  OBVIOUS
<1> HIDE DEF g, M, L
<1>7. DOMAIN M = 1..n /\ M = [i \in 1..n |-> M[i]]
  <2>1. CASE n > 0 /\ running /\ Turns = 2
    BY <1>1, <1>2, <2>1
  <2>2. CASE ~(n > 0 /\ running /\ Turns = 2)
    BY <1>1, <1>2, <2>2
  <2> QED BY <2>1, <2>2
<1>8. \A i \in 1..n : FrameOK(M[i]) /\ SameFrame(L[i], M[i])
  <2>1. CASE n > 0 /\ running /\ Turns = 2
    BY <1>1, <1>2, <1>3, <1>4, <2>1
  <2>2. CASE ~(n > 0 /\ running /\ Turns = 2)
    BY <1>1, <1>2, <1>4, <2>2
  <2> QED BY <2>1, <2>2
<1>9. n > 0 /\ running /\ Turns = 2 => M[n] = g
  BY <1>1, <1>2
<1>10. Len(M) = n
  BY <1>1, <1>7
<1>11. Under' = Under
  <2>1. Nested' = n
    BY <1>6, <1>10 DEF Nested
  <2>2. CASE n = 0
    BY <2>1, <2>2 DEF Under
  <2>3. CASE n > 0
    <3>1. M[n].under = L[n].under
      BY <1>1, <1>8, <2>3 DEF SameFrame
    <3>2. Innermost' = M[n] /\ Innermost = L[n]
      BY <1>5, <1>6, <2>1 DEF Innermost
    <3> QED BY <1>5, <2>1, <2>3, <3>1, <3>2 DEF Under
  <2> QED BY <1>1, <2>2, <2>3
<1>12. Nested' = n
  BY <1>6, <1>10 DEF Nested
<1> QED BY <1>3, <1>5, <1>6, <1>7, <1>8, <1>9, <1>11, <1>12

\* a term of the body, or of a literal, is a term of the whole state
Placed == Nesting /\ Under \in Seq(SlotsHere) /\ NoReferences(Under) /\ StateOK(Here)
TermIs == \E t : Step(t, Here, Here') /\ Does(t) /\ operands' \in Seq(SlotsHere)

LEMMA HereIs ==
  ASSUME Placed
  PROVE  /\ Here.stack = Under \o operands /\ Here.locals = locals /\ Here.states = states /\ Here.borrows = borrows
         /\ Under \in Seq(SlotsHere) /\ operands \in Seq(SlotsHere)
         /\ locals \in [PolyNames -> SlotsHere \cup {None}] /\ states \in [PolyNames -> MoveStatesHere]
<1>1. Here.stack = Under \o operands /\ Here.locals = locals /\ Here.states = states /\ Here.borrows = borrows
  BY DEF Here, State
<1> QED BY <1>1 DEF Placed, Nesting, StateOK

LEMMA HereNext ==
  ASSUME Nesting, NEW t, Does(t)
  PROVE  /\ Here'.stack = Under \o operands' /\ Here'.locals = locals' /\ Here'.states = states' /\ Here'.borrows = borrows'
<1>1. Under' = Under
  BY DoesIs
<1>2. Here' = State(Under' \o operands', locals', states', borrows')
  BY DEF Here
<1>3. \A s : State(s, locals', states', borrows').stack = s /\ State(s, locals', states', borrows').locals = locals'
          /\ State(s, locals', states', borrows').states = states' /\ State(s, locals', states', borrows').borrows = borrows'
  BY DEF State
<1> QED BY <1>1, <1>2, <1>3

LEMMA PrunedHere ==
  ASSUME Placed
  PROVE  Pruned = PrunedOf(Here)
<1> DEFINE s == Under \o operands
<1>1. /\ Len(s) = Len(Under) + Len(operands) /\ Len(Under) \in Nat /\ Len(operands) \in Nat
      /\ \A i \in 1..Len(Under) : s[i] = Under[i]
      /\ \A i \in 1..Len(operands) : s[Len(Under) + i] = operands[i]
      /\ s \in Seq(SlotsHere)
  BY HereIs, OverPrefix
<1>2. \A i \in 1..Len(Under) : ~IsRef(Under[i])
  BY HereIs DEF Placed, NoReferences
<1> HIDE DEF s
<1>3. (\E i \in DOMAIN s : IsRef(s[i])) <=> \E i \in DOMAIN operands : IsRef(operands[i])
  <2>1. ASSUME NEW i \in DOMAIN s, IsRef(s[i]) PROVE \E j \in DOMAIN operands : IsRef(operands[j])
    <3>1. i \in 1..Len(Under) + Len(operands)
      BY <1>1
    <3>2. i > Len(Under)
      BY <1>1, <1>2, <2>1, <3>1
    <3> DEFINE j == i - Len(Under)
    <3>3. j \in 1..Len(operands) /\ Len(Under) + j = i
      BY <1>1, <3>1, <3>2
    <3> HIDE DEF j
    <3>4. s[Len(Under) + j] = operands[j]
      BY <1>1, <3>3
    <3>5. j \in DOMAIN operands
      BY <3>3, HereIs
    <3> QED BY <2>1, <3>3, <3>4, <3>5
  <2>2. ASSUME NEW j \in DOMAIN operands, IsRef(operands[j]) PROVE \E i \in DOMAIN s : IsRef(s[i])
    <3>1. j \in 1..Len(operands)
      BY HereIs
    <3> DEFINE i == Len(Under) + j
    <3>2. i \in DOMAIN s
      BY <1>1, <3>1
    <3> QED BY <1>1, <2>2, <3>1, <3>2
  <2> QED BY <2>1, <2>2
<1>4. (\E n \in InLocals : IsRef(locals[n])) <=> \E n \in PolyNames : Here.locals[n] # None /\ IsRef(Here.locals[n])
  BY HereIs DEF InLocals
<1>5. HasReference(Here) <=> (\E i \in DOMAIN operands : IsRef(operands[i])) \/ (\E n \in InLocals : IsRef(locals[n]))
  BY <1>3, <1>4, HereIs DEF HasReference, s
<1> QED BY <1>5, HereIs DEF Pruned, PrunedOf

LEMMA MakeTerm ==
  ASSUME Placed, NEW of \in {"lin", "agg"}, MakeOwned(of)
  PROVE  TermIs
<1> DEFINE t == [Plain("make") EXCEPT !.of = of]
<1>1. Does(t) /\ operands' = Append(operands, Own(of)) /\ locals' = locals /\ states' = states /\ borrows' = borrows
  BY DEF MakeOwned
<1>2. Own(of) \in SlotsHere
  BY OwnIs
<1>3. operands' \in Seq(SlotsHere) /\ Under \o operands' = Append(Under \o operands, Own(of))
  BY <1>1, <1>2, HereIs, PushOver, PushIs
<1>4. MakeStep(t, Here, Here')
  BY <1>1, <1>3, HereIs, HereNext DEF MakeStep, StackOnly, Placed
<1> QED BY <1>1, <1>3, <1>4 DEF TermIs, Step

LEMMA ConsumeTerm ==
  ASSUME Placed, ConsumeTop
  PROVE  TermIs
<1> DEFINE t == Plain("consume")
<1>1. Does(t) /\ operands # <<>> /\ operands' = Without(operands, 1) /\ locals' = locals /\ states' = states /\ borrows' = borrows
  BY DEF ConsumeTop
<1>2. operands' \in Seq(SlotsHere)
  BY <1>1, HereIs, PopIs
<1>3. Under \o operands' = Without(Under \o operands, 1) /\ Under \o operands # <<>>
  BY <1>1, HereIs, PopOver
<1>4. ConsumeStep(t, Here, Here')
  BY <1>1, <1>3, HereIs, HereNext DEF ConsumeStep, StackOnly, Placed
<1> QED BY <1>1, <1>2, <1>4 DEF TermIs, Step

LEMMA DupTerm ==
  ASSUME Placed, Dup
  PROVE  TermIs
<1> DEFINE t == Plain("dup")
           v == operands[Len(operands)]
<1>1. Does(t) /\ operands # <<>> /\ IsCopy(v) /\ operands' = Append(operands, v) /\ locals' = locals /\ states' = states /\ borrows' = borrows
  BY DEF Dup, TopOperand
<1>2. v \in SlotsHere
  BY <1>1, HereIs, PopIs
<1>3. Under \o operands # <<>> /\ (Under \o operands)[Len(Under \o operands)] = v
  BY <1>1, HereIs, PopOver
<1> HIDE DEF v
<1>4. operands' \in Seq(SlotsHere) /\ Under \o operands' = Append(Under \o operands, v)
  BY <1>1, <1>2, HereIs, PushOver, PushIs
<1>5. DupStep(t, Here, Here')
  BY <1>1, <1>3, <1>4, HereIs, HereNext DEF DupStep, StackOnly, Placed
<1> QED BY <1>1, <1>4, <1>5 DEF TermIs, Step

LEMMA OverTerm ==
  ASSUME Placed, Over
  PROVE  TermIs
<1> DEFINE t == Plain("over")
           v == operands[Len(operands) - 1]
<1>1. Does(t) /\ Len(operands) >= 2 /\ IsCopy(v) /\ operands' = Append(operands, v) /\ locals' = locals /\ states' = states /\ borrows' = borrows
  BY DEF Over
<1>2. v \in SlotsHere
  <2>1. operands \in Seq(SlotsHere) /\ Len(operands) \in Nat
    BY HereIs
  <2>2. Len(operands) - 1 \in 1..Len(operands)
    BY <1>1, <2>1
  <2> QED BY <2>1, <2>2
<1>3. Len(Under \o operands) >= 2 /\ (Under \o operands)[Len(Under \o operands) - 1] = v
  BY <1>1, HereIs, SecondOver
<1> HIDE DEF v
<1>4. operands' \in Seq(SlotsHere) /\ Under \o operands' = Append(Under \o operands, v)
  BY <1>1, <1>2, HereIs, PushOver, PushIs
<1>5. OverStep(t, Here, Here')
  BY <1>1, <1>3, <1>4, HereIs, HereNext DEF OverStep, StackOnly, Placed
<1> QED BY <1>1, <1>4, <1>5 DEF TermIs, Step

LEMMA RotateTerm ==
  ASSUME Placed, NEW k \in 2..3, RotateTop(k)
  PROVE  TermIs
<1> DEFINE t == [Plain("rotate") EXCEPT !.k = k]
<1>1. Does(t) /\ Len(operands) >= k /\ operands' = Rotated(operands, k) /\ locals' = locals /\ states' = states /\ borrows' = borrows
  BY DEF RotateTop
<1>2. operands' \in Seq(SlotsHere)
  BY <1>1, HereIs, RotatedIs
<1>3. Under \o operands' = Rotated(Under \o operands, k) /\ Len(Under \o operands) >= k
  BY <1>1, HereIs, RotateOver
<1>4. RotateStep(t, Here, Here')
  BY <1>1, <1>3, HereIs, HereNext DEF RotateStep, StackOnly, Placed
<1> QED BY <1>1, <1>2, <1>4 DEF TermIs, Step

LEMMA BindTerm ==
  ASSUME Placed, NEW n \in PolyNames, BindLocal(n)
  PROVE  TermIs
<1> DEFINE t == [Plain("bind") EXCEPT !.n = n]
           v == operands[Len(operands)]
<1>1. /\ Does(t) /\ operands # <<>> /\ locals[n] = None /\ operands' = Without(operands, 1) /\ borrows' = borrows
      /\ locals' = [locals EXCEPT ![n] = v] /\ states' = IF IsCopy(v) THEN states ELSE [states EXCEPT ![n] = "live"]
  BY DEF BindLocal, TopOperand, InLocals
<1>2. operands' \in Seq(SlotsHere)
  BY <1>1, HereIs, PopIs
<1>3. /\ Under \o operands' = Without(Under \o operands, 1)
      /\ Under \o operands # <<>> /\ (Under \o operands)[Len(Under \o operands)] = v
  BY <1>1, HereIs, PopOver
<1> HIDE DEF v
<1>4. BindStep(t, Here, Here')
  BY <1>1, <1>3, HereIs, HereNext DEF BindStep, Placed
<1> QED BY <1>1, <1>2, <1>4 DEF TermIs, Step

LEMMA NameTerm ==
  ASSUME Placed, NEW n \in PolyNames, NameLocal(n)
  PROVE  TermIs
<1> DEFINE t == [Plain("name") EXCEPT !.n = n]
<1>1. /\ Does(t) /\ locals[n] # None /\ states[n] \in {"absent", "live"} /\ InTheWay(n, IsCopy(locals[n])) = {}
      /\ operands' = Append(operands, locals[n]) /\ locals' = locals /\ borrows' = Pruned
      /\ states' = [states EXCEPT ![n] = IF @ = "live" THEN "moved" ELSE @]
  BY DEF NameLocal, NameStates, InLocals, HoldsValue
<1>2. locals[n] \in SlotsHere
  BY <1>1, HereIs
<1>3. operands' \in Seq(SlotsHere) /\ Under \o operands' = Append(Under \o operands, locals[n])
  BY <1>1, <1>2, HereIs, PushOver, PushIs
<1>4. InWayOf(Here, n, IsCopy(locals[n])) = {}
  BY <1>1, PrunedHere DEF InTheWay, InWayOf
<1>5. NameStep(t, Here, Here')
  BY <1>1, <1>3, <1>4, HereIs, HereNext, PrunedHere DEF NameStep, Placed
<1> QED BY <1>1, <1>3, <1>5 DEF TermIs, Step

LEMMA BorrowTerm ==
  ASSUME Placed, NEW n \in PolyNames, NEW mutable \in BOOLEAN, BorrowLocal(n, mutable)
  PROVE  TermIs
<1> DEFINE t == [Plain("borrow") EXCEPT !.n = n, !.mutable = mutable]
           v == Ref(mutable, locals[n].of)
<1>1. /\ Does(t) /\ locals[n] \in {Own("lin"), Own("agg")} /\ states[n] \in {"absent", "live"} /\ InTheWay(n, ~mutable) = {}
      /\ operands' = Append(operands, v) /\ locals' = locals /\ states' = states
      /\ borrows' = Pruned \cup {[place |-> n, mutable |-> mutable]}
  BY DEF BorrowLocal, HoldsValue
<1>2. v \in SlotsHere
  BY <1>1 DEF Ref, Own, SlotsHere
<1> HIDE DEF v
<1>3. operands' \in Seq(SlotsHere) /\ Under \o operands' = Append(Under \o operands, v)
  BY <1>1, <1>2, HereIs, PushOver, PushIs
<1>4. InWayOf(Here, n, ~mutable) = {}
  BY <1>1, PrunedHere DEF InTheWay, InWayOf
<1>5. BorrowStep(t, Here, Here')
  BY <1>1, <1>3, <1>4, HereIs, HereNext, PrunedHere DEF BorrowStep, Placed, v
<1> QED BY <1>1, <1>3, <1>5 DEF TermIs, Step

LEMMA PolyTermIs ==
  ASSUME Placed, PolyTerm
  PROVE  TermIs
BY MakeTerm, ConsumeTerm, DupTerm, OverTerm, RotateTerm, BindTerm, NameTerm, BorrowTerm DEF PolyTerm

-----------------------------------------------------------------------------
(* The invariant, kept by a term.                                            *)

LEMMA PolyHas ==
  ASSUME PolyInvariant
  PROVE  /\ Nesting /\ OutsideKept /\ Running /\ Agrees /\ GroundKeeps /\ RunsAgain /\ AtTheEnd
         /\ Placed
<1>1. Nesting /\ OutsideKept /\ Running /\ Agrees /\ GroundKeeps /\ RunsAgain /\ AtTheEnd
  BY DEF PolyInvariant
<1>2. Under \in Seq(SlotsHere) /\ NoReferences(Under)
  <2>1. CASE Nested = 0
    <3>1. Under = <<>>
      BY <2>1 DEF Under
    <3> QED BY <3>1 DEF NoReferences
  <2>2. CASE Nested # 0
    <3>1. Nested \in 1..Nested
      BY <1>1, <2>2 DEF Nesting
    <3>2. FrameOK(Innermost)
      BY <1>1, <3>1 DEF Nesting, Innermost
    <3>3. Under = Innermost.under
      BY <2>2 DEF Under
    <3> QED BY <3>2, <3>3 DEF FrameOK
  <2> QED BY <2>1, <2>2
<1> QED BY <1>1, <1>2 DEF Placed, Agrees

\* the execution is at the term being walked: no literal around it is skipped
LEMMA NoneWaits ==
  ASSUME Running, Nesting, running
  PROVE  \A i \in 1..Nested : TurnsOf(literals[i]) > 0
<1>1. Reached(Nested) /\ Nested \in Nat
  BY DEF Running, Nesting
<1> QED BY <1>1 DEF Reached

LEMMA SameTurns ==
  ASSUME NEW f, NEW g, SameFrame(f, g)
  PROVE  TurnsOf(g) = TurnsOf(f) /\ Waiting(g) = Waiting(f) /\ EntryIn(g) = EntryIn(f) /\ (Repeats(g) <=> Repeats(f))
         /\ (LocalReference(g) <=> LocalReference(f))
BY DEF SameFrame, TurnsOf, Waiting, Before, ExitOf, EntryIn, Repeats, LocalReference

LEMMA TermKeeps ==
  ASSUME PolyInvariant, PolyTerm
  PROVE  PolyInvariant'
<1>1. /\ Nesting /\ OutsideKept /\ Running /\ Agrees /\ GroundKeeps /\ RunsAgain /\ AtTheEnd /\ Placed
  BY PolyHas
<1>2. PICK t : Step(t, Here, Here') /\ Does(t) /\ operands' \in Seq(SlotsHere)
  BY <1>1, PolyTermIs DEF TermIs
<1>3. /\ verdict = "walking" /\ verdict' = verdict /\ running' = running
      /\ exec' = IF running THEN Run(exec, t) ELSE exec
  BY <1>2 DEF Does
<1>4. /\ Nested' = Nested /\ DOMAIN literals' = 1..Nested /\ literals' = [i \in 1..Nested |-> literals'[i]]
      /\ \A i \in 1..Nested : FrameOK(literals'[i]) /\ SameFrame(literals[i], literals'[i])
      /\ running /\ Nested > 0 /\ Turns = 2 => literals'[Nested].terms = Append(literals[Nested].terms, t)
      /\ Under' = Under
  BY <1>1, <1>2, DoesIs
<1>5. StateOK(Here) /\ StateOK(Here') /\ OuterKept(Here, Here')
  BY <1>1, <1>2, StepTypes, StepOuter DEF Agrees
<1>6. Here.locals = locals /\ Here.states = states /\ Here.borrows = borrows
  BY <1>1, HereIs
<1>7. Here'.locals = locals' /\ Here'.states = states' /\ Here'.borrows = borrows'
  BY <1>1, <1>2, HereNext
<1>8. running => Sync(Here, exec) /\ Sync(Here', exec') /\ EnvKept(Here, exec, exec')
  BY <1>1, <1>2, <1>3, StepKeeps, StepEnvKept DEF Agrees
<1>9. \A i \in 1..Nested : /\ TurnsOf(literals'[i]) = TurnsOf(literals[i]) /\ Waiting(literals'[i]) = Waiting(literals[i])
                           /\ (Repeats(literals'[i]) <=> Repeats(literals[i]))
  BY <1>4, SameTurns
<1>10. Nested \in Nat
  BY <1>1 DEF Nesting
<1>11. Nesting'
  <2>1. \A i \in 1..Nested : Repeats(literals'[i]) => i = Nested
    BY <1>1, <1>9 DEF Nesting
  <2>2. Nested' \in Nat
    BY <1>4, <1>10
  <2> QED BY <1>2, <1>4, <2>1, <2>2 DEF Nesting
<1>12. OutsideKept'
  <2>1. \A i \in 1..Nested : literals'[i].locals = literals[i].locals
    BY <1>4 DEF SameFrame
  <2>2. \A i \in 1..Nested : Kept(literals'[i], locals')
    <3> SUFFICES ASSUME NEW i \in 1..Nested, NEW n \in PolyNames, literals'[i].locals[n] # None
                 PROVE  locals'[n] = literals'[i].locals[n]
      BY DEF Kept
    <3>1. locals[n] = literals[i].locals[n] /\ locals[n] # None
      BY <1>1, <2>1 DEF OutsideKept, Kept
    <3> QED BY <1>5, <1>6, <1>7, <2>1, <3>1 DEF OuterKept
  <2>3. \A i \in 1..Nested : \A j \in i..Nested : Kept(literals'[i], literals'[j].locals)
    <3> SUFFICES ASSUME NEW i \in 1..Nested, NEW j \in i..Nested PROVE Kept(literals'[i], literals'[j].locals)
      OBVIOUS
    <3>1. j \in 1..Nested
      BY <1>10
    <3>2. Kept(literals[i], literals[j].locals)
      BY <1>1 DEF OutsideKept
    <3> QED BY <2>1, <3>1, <3>2 DEF Kept
  <2> QED BY <1>4, <2>2, <2>3 DEF OutsideKept
<1>13. \A i \in 0..Nested : Reached(i)' <=> Reached(i)
  <2> SUFFICES ASSUME NEW i \in 0..Nested PROVE Reached(i)' <=> Reached(i)
    OBVIOUS
  <2>1. \A j \in 1..i : j \in 1..Nested
    BY <1>10
  <2> QED BY <1>9, <2>1 DEF Reached
<1>14. Running'
  <2>1. \A i \in 1..Nested : literals'[i].running = literals[i].running /\ i - 1 \in 0..Nested
    BY <1>4, <1>10 DEF SameFrame
  <2>2. Nested \in 0..Nested
    BY <1>10
  <2>3. running' \in BOOLEAN /\ (running' <=> Reached(Nested)')
    BY <1>1, <1>3, <1>4, <1>13, <2>2 DEF Running
  <2>4. \A i \in 1..Nested : literals'[i].running <=> Reached(i - 1)'
    BY <1>1, <1>13, <2>1 DEF Running
  <2> QED BY <1>4, <2>3, <2>4 DEF Running
<1>15. Agrees'
  <2>1. ExecOK(exec')
    <3>1. CASE running
      BY <1>8, <3>1, SyncIs
    <3>2. CASE ~running
      BY <1>1, <1>3, <3>2 DEF Agrees
    <3> QED BY <3>1, <3>2
  <2>2. \A i \in 1..Nested : literals'[i].running /\ TurnsOf(literals'[i]) = 0 => Sync(Waiting(literals'[i]), exec')
    <3> SUFFICES ASSUME NEW i \in 1..Nested, literals'[i].running, TurnsOf(literals'[i]) = 0
                 PROVE  Sync(Waiting(literals'[i]), exec')
      OBVIOUS
    <3>1. literals[i].running /\ TurnsOf(literals[i]) = 0
      BY <1>4, <1>9 DEF SameFrame
    <3>2. ~running
      BY <1>1, <3>1, NoneWaits
    <3> QED BY <1>1, <1>3, <1>9, <3>1, <3>2 DEF Agrees
  <2> QED BY <1>3, <1>4, <1>5, <1>8, <2>1, <2>2 DEF Agrees
<1>16. Nested > 0 => Innermost' = literals'[Nested] /\ Innermost = literals[Nested] /\ SameFrame(Innermost, Innermost') /\ Nested \in 1..Nested
  BY <1>4, <1>10 DEF Innermost
<1>17. GroundKeeps'
  <2> SUFFICES ASSUME Nested > 0, Innermost'.kind = "ground"
               PROVE  /\ \A n \in PolyNames : Innermost'.locals[n] # None /\ Innermost'.states[n] # "live" => states'[n] = Innermost'.states[n]
                      /\ LocalReference(Innermost') => Innermost'.borrows \subseteq borrows'
    BY <1>4 DEF GroundKeeps
  <2> DEFINE f == Innermost
             g == Innermost'
  <2>1. SameFrame(f, g) /\ f.kind = "ground"
    BY <1>16 DEF SameFrame
  <2>2. Kept(f, locals)
    BY <1>1, <1>16 DEF OutsideKept
  <2>3. /\ \A n \in PolyNames : f.locals[n] # None /\ f.states[n] # "live" => states[n] = f.states[n]
        /\ LocalReference(f) => f.borrows \subseteq borrows
    BY <1>1, <2>1 DEF GroundKeeps
  <2>4. g.locals = f.locals /\ g.states = f.states /\ g.borrows = f.borrows /\ (LocalReference(g) <=> LocalReference(f))
    BY <2>1, SameTurns DEF SameFrame
  <2> HIDE DEF f, g
  <2>5. \A n \in PolyNames : g.locals[n] # None /\ g.states[n] # "live" => states'[n] = g.states[n]
    BY <1>5, <1>6, <1>7, <2>2, <2>3, <2>4 DEF OuterKept, Kept
  <2>6. ASSUME LocalReference(g) PROVE g.borrows \subseteq borrows'
    <3>1. PICK n \in PolyNames : f.locals[n] # None /\ IsRef(f.locals[n])
      BY <2>4, <2>6 DEF LocalReference
    <3>2. locals[n] # None /\ IsRef(locals[n])
      BY <2>2, <3>1 DEF Kept
    <3>3. borrows \subseteq borrows'
      BY <1>5, <1>6, <1>7, <3>2 DEF OuterKept
    <3> QED BY <2>3, <2>4, <2>6, <3>3
  <2> QED BY <2>5, <2>6 DEF g
<1>18. RunsAgain'
  <2> SUFFICES ASSUME running, Nested > 0, Turns' = 2
               PROVE  KnownBefore(Innermost', exec') /\ Replays(Innermost'.terms, EntryIn(Innermost'), Here')
    BY <1>3, <1>4 DEF RunsAgain
  <2> DEFINE f == Innermost
             g == Innermost'
             e == exec
             d == exec'
             a == Here
             b == Here'
  <2>1. SameFrame(f, g) /\ Turns = 2
    <3>1. SameFrame(f, g)
      BY <1>16
    <3>2. Turns = TurnsOf(f) /\ Turns' = TurnsOf(g)
      BY DEF Turns, TurnsOf
    <3> QED BY <3>1, <3>2, SameTurns
  <2>2. KnownBefore(f, e) /\ Replays(f.terms, EntryIn(f), a)
    BY <1>1, <2>1 DEF RunsAgain
  <2>3. g.terms = Append(f.terms, t)
    BY <1>4, <1>16, <2>1
  <2>4. PICK S : f.terms \in Seq(S)
    BY <1>1, <1>16 DEF Nesting, FrameOK
  <2>5. Kept(f, locals)
    BY <1>1, <1>16 DEF OutsideKept
  <2>6. EnvKept(a, e, d) /\ a.locals = locals
    BY <1>6, <1>8
  <2>7. EntryIn(g) = EntryIn(f) /\ g.locals = f.locals /\ g.borrows = f.borrows
    BY <2>1, SameTurns DEF SameFrame
  <2>8. Step(t, a, b)
    BY <1>2
  <2> HIDE DEF f, g, e, d, a, b
  <2>9. KnownBefore(g, d)
    <3> SUFFICES ASSUME NEW n \in PolyNames, g.locals[n] # None, n \notin d.spent, Refers(d.env[n])
                 PROVE  RecordOf(d.env[n]) \in g.borrows
      BY DEF KnownBefore
    <3>1. a.locals[n] # None /\ f.locals[n] # None
      BY <2>5, <2>6, <2>7 DEF Kept
    <3>2. d.env[n] = e.env[n] /\ n \notin e.spent
      BY <2>6, <3>1 DEF EnvKept
    <3> QED BY <2>2, <2>7, <3>1, <3>2 DEF KnownBefore
  <2>10. Replays(g.terms, EntryIn(g), b)
    <3> SUFFICES ASSUME NEW x, Sync(EntryIn(f), x) PROVE Sync(b, RunAll(x, g.terms))
      BY <2>7 DEF Replays
    <3>1. Sync(a, RunAll(x, f.terms))
      BY <2>2 DEF Replays
    <3>2. Sync(b, Run(RunAll(x, f.terms), t))
      BY <2>8, <3>1, StepKeeps
    <3>3. RunAll(x, g.terms) = Run(RunAll(x, f.terms), t)
      BY <2>3, <2>4, RunAllAppend
    <3> QED BY <3>2, <3>3
  <2> QED BY <2>9, <2>10 DEF g, d, b
<1>19. AtTheEnd'
  BY <1>3 DEF AtTheEnd
<1> QED BY <1>11, <1>12, <1>14, <1>15, <1>17, <1>18, <1>19 DEF PolyInvariant

-----------------------------------------------------------------------------
(* Kept by the beginning of a literal.                                       *)

Opened(kind, entry, under, callee, turns) ==
  [kind |-> kind, entry |-> entry, under |-> under, callee |-> callee, turns |-> turns, arm |-> 1,
   locals |-> locals, states |-> states, borrows |-> borrows,
   exit |-> <<>>, joined |-> states, met |-> {}, terms |-> <<>>,
   running |-> running]

LEMMA OpenedIs ==
  ASSUME NEW kind, NEW entry, NEW under, NEW callee, NEW turns
  PROVE  LET f == Opened(kind, entry, under, callee, turns)
         IN /\ DOMAIN f = FrameFields
            /\ f.kind = kind /\ f.entry = entry /\ f.under = under /\ f.callee = callee /\ f.turns = turns /\ f.arm = 1
            /\ f.locals = locals /\ f.states = states /\ f.borrows = borrows /\ f.met = {} /\ f.terms = <<>>
            /\ f.running = running
BY DEF Opened, FrameFields

LEMMA KnownHere ==
  ASSUME NEW c, NEW e, Sync(c, e), NEW n \in PolyNames, c.locals[n] # None, n \notin e.spent, Refers(e.env[n])
  PROVE  RecordOf(e.env[n]) \in c.borrows
<1>1. e.env[n] # None
  BY SyncIs
<1>2. n \in Bound(e) \ e.spent
  BY <1>1 DEF Bound
<1>3. InName(n) \in DOMAIN Held(e) /\ Held(e)[InName(n)] = e.env[n]
  BY <1>2, HeldIs, SyncIs
<1> QED BY <1>3 DEF Sync, Good, Recorded

\* what a literal is begun with; one that repeats is the innermost
Begins(f, kind, entry, under, callee, turns) ==
  /\ OpenLiteral(kind, entry, under, callee, turns)
  /\ f = Opened(kind, entry, under, callee, turns)
  /\ FrameOK(f) /\ StateOK(EntryIn(f)) /\ ExecOK(exec')
  /\ ~running => exec' = exec
  /\ running /\ TurnsOf(f) > 0 => Sync(EntryIn(f), exec')
  /\ running /\ TurnsOf(f) = 0 => Sync(Before(f), exec')

LEMMA OpenKeeps ==
  ASSUME PolyInvariant, NEW f, NEW kind, NEW entry, NEW under, NEW callee, NEW turns,
         Begins(f, kind, entry, under, callee, turns)
  PROVE  PolyInvariant'
<1>1. /\ Nesting /\ OutsideKept /\ Running /\ Agrees /\ GroundKeeps /\ RunsAgain /\ AtTheEnd
  BY PolyHas
<1>2. /\ verdict = "walking" /\ verdict' = verdict /\ \A i \in DOMAIN literals : ~Repeats(literals[i])
      /\ operands' = entry /\ literals' = Append(literals, f) /\ running' = (running /\ turns[1] > 0)
      /\ locals' = locals /\ states' = states /\ borrows' = borrows
  BY DEF Begins, OpenLiteral, Opened
<1>3. /\ f.entry = entry /\ f.under = under /\ f.turns = turns /\ f.arm = 1 /\ f.terms = <<>> /\ f.running = running
      /\ f.locals = locals /\ f.states = states /\ f.borrows = borrows
  BY OpenedIs DEF Begins
<1>4. TurnsOf(f) = turns[1]
  BY <1>3 DEF TurnsOf
<1>5. FrameOK(f) /\ ExecOK(exec') /\ StateOK(EntryIn(f)) /\ running \in BOOLEAN
  BY <1>1 DEF Begins, Running
<1>20. PICK n : n = Nested
  OBVIOUS
<1>6. n \in Nat /\ DOMAIN literals = 1..n /\ literals = [i \in 1..n |-> literals[i]] /\ \A i \in 1..n : FrameOK(literals[i])
  BY <1>1, <1>20 DEF Nesting
<1>7. /\ DOMAIN literals' = 1..n + 1 /\ literals' = [i \in 1..n + 1 |-> literals'[i]]
      /\ literals'[n + 1] = f /\ \A i \in 1..n : literals'[i] = literals[i]
  <2> DEFINE L == literals
  <2>1. n = Len(L) /\ n \in Nat /\ L = [i \in 1..n |-> L[i]] /\ literals' = Append(L, f)
    BY <1>2, <1>6, <1>20 DEF Nested
  <2> HIDE DEF L
  <2>2. Append(L, f) = [i \in 1..n + 1 |-> IF i = n + 1 THEN f ELSE L[i]]
    BY <2>1 DEF Append
  <2>3. literals' = [i \in 1..n + 1 |-> IF i = n + 1 THEN f ELSE L[i]]
    BY <2>1, <2>2
  <2>4. n + 1 \in 1..n + 1 /\ \A i \in 1..n : i # n + 1 /\ i \in 1..n + 1
    BY <2>1
  <2>5. DOMAIN literals' = 1..n + 1 /\ \A i \in 1..n + 1 : literals'[i] = IF i = n + 1 THEN f ELSE L[i]
    BY <2>3
  <2>6. literals' = [i \in 1..n + 1 |-> literals'[i]]
    BY <2>3
  <2> QED BY <2>4, <2>5, <2>6 DEF L
<1>8. Nested' = n + 1
  <2>1. n + 1 \in Nat
    BY <1>6
  <2>2. Len(literals') = n + 1
    BY <1>7, <2>1
  <2> QED BY <2>2 DEF Nested
<1>9. Innermost' = f /\ Under' = f.under /\ Here' = EntryIn(f)
  <2>1. Innermost' = f
    BY <1>7, <1>8 DEF Innermost
  <2>2. Nested' # 0
    BY <1>6, <1>8
  <2>3. Under' = f.under
    BY <2>1, <2>2 DEF Under
  <2> QED BY <1>2, <1>3, <2>1, <2>3 DEF Here, EntryIn
<1>10. \A i \in 1..n + 1 : i \in 1..n \/ i = n + 1
  BY <1>6
<1>11. Nesting'
  <2>1. \A i \in 1..n + 1 : FrameOK(literals'[i]) /\ (Repeats(literals'[i]) => i = n + 1)
    BY <1>2, <1>5, <1>6, <1>7, <1>10
  <2>2. operands' \in Seq(SlotsHere)
    BY <1>2, <1>3, <1>5 DEF FrameOK
  <2>3. n + 1 \in Nat
    BY <1>6
  <2> QED BY <1>7, <1>8, <2>1, <2>2, <2>3 DEF Nesting
<1>12. OutsideKept'
  <2>1. Kept(f, locals)
    BY <1>3 DEF Kept
  <2>2. \A i \in 1..n : Kept(literals[i], locals) /\ \A j \in i..n : Kept(literals[i], literals[j].locals)
    BY <1>1, <1>20 DEF OutsideKept
  <2>3. \A i \in 1..n + 1 : Kept(literals'[i], locals')
    BY <1>2, <1>7, <1>10, <2>1, <2>2
  <2>4. ASSUME NEW i \in 1..n + 1, NEW j \in i..n + 1 PROVE Kept(literals'[i], literals'[j].locals)
    <3>1. j = n + 1 \/ (j \in i..n /\ i \in 1..n /\ j \in 1..n)
      BY <1>6
    <3>2. CASE j = n + 1
      BY <1>2, <1>3, <1>7, <2>3, <3>2
    <3>3. CASE j \in i..n /\ i \in 1..n /\ j \in 1..n
      BY <1>7, <2>2, <3>3
    <3> QED BY <3>1, <3>2, <3>3
  <2> QED BY <1>8, <2>3, <2>4 DEF OutsideKept
<1>13. \A i \in 0..n : Reached(i)' <=> Reached(i)
  <2> SUFFICES ASSUME NEW i \in 0..n PROVE Reached(i)' <=> Reached(i)
    OBVIOUS
  <2>1. \A j \in 1..i : j \in 1..n
    BY <1>6
  <2> QED BY <1>7, <2>1 DEF Reached
<1>14. Reached(n + 1)' <=> Reached(n) /\ turns[1] > 0
  <2>1. \A j \in 1..n + 1 : j \in 1..n \/ j = n + 1
    BY <1>6
  <2>2. n + 1 \in 1..n + 1 /\ \A j \in 1..n : j \in 1..n + 1
    BY <1>6
  <2>3. ASSUME Reached(n + 1)' PROVE Reached(n) /\ turns[1] > 0
    <3>1. \A j \in 1..n + 1 : TurnsOf(literals'[j]) > 0
      BY <2>3 DEF Reached
    <3> QED BY <1>4, <1>7, <2>2, <3>1 DEF Reached
  <2>4. ASSUME Reached(n), turns[1] > 0 PROVE Reached(n + 1)'
    <3>1. \A j \in 1..n : TurnsOf(literals[j]) > 0
      BY <2>4 DEF Reached
    <3>2. \A j \in 1..n + 1 : TurnsOf(literals'[j]) > 0
      BY <1>4, <1>7, <2>1, <2>4, <3>1
    <3> QED BY <3>2 DEF Reached
  <2> QED BY <2>3, <2>4
<1>15. Running'
  <2>1. running <=> Reached(n)
    BY <1>1, <1>20 DEF Running
  <2>2. \A i \in 1..n : literals[i].running <=> Reached(i - 1)
    BY <1>1, <1>20 DEF Running
  <2>3. n + 1 - 1 = n /\ n \in 0..n /\ \A i \in 1..n : i - 1 \in 0..n
    BY <1>6
  <2>4. \A i \in 1..n + 1 : literals'[i].running <=> Reached(i - 1)'
    BY <1>3, <1>7, <1>10, <1>13, <2>1, <2>2, <2>3
  <2>5. running' \in BOOLEAN /\ (running' <=> Reached(n + 1)')
    BY <1>2, <1>14, <2>1
  <2>6. Reached(Nested)' <=> Reached(n + 1)'
    BY <1>8 DEF Reached
  <2>7. \A i \in 1..Nested' : literals'[i].running <=> Reached(i - 1)'
    BY <1>8, <2>4
  <2> QED BY <2>5, <2>6, <2>7 DEF Running
<1>16. Agrees'
  <2>1. \A i \in 1..n + 1 : literals'[i].running /\ TurnsOf(literals'[i]) = 0 => Sync(Waiting(literals'[i]), exec')
    <3> SUFFICES ASSUME NEW i \in 1..n + 1, literals'[i].running, TurnsOf(literals'[i]) = 0
                 PROVE  Sync(Waiting(literals'[i]), exec')
      OBVIOUS
    <3>1. CASE i \in 1..n
      <4>1. literals'[i] = literals[i]
        BY <1>7, <3>1
      <4>2. ~running
        BY <1>1, <1>20, <3>1, <4>1, NoneWaits
      <4>3. Sync(Waiting(literals[i]), exec)
        BY <1>1, <1>20, <3>1, <4>1 DEF Agrees
      <4> QED BY <4>1, <4>2, <4>3 DEF Begins
    <3>2. CASE i = n + 1
      <4>1. literals'[i] = f /\ running /\ TurnsOf(f) = 0 /\ Waiting(f) = Before(f)
        BY <1>3, <1>7, <3>2 DEF Waiting
      <4> QED BY <4>1 DEF Begins
    <3> QED BY <1>10, <3>1, <3>2
  <2>2. running' => Sync(Here', exec')
    BY <1>2, <1>4, <1>9 DEF Begins
  <2> QED BY <1>5, <1>8, <1>9, <2>1, <2>2 DEF Agrees
<1>17. GroundKeeps'
  BY <1>2, <1>3, <1>9 DEF GroundKeeps
<1>18. RunsAgain'
  <2> SUFFICES ASSUME running', Turns' = 2 PROVE KnownBefore(f, exec') /\ Replays(f.terms, EntryIn(f), EntryIn(f))
    BY <1>9 DEF RunsAgain
  <2>1. Sync(EntryIn(f), exec')
    BY <1>2, <1>4 DEF Begins
  <2>2. EntryIn(f).locals = f.locals /\ EntryIn(f).borrows = f.borrows
    BY StateFields DEF EntryIn
  <2>3. KnownBefore(f, exec')
    BY <2>1, <2>2, KnownHere DEF KnownBefore
  <2>4. Replays(f.terms, EntryIn(f), EntryIn(f))
    BY <1>3, RunAllEmpty DEF Replays
  <2> QED BY <2>3, <2>4
<1>19. AtTheEnd'
  BY <1>2 DEF AtTheEnd
<1> QED BY <1>11, <1>12, <1>15, <1>16, <1>17, <1>18, <1>19 DEF PolyInvariant

\* no literal around repeats: the walk is over the whole stack
LEMMA WholeStack ==
  ASSUME PolyInvariant, \A i \in DOMAIN literals : ~Repeats(literals[i])
  PROVE  /\ Under = <<>> /\ Here = State(operands, locals, states, borrows)
         /\ operands \in Seq(SlotsHere) /\ StateOK(Here) /\ ExecOK(exec) /\ (running => Sync(Here, exec)) /\ running \in BOOLEAN
<1>1. Nesting /\ Agrees /\ Placed /\ Running
  BY PolyHas
<1>2. Under = <<>>
  <2>1. CASE Nested = 0
    BY <2>1 DEF Under
  <2>2. CASE Nested # 0
    <3>1. Nested \in 1..Nested /\ FrameOK(literals[Nested]) /\ Nested \in DOMAIN literals
      BY <1>1, <2>2 DEF Nesting
    <3>2. literals[Nested].under = <<>>
      BY <3>1 DEF FrameOK, Repeats
    <3> QED BY <2>2, <3>2 DEF Under, Innermost
  <2> QED BY <2>1, <2>2
<1>3. operands \in Seq(SlotsHere)
  BY <1>1 DEF Nesting
<1>4. <<>> \o operands = operands
  BY <1>3, ConcatEmptySeq
<1> QED BY <1>1, <1>2, <1>3, <1>4 DEF Here, Agrees, Running

LEMMA OpenOver ==
  ASSUME PolyInvariant, NEW kind \in {"call", "arms", "times"}, NEW turns \in TurnsFor(kind),
         OpenLiteral(kind, operands, <<>>, NoCallee, turns), exec' = exec
  PROVE  PolyInvariant'
<1> DEFINE f == Opened(kind, operands, <<>>, NoCallee, turns)
<1>1. \A i \in DOMAIN literals : ~Repeats(literals[i])
  BY DEF OpenLiteral
<1>2. /\ Under = <<>> /\ Here = State(operands, locals, states, borrows)
      /\ operands \in Seq(SlotsHere) /\ StateOK(Here) /\ ExecOK(exec) /\ (running => Sync(Here, exec)) /\ running \in BOOLEAN
  BY <1>1, WholeStack
<1>3. /\ DOMAIN f = FrameFields
      /\ f.kind = kind /\ f.entry = operands /\ f.under = <<>> /\ f.callee = NoCallee /\ f.turns = turns /\ f.arm = 1
      /\ f.locals = locals /\ f.states = states /\ f.borrows = borrows /\ f.met = {} /\ f.terms = <<>>
      /\ f.running = running
  BY OpenedIs
<1>4. f = Opened(kind, operands, <<>>, NoCallee, turns)
  OBVIOUS
<1> HIDE DEF f
<1>5. Before(f) = Here /\ EntryIn(f) = Here
  <2>1. <<>> \o operands = operands
    BY <1>2, ConcatEmptySeq
  <2> QED BY <1>2, <1>3, <2>1 DEF Before, EntryIn
<1>6. FrameOK(f)
  <2>1. f.under \in Seq(SlotsHere) /\ NoReferences(f.under) /\ f.terms \in Seq({})
    BY <1>3 DEF NoReferences
  <2> QED BY <1>2, <1>3, <1>5, <2>1 DEF FrameOK
<1>7. Begins(f, kind, operands, <<>>, NoCallee, turns)
  BY <1>2, <1>4, <1>5, <1>6 DEF Begins
<1> QED BY <1>7, OpenKeeps

LEMMA OpenPlainKeeps ==
  ASSUME PolyInvariant, OpenCall \/ OpenIf \/ OpenTimes
  PROVE  PolyInvariant'
<1>1. CASE OpenCall
  BY <1>1, OpenOver DEF OpenCall, TurnsFor
<1>2. CASE OpenIf
  <2>1. PICK turns \in {<<1, 0>>, <<0, 1>>} : OpenLiteral("arms", operands, <<>>, NoCallee, turns) /\ exec' = exec
    BY <1>2 DEF OpenIf
  <2>2. turns \in TurnsFor("arms")
    BY DEF TurnsFor
  <2> QED BY <2>1, <2>2, OpenOver
<1>3. CASE OpenTimes
  <2>1. PICK turns \in {<<0>>, <<1>>, <<2>>} : OpenLiteral("times", operands, <<>>, NoCallee, turns) /\ exec' = exec
    BY <1>3 DEF OpenTimes
  <2>2. turns \in TurnsFor("times")
    BY DEF TurnsFor
  <2> QED BY <2>1, <2>2, OpenOver
<1> QED BY <1>1, <1>2, <1>3

LEMMA OpenEliminatorKeeps ==
  ASSUME Shapes = {}, PolyInvariant, OpenEliminator
  PROVE  PolyInvariant'
<1> DEFINE entry == Append(Without(operands, 1), Own("variant"))
<1>1. PICK turns \in {<<1, 0>>, <<0, 1>>} :
        /\ operands # <<>> /\ operands[Len(operands)] = Own("lin")
        /\ OpenLiteral("arms", entry, <<>>, NoCallee, turns)
        /\ exec' = IF running THEN Narrowed(exec) ELSE exec
  BY DEF OpenEliminator, TopOperand, Variants, Includes, Narrowed
<1> DEFINE f == Opened("arms", entry, <<>>, NoCallee, turns)
<1>2. \A i \in DOMAIN literals : ~Repeats(literals[i])
  BY <1>1 DEF OpenLiteral
<1>3. /\ Here = State(operands, locals, states, borrows)
      /\ operands \in Seq(SlotsHere) /\ StateOK(Here) /\ ExecOK(exec) /\ (running => Sync(Here, exec)) /\ running \in BOOLEAN
  BY <1>2, WholeStack
<1>4. Here.stack = operands /\ Here.locals = locals /\ Here.states = states /\ Here.borrows = borrows
  BY <1>3 DEF State
<1>5. /\ DOMAIN f = FrameFields
      /\ f.kind = "arms" /\ f.entry = entry /\ f.under = <<>> /\ f.callee = NoCallee /\ f.turns = turns /\ f.arm = 1
      /\ f.locals = locals /\ f.states = states /\ f.borrows = borrows /\ f.met = {} /\ f.terms = <<>>
      /\ f.running = running
  <2> HIDE DEF entry
  <2> QED BY OpenedIs
<1>6. f = Opened("arms", entry, <<>>, NoCallee, turns)
  OBVIOUS
<1>7. entry \in Seq(SlotsHere)
  <2>1. Without(operands, 1) \in Seq(SlotsHere)
    BY <1>1, <1>3, PopIs
  <2> QED BY <2>1, PushIs, OwnIs
<1> DEFINE d == State(entry, locals, states, borrows)
<1>8. d.stack = entry /\ d.locals = locals /\ d.states = states /\ d.borrows = borrows
  BY DEF State
<1> HIDE DEF f
<1>9. Before(f) = d /\ EntryIn(f) = d
  <2>1. <<>> \o entry = entry
    BY <1>7, ConcatEmptySeq
  <2> QED BY <1>5, <2>1 DEF Before, EntryIn
<1>12. d.stack = Append(Without(Here.stack, 1), Own("variant")) /\ Here.stack # <<>> /\ Here.stack[Len(Here.stack)] = Own("lin")
  BY <1>1, <1>4, <1>8
<1> HIDE DEF d
<1>10. StateOK(d)
  BY <1>3, <1>4, <1>8, <1>12, NarrowTypes
<1>11. running => Sync(d, exec') /\ ExecOK(exec')
  <2> SUFFICES ASSUME running PROVE Sync(d, exec') /\ ExecOK(exec')
    OBVIOUS
  <2>1. Sync(Here, exec) /\ exec' = Narrowed(exec)
    BY <1>1, <1>3
  <2>2. Sync(d, Narrowed(exec))
    BY <1>4, <1>8, <1>12, <2>1, NarrowSync
  <2> QED BY <2>1, <2>2, SyncIs
<1>13. ExecOK(exec') /\ (~running => exec' = exec)
  BY <1>1, <1>3, <1>11
<1> HIDE DEF entry
<1>14. FrameOK(f)
  <2>1. f.under \in Seq(SlotsHere) /\ NoReferences(f.under) /\ f.terms \in Seq({})
    BY <1>5 DEF NoReferences
  <2>2. f.turns \in TurnsFor("arms")
    BY <1>5 DEF TurnsFor
  <2> QED BY <1>3, <1>5, <1>7, <1>9, <1>10, <2>1, <2>2 DEF FrameOK
<1>15. Begins(f, "arms", entry, <<>>, NoCallee, turns)
  BY <1>1, <1>6, <1>9, <1>10, <1>11, <1>13, <1>14 DEF Begins
<1> QED BY <1>15, OpenKeeps

LEMMA CalleesAre ==
  ASSUME NEW callee \in Callees
  PROVE  callee.ins \in Seq(OwnSlots) /\ callee.ins \in Seq(SlotsHere)
<1>1. callee.ins \in Seq(OwnSlots)
  BY PolyAssumption DEF OwnSlots
<1>2. OwnSlots \subseteq SlotsHere
  BY DEF OwnSlots, SlotsHere
<1>3. callee.ins \in Seq(SlotsHere)
  <2> DEFINE s == callee.ins
  <2>1. s \in Seq(OwnSlots)
    BY <1>1
  <2> HIDE DEF s
  <2>2. s \in Seq(SlotsHere)
    BY <1>2, <2>1, SeqMonotonic
  <2> QED BY <2>2 DEF s
<1> QED BY <1>1, <1>3

LEMMA OpenGroundKeeps ==
  ASSUME Shapes = {}, PolyInvariant, OpenGround
  PROVE  PolyInvariant'
<1>1. NoReferences(operands)
  BY DEF OpenGround, Includes, NoReferences
<1>2. PICK callee \in Callees, turns \in {<<0>>, <<1>>, <<2>>} :
        /\ OpenLiteral("ground", callee.ins, operands, callee, turns)
        /\ exec' = IF running /\ turns[1] > 0 THEN RunAll(exec, Makes(callee.ins)) ELSE exec
  BY DEF OpenGround, Makes
<1> DEFINE ins == callee.ins
           f == Opened("ground", ins, operands, callee, turns)
           d == State(operands \o ins, locals, states, borrows)
<1>3. \A i \in DOMAIN literals : ~Repeats(literals[i])
  BY <1>2 DEF OpenLiteral
<1>4. /\ Here = State(operands, locals, states, borrows)
      /\ operands \in Seq(SlotsHere) /\ StateOK(Here) /\ ExecOK(exec) /\ (running => Sync(Here, exec)) /\ running \in BOOLEAN
  BY <1>3, WholeStack
<1>5. Here.stack = operands /\ Here.locals = locals /\ Here.states = states /\ Here.borrows = borrows
  BY <1>4 DEF State
<1>6. /\ DOMAIN f = FrameFields
      /\ f.kind = "ground" /\ f.entry = ins /\ f.under = operands /\ f.callee = callee /\ f.turns = turns /\ f.arm = 1
      /\ f.locals = locals /\ f.states = states /\ f.borrows = borrows /\ f.met = {} /\ f.terms = <<>>
      /\ f.running = running
  BY OpenedIs
<1>7. f = Opened("ground", ins, operands, callee, turns)
  OBVIOUS
<1>8. ins \in Seq(OwnSlots) /\ ins \in Seq(SlotsHere)
  BY CalleesAre
<1>9. /\ OpenLiteral("ground", ins, operands, callee, turns) /\ ins = callee.ins
      /\ exec' = IF running /\ turns[1] > 0 THEN RunAll(exec, Makes(ins)) ELSE exec
  BY <1>2
<1> HIDE DEF f, ins
<1>10. d.stack = operands \o ins /\ d.locals = locals /\ d.states = states /\ d.borrows = borrows
  BY DEF State
<1>11. StateOK(d)
  <2>1. operands \o ins \in Seq(SlotsHere)
    BY <1>4, <1>8, OverPrefix
  <2> HIDE DEF d
  <2> QED BY <1>4, <1>5, <1>10, <2>1, StateBecomes
<1>12. Before(f) = Here /\ EntryIn(f) = d /\ TurnsOf(f) = turns[1]
  BY <1>4, <1>6 DEF Before, EntryIn, TurnsOf
<1>13. running /\ turns[1] > 0 => Sync(d, exec')
  <2> SUFFICES ASSUME running, turns[1] > 0 PROVE Sync(d, exec')
    OBVIOUS
  <2>1. Sync(Here, exec) /\ exec' = RunAll(exec, Makes(ins))
    BY <1>4, <1>9
  <2>2. Sync(State(Here.stack \o ins, Here.locals, Here.states, Here.borrows), RunAll(exec, Makes(ins)))
    BY <1>8, <2>1, MakesKeep
  <2> QED BY <1>5, <2>1, <2>2
<1> HIDE DEF d
<1>14. ExecOK(exec') /\ (~running => exec' = exec) /\ (running /\ turns[1] = 0 => exec' = exec)
  BY <1>4, <1>9, <1>13, SyncIs
<1>15. FrameOK(f)
  <2>1. f.terms \in Seq({})
    BY <1>6
  <2>2. f.turns \in TurnsFor("ground")
    BY <1>6 DEF TurnsFor
  <2> QED BY <1>1, <1>4, <1>6, <1>8, <1>9, <1>12, <2>1, <2>2 DEF FrameOK
<1>16. Begins(f, "ground", ins, operands, callee, turns)
  BY <1>4, <1>7, <1>9, <1>11, <1>12, <1>13, <1>14, <1>15 DEF Begins
<1> QED BY <1>16, OpenKeeps

-----------------------------------------------------------------------------
(* Kept by the end of a literal.                                             *)

\* what is left where a literal ends, and the execution there
Left == State(Under \o operands, Innermost.locals, StatesOutside, borrows)

LEMMA ForgottenIs ==
  ASSUME NEW e, ExecOK(e)
  PROVE  Forgotten(e) = Forget(e, BoundInside)
<1> DEFINE y == Outside(e.env, BoundInside)
           z == e.spent \ BoundInside
           f == [e EXCEPT !.env = y]
<1>1. [n \in PolyNames |-> IF n \in BoundInside THEN None ELSE e.env[n]] = y
  BY DEF Outside
<1>2. f.spent = e.spent
  BY DEF ExecOK
<1>3. Forgotten(e) = [f EXCEPT !.spent = f.spent \ BoundInside]
  BY <1>1 DEF Forgotten
<1>4. Forgotten(e) = [f EXCEPT !.spent = z]
  BY <1>2, <1>3
<1> HIDE DEF y, z
<1>5. [f EXCEPT !.spent = z] = Exec(e.vals, y, z, e.alive)
  BY ExecEnv
<1> QED BY <1>4, <1>5 DEF Forget, y, z

LEMMA EndsIs ==
  ASSUME PolyInvariant, NEW kinds, Ends(kinds)
  PROVE  /\ verdict = "walking" /\ Nested \in 1..Nested /\ FrameOK(Innermost) /\ Innermost.kind \in kinds
         /\ LocalsOutside = Innermost.locals /\ StateOK(Left) /\ ExecOK(exec)
         /\ \A n \in PolyNames : Innermost.locals[n] # None => n \notin BoundInside /\ locals[n] = Innermost.locals[n]
         /\ \A n \in PolyNames : Innermost.locals[n] = None => StatesOutside[n] = "absent"
         /\ \A n \in PolyNames : Innermost.locals[n] # None => StatesOutside[n] = states[n]
<1> DEFINE f == Innermost
<1>1. /\ Nesting /\ OutsideKept /\ Agrees /\ Placed
  BY PolyHas
<1>2. verdict = "walking" /\ Nested > 0 /\ f.kind \in kinds
  BY DEF Ends
<1>3. Nested \in 1..Nested /\ FrameOK(f)
  BY <1>1, <1>2 DEF Nesting, Innermost
<1>4. Kept(f, locals)
  BY <1>1, <1>3 DEF OutsideKept, Innermost
<1>5. /\ Here.stack = Under \o operands /\ Here.locals = locals /\ Here.states = states /\ Here.borrows = borrows
      /\ locals \in [PolyNames -> SlotsHere \cup {None}] /\ states \in [PolyNames -> MoveStatesHere] /\ StateOK(Here)
  BY <1>1, HereIs DEF Agrees
<1>6. f.locals \in [PolyNames -> SlotsHere \cup {None}]
  <2>1. StateOK(Before(f)) /\ Before(f).locals = f.locals
    BY <1>3 DEF FrameOK, Before, State
  <2> QED BY <2>1, StateIs
<1>7. \A n \in PolyNames : n \in BoundInside <=> locals[n] # None /\ f.locals[n] = None
  BY DEF BoundInside, InLocals
<1>8. \A n \in PolyNames : f.locals[n] # None => n \notin BoundInside /\ locals[n] = f.locals[n]
  BY <1>4, <1>7 DEF Kept
<1>9. LocalsOutside = [n \in PolyNames |-> IF n \in BoundInside THEN None ELSE locals[n]]
  BY DEF LocalsOutside
<1>10. StatesOutside = [n \in PolyNames |-> IF n \in BoundInside THEN "absent" ELSE states[n]]
  BY DEF StatesOutside
<1> HIDE DEF f
<1>11. LocalsOutside = f.locals
  <2>1. \A n \in PolyNames : (IF n \in BoundInside THEN None ELSE locals[n]) = f.locals[n]
    BY <1>7, <1>8
  <2>2. f.locals = [n \in PolyNames |-> f.locals[n]]
    BY <1>6
  <2> QED BY <1>9, <2>1, <2>2
<1>12. \A n \in PolyNames : f.locals[n] = None => StatesOutside[n] = "absent"
  <2> SUFFICES ASSUME NEW n \in PolyNames, f.locals[n] = None PROVE StatesOutside[n] = "absent"
    OBVIOUS
  <2>1. CASE n \in BoundInside
    BY <1>10, <2>1
  <2>2. CASE n \notin BoundInside
    <3>1. locals[n] = None
      BY <1>7, <2>2
    <3>2. states[n] = "absent"
      BY <1>5, <3>1, StateIs
    <3> QED BY <1>10, <2>2, <3>2
  <2> QED BY <2>1, <2>2
<1>13. \A n \in PolyNames : f.locals[n] # None => StatesOutside[n] = states[n]
  BY <1>8, <1>10
<1>14. StateOK(Left)
  <2>1. StateOK(State(Here.stack, Outside(Here.locals, BoundInside), StatesOut(Here.states, BoundInside), Here.borrows))
    BY <1>5, ForgetTypes
  <2>2. Outside(Here.locals, BoundInside) = f.locals /\ StatesOut(Here.states, BoundInside) = StatesOutside
    BY <1>5, <1>9, <1>10, <1>11 DEF Outside, StatesOut
  <2> QED BY <1>5, <2>1, <2>2 DEF Left, f
<1> QED BY <1>1, <1>2, <1>3, <1>8, <1>11, <1>12, <1>13, <1>14 DEF f, Agrees

\* over any stack: what was bound inside is forgotten, the rest is as it was
LEMMA ForgottenKeeps ==
  ASSUME PolyInvariant, NEW kinds, Ends(kinds), NEW stack, NEW e, Sync(State(stack, locals, states, borrows), e)
  PROVE  /\ Sync(State(stack, Innermost.locals, StatesOutside, borrows), Forgotten(e)) /\ ExecOK(Forgotten(e))
         /\ \A n \in PolyNames : Innermost.locals[n] # None =>
              Forgotten(e).env[n] = e.env[n] /\ (n \notin Forgotten(e).spent => n \notin e.spent)
<1> DEFINE c == State(stack, locals, states, borrows)
<1>1. c.stack = stack /\ c.locals = locals /\ c.states = states /\ c.borrows = borrows
  BY DEF State
<1>2. LocalsOutside = Innermost.locals /\ \A n \in PolyNames : Innermost.locals[n] # None => n \notin BoundInside
  BY EndsIs
<1>3. ExecOK(e)
  BY SyncIs
<1>4. Forgotten(e) = Forget(e, BoundInside)
  BY <1>3, ForgottenIs
<1>5. \A n \in PolyNames : n \in BoundInside => c.states[n] \in {"absent", "moved"}
  <2> SUFFICES ASSUME NEW n \in BoundInside, n \in PolyNames PROVE states[n] \in {"absent", "moved"}
    BY <1>1
  <2>1. states[n] \notin {"live", "maybe"}
    BY DEF Ends, UnconsumedIn
  <2>2. states \in [PolyNames -> MoveStatesHere]
    BY PolyHas, HereIs
  <2> QED BY <2>1, <2>2 DEF MoveStatesHere
<1>6. Sync(c, e)
  OBVIOUS
<1> HIDE DEF c
<1>7. Sync(State(c.stack, Outside(c.locals, BoundInside), StatesOut(c.states, BoundInside), c.borrows), Forget(e, BoundInside))
  BY <1>5, <1>6, ForgetKeeps
<1>8. Outside(locals, BoundInside) = Innermost.locals /\ StatesOut(states, BoundInside) = StatesOutside
  BY <1>2 DEF Outside, StatesOut, LocalsOutside, StatesOutside
<1>9. Sync(State(stack, Innermost.locals, StatesOutside, borrows), Forgotten(e))
  BY <1>1, <1>4, <1>7, <1>8
<1>10. Forgotten(e).env = Outside(e.env, BoundInside) /\ Forgotten(e).spent = e.spent \ BoundInside
  BY <1>4 DEF Forget, Exec
<1>11. ExecOK(Forgotten(e))
  BY <1>9, SyncIs
<1> QED BY <1>2, <1>9, <1>10, <1>11 DEF Outside

\* the literal around goes on
LEMMA ResumeKeeps ==
  ASSUME PolyInvariant, NEW kinds, Ends(kinds), Resume, verdict' = verdict, locals' = Innermost.locals,
         operands' \in Seq(SlotsHere), StateOK(State(operands', locals', states', borrows')), ExecOK(exec'),
         ~running => exec' = exec,
         Innermost.running => Sync(State(operands', locals', states', borrows'), exec')
  PROVE  PolyInvariant'
<1>1. /\ Nesting /\ OutsideKept /\ Running /\ Agrees /\ GroundKeeps /\ RunsAgain /\ AtTheEnd
  BY PolyHas
<1>20. PICK n : n = Nested
  OBVIOUS
<1>2. n \in Nat /\ n > 0 /\ n \in 1..n /\ DOMAIN literals = 1..n /\ verdict = "walking"
  BY <1>1, <1>20, EndsIs DEF Nesting, Ends
<1>3. n - 1 \in Nat /\ DOMAIN literals' = 1..n - 1 /\ literals' = [i \in 1..n - 1 |-> literals'[i]] /\ \A i \in 1..n - 1 : literals'[i] = literals[i]
  <2> DEFINE L == literals
  <2>1. n = Len(L) /\ literals' = SubSeq(L, 1, n - 1)
    BY <1>20 DEF Nested, Resume, Without
  <2> HIDE DEF L
  <2>2. SubSeq(L, 1, n - 1) = [i \in 1..n - 1 |-> L[i]]
    BY <1>2 DEF SubSeq
  <2> QED BY <1>2, <2>1, <2>2 DEF L
<1>4. Nested' = n - 1 /\ running' = Innermost.running /\ Innermost = literals[n]
  <2>1. Len(literals') = n - 1
    BY <1>3
  <2> QED BY <1>20, <2>1 DEF Nested, Resume, Innermost
<1>5. \A i \in 1..n - 1 : i \in 1..n /\ FrameOK(literals[i]) /\ ~Repeats(literals[i])
  <2>1. \A i \in 1..n - 1 : i \in 1..n /\ i # n
    BY <1>2
  <2> QED BY <1>1, <1>20, <2>1 DEF Nesting
<1>6. n - 1 > 0 => n - 1 \in 1..n - 1
  BY <1>2
<1>7. Nested' # 0 => Innermost' = literals[n - 1] /\ n - 1 \in 1..n - 1
  BY <1>2, <1>3, <1>4, <1>6 DEF Innermost
<1>8. Under' = <<>>
  <2>1. CASE Nested' = 0
    BY <2>1 DEF Under
  <2>2. CASE Nested' # 0
    <3>1. Innermost'.under = <<>>
      BY <1>5, <1>7, <2>2 DEF FrameOK, Repeats
    <3> QED BY <2>2, <3>1 DEF Under
  <2> QED BY <2>1, <2>2
<1>9. Here' = State(operands', locals', states', borrows')
  <2>1. <<>> \o operands' = operands'
    BY ConcatEmptySeq
  <2> QED BY <1>8, <2>1 DEF Here
<1>10. Nesting'
  <2>1. \A i \in 1..n - 1 : FrameOK(literals'[i]) /\ (Repeats(literals'[i]) => i = n - 1)
    BY <1>3, <1>5
  <2> QED BY <1>3, <1>4, <2>1 DEF Nesting
<1>11. OutsideKept'
  <2>1. \A i \in 1..n : \A j \in i..n : Kept(literals[i], literals[j].locals)
    BY <1>1, <1>20 DEF OutsideKept
  <2>2. \A i \in 1..n - 1 : Kept(literals'[i], locals')
    <3> SUFFICES ASSUME NEW i \in 1..n - 1 PROVE Kept(literals'[i], locals')
      OBVIOUS
    <3>1. i \in 1..n /\ n \in i..n
      BY <1>2
    <3> QED BY <1>3, <1>4, <2>1, <3>1
  <2>3. ASSUME NEW i \in 1..n - 1, NEW j \in i..n - 1 PROVE Kept(literals'[i], literals'[j].locals)
    <3>1. i \in 1..n /\ j \in i..n /\ j \in 1..n - 1
      BY <1>2
    <3> QED BY <1>3, <2>1, <3>1
  <2> QED BY <1>4, <2>2, <2>3 DEF OutsideKept
<1>12. \A i \in 0..n - 1 : Reached(i)' <=> Reached(i)
  <2> SUFFICES ASSUME NEW i \in 0..n - 1 PROVE Reached(i)' <=> Reached(i)
    OBVIOUS
  <2>1. \A j \in 1..i : j \in 1..n - 1
    BY <1>2
  <2> QED BY <1>3, <2>1 DEF Reached
<1>13. Running'
  <2>1. \A i \in 1..n : literals[i].running <=> Reached(i - 1)
    BY <1>1, <1>20 DEF Running
  <2>2. n - 1 \in 0..n - 1 /\ \A i \in 1..n - 1 : i \in 1..n /\ i - 1 \in 0..n - 1
    BY <1>2
  <2>3. running' <=> Reached(n - 1)'
    BY <1>2, <1>4, <1>12, <2>1, <2>2
  <2>4. Reached(Nested)' <=> Reached(n - 1)'
    BY <1>4 DEF Reached
  <2>5. \A i \in 1..Nested' : literals'[i].running <=> Reached(i - 1)'
    BY <1>3, <1>4, <1>12, <2>1, <2>2
  <2>6. running' \in BOOLEAN
    BY <1>4, EndsIs DEF FrameOK
  <2> QED BY <2>3, <2>4, <2>5, <2>6 DEF Running
<1>14. Agrees'
  <2>1. \A i \in 1..n - 1 : literals'[i].running /\ TurnsOf(literals'[i]) = 0 => Sync(Waiting(literals'[i]), exec')
    <3> SUFFICES ASSUME NEW i \in 1..n - 1, literals'[i].running, TurnsOf(literals'[i]) = 0
                 PROVE  Sync(Waiting(literals'[i]), exec')
      OBVIOUS
    <3>1. literals'[i] = literals[i] /\ i \in 1..n
      BY <1>3, <1>5
    <3>2. ~running
      BY <1>1, <1>20, <3>1, NoneWaits
    <3>3. Sync(Waiting(literals[i]), exec)
      BY <1>1, <1>20, <3>1 DEF Agrees
    <3> QED BY <3>1, <3>2, <3>3
  <2>2. running' => Sync(Here', exec')
    BY <1>4, <1>9
  <2> QED BY <1>4, <1>9, <2>1, <2>2 DEF Agrees
<1>15. GroundKeeps'
  <2>1. Nested' # 0 => Innermost'.kind # "ground"
    BY <1>5, <1>7 DEF Repeats
  <2>2. Nested' > 0 => Nested' # 0
    OBVIOUS
  <2> QED BY <2>1, <2>2 DEF GroundKeeps
<1>16. RunsAgain'
  <2>1. Nested' # 0 => Turns' # 2
    <3> SUFFICES ASSUME Nested' # 0 PROVE Turns' # 2
      OBVIOUS
    <3> DEFINE g == literals[n - 1]
    <3>1. FrameOK(g) /\ ~Repeats(g) /\ Turns' = g.turns[g.arm]
      BY <1>5, <1>7 DEF Turns
    <3> HIDE DEF g
    <3>2. g.kind \in {"call", "arms"} /\ g.arm \in {1, 2} /\ (g.arm = 2 => g.kind = "arms") /\ g.turns \in TurnsFor(g.kind)
      BY <3>1 DEF FrameOK, Repeats
    <3>3. g.turns[g.arm] \in {0, 1}
      BY <3>2 DEF TurnsFor
    <3> QED BY <3>1, <3>3
  <2>2. Nested' > 0 => Nested' # 0
    OBVIOUS
  <2> QED BY <2>1, <2>2 DEF RunsAgain
<1>17. AtTheEnd'
  BY <1>2 DEF AtTheEnd
<1> QED BY <1>10, <1>11, <1>13, <1>14, <1>15, <1>16, <1>17 DEF PolyInvariant

\* an arm that is skipped: the execution waits
LEMMA SkippedIs ==
  ASSUME PolyInvariant, NEW kinds, Ends(kinds), Innermost.running
  PROVE  /\ running <=> TurnsOf(Innermost) > 0
         /\ ~running => Sync(Waiting(Innermost), exec)
<1>1. Running /\ Agrees /\ Nested \in 1..Nested /\ Nested \in Nat
  BY PolyHas, EndsIs DEF Nesting
<1>2. Reached(Nested - 1) /\ (running <=> Reached(Nested))
  BY <1>1 DEF Running, Innermost
<1>3. Reached(Nested) <=> Reached(Nested - 1) /\ TurnsOf(Innermost) > 0
  <2>1. \A j \in 1..Nested : j \in 1..Nested - 1 \/ j = Nested
    BY <1>1
  <2>2. \A j \in 1..Nested - 1 : j \in 1..Nested
    BY <1>1
  <2> QED BY <1>1, <2>1, <2>2 DEF Reached, Innermost
<1>4. TurnsOf(Innermost) \in Nat
  <2> DEFINE f == Innermost
  <2>1. FrameOK(f)
    BY EndsIs
  <2> HIDE DEF f
  <2>2. f.kind \in {"call", "arms", "times", "ground"} /\ f.arm \in {1, 2} /\ (f.arm = 2 => f.kind = "arms") /\ f.turns \in TurnsFor(f.kind)
    BY <2>1 DEF FrameOK
  <2>3. f.turns[f.arm] \in Nat
    BY <2>2 DEF TurnsFor
  <2> QED BY <2>3 DEF f, TurnsOf
<1>5. ~running => TurnsOf(Innermost) = 0
  BY <1>2, <1>3, <1>4
<1> QED BY <1>1, <1>2, <1>3, <1>5 DEF Agrees, Innermost

\* the literals that are not a callee's see the whole stack
LEMMA LeftWhole ==
  ASSUME PolyInvariant, NEW kinds, Ends(kinds), "ground" \notin kinds
  PROVE  /\ Left = State(operands, Innermost.locals, StatesOutside, borrows)
         /\ Here = State(operands, locals, states, borrows) /\ operands \in Seq(SlotsHere)
         /\ Before(Innermost) = State(Innermost.entry, Innermost.locals, Innermost.states, Innermost.borrows)
         /\ EntryIn(Innermost) = Before(Innermost) /\ Innermost.entry \in Seq(SlotsHere)
<1>1. FrameOK(Innermost) /\ Innermost.kind # "ground" /\ Nested \in 1..Nested /\ operands \in Seq(SlotsHere) /\ Nested > 0
  BY EndsIs, PolyHas DEF Nesting, Ends
<1>2. Innermost.under = <<>> /\ Innermost.entry \in Seq(SlotsHere)
  BY <1>1 DEF FrameOK
<1>3. Under = <<>>
  BY <1>1, <1>2 DEF Under
<1>4. <<>> \o operands = operands /\ <<>> \o Innermost.entry = Innermost.entry
  BY <1>1, <1>2, ConcatEmptySeq
<1> QED BY <1>1, <1>2, <1>3, <1>4 DEF Left, Here, Before, EntryIn

LEMMA EndCallKeeps ==
  ASSUME PolyInvariant, EndCall
  PROVE  PolyInvariant'
<1>1. /\ Ends({"call"}) /\ locals' = LocalsOutside /\ states' = StatesOutside /\ exec' = Ended(exec) /\ Resume
      /\ verdict' = verdict /\ operands' = operands /\ borrows' = borrows
  BY DEF EndCall
<1>2. LocalsOutside = Innermost.locals /\ StateOK(Left) /\ ExecOK(exec) /\ FrameOK(Innermost) /\ Innermost.kind = "call"
  BY <1>1, EndsIs
<1>3. /\ Left = State(operands, Innermost.locals, StatesOutside, borrows) /\ Here = State(operands, locals, states, borrows)
      /\ operands \in Seq(SlotsHere)
  BY <1>1, LeftWhole
<1>4. running => Sync(Left, Forgotten(exec)) /\ ExecOK(Forgotten(exec))
  BY <1>1, <1>3, ForgottenKeeps, PolyHas DEF Agrees
<1>5. Innermost.running => running
  <2>1. TurnsOf(Innermost) > 0
    BY <1>2 DEF FrameOK, TurnsFor, TurnsOf
  <2> QED BY <1>1, <2>1, SkippedIs
<1>6. exec' = IF running THEN Forgotten(exec) ELSE exec
  BY <1>1 DEF Ended
<1>7. ExecOK(exec')
  BY <1>2, <1>4, <1>6
<1>8. State(operands', locals', states', borrows') = Left
  BY <1>1, <1>2, <1>3
<1>9. operands' \in Seq(SlotsHere)
  BY <1>1, <1>3
<1> QED BY <1>1, <1>2, <1>4, <1>5, <1>6, <1>7, <1>8, <1>9, ResumeKeeps

LEMMA JoinedIs ==
  ASSUME NEW a, NEW b, StateOK(a), StateOK(b), a.stack = b.stack, a.locals = b.locals,
         NEW c, c.stack = a.stack, c.locals = a.locals, c.states = JoinStates(a.states, b.states),
         c.borrows \subseteq [place : PolyNames, mutable : BOOLEAN], \A x, y \in c.borrows : x.place = y.place => x = y
  PROVE  StateOK(c) /\ \A n \in PolyNames : c.states[n] \in {a.states[n], "maybe"} /\ c.states[n] \in {b.states[n], "maybe"}
<1>1. \A n \in PolyNames : c.states[n] = IF a.states[n] = b.states[n] THEN a.states[n] ELSE "maybe"
  BY DEF JoinStates
<1>2. c.states \in [PolyNames -> MoveStatesHere]
  <2>1. \A n \in PolyNames : (IF a.states[n] = b.states[n] THEN a.states[n] ELSE "maybe") \in MoveStatesHere
    BY StateIs DEF MoveStatesHere
  <2> QED BY <2>1 DEF JoinStates
<1>3. \A n \in PolyNames : c.states[n] = "absent" <=> c.locals[n] = None \/ IsCopy(c.locals[n])
  BY <1>1, StateIs
<1> QED BY <1>1, <1>2, <1>3, StateIs DEF StateOK

LEMMA SecondArmKeeps ==
  ASSUME PolyInvariant, SecondArm
  PROVE  PolyInvariant'
<1> DEFINE f == Innermost
           g == [f EXCEPT !.arm = 2, !.exit = operands, !.joined = StatesOutside, !.met = borrows]
<1>1. /\ Ends({"arms"}) /\ f.arm = 1
      /\ literals' = [literals EXCEPT ![Nested] = g]
      /\ operands' = f.entry /\ locals' = f.locals /\ states' = f.states /\ borrows' = f.borrows
      /\ running' = (f.running /\ f.turns[2] > 0) /\ exec' = Ended(exec) /\ verdict' = verdict
  <2>1. literals' = [literals EXCEPT ![Nested] = g]
    BY DEF SecondArm, Innermost
  <2> HIDE DEF g
  <2> QED BY <2>1 DEF SecondArm
<1>2. /\ Nesting /\ OutsideKept /\ Running /\ Agrees
  BY PolyHas
<1>3. /\ verdict = "walking" /\ FrameOK(f) /\ f.kind = "arms" /\ StateOK(Left) /\ ExecOK(exec)
  BY <1>1, EndsIs
<1>4. /\ Left = State(operands, f.locals, StatesOutside, borrows) /\ Here = State(operands, locals, states, borrows)
      /\ Before(f) = State(f.entry, f.locals, f.states, f.borrows) /\ EntryIn(f) = Before(f) /\ f.entry \in Seq(SlotsHere)
  BY <1>1, LeftWhole
<1>20. PICK n : n = Nested
  OBVIOUS
<1>5. n \in Nat /\ n > 0 /\ n \in 1..n /\ DOMAIN literals = 1..n /\ literals = [i \in 1..n |-> literals[i]] /\ f = literals[n]
  BY <1>1, <1>2, <1>20, EndsIs DEF Nesting, Ends, Innermost
<1>6. /\ g.kind = f.kind /\ g.turns = f.turns /\ g.under = f.under /\ g.entry = f.entry
      /\ g.callee = f.callee /\ g.running = f.running /\ g.locals = f.locals /\ g.states = f.states /\ g.borrows = f.borrows
      /\ g.terms = f.terms /\ g.arm = 2 /\ g.exit = operands /\ g.joined = StatesOutside /\ g.met = borrows /\ DOMAIN g = FrameFields
  <2>1. DOMAIN f = FrameFields
    BY <1>3 DEF FrameOK
  <2> HIDE DEF f
  <2> QED BY <2>1 DEF FrameFields
<1>7. Before(g) = Before(f) /\ EntryIn(g) = Before(f) /\ ExitOf(g) = Left
  BY <1>3, <1>4, <1>6 DEF Before, EntryIn, ExitOf
<1>8. f.turns \in {<<1, 0>>, <<0, 1>>} /\ f.under = <<>> /\ StateOK(Before(f)) /\ f.running \in BOOLEAN
  BY <1>3 DEF FrameOK, TurnsFor
<1>9. FrameOK(g)
  BY <1>3, <1>6, <1>7 DEF FrameOK
<1> HIDE DEF f, g
<1>10. /\ DOMAIN literals' = 1..n /\ literals' = [i \in 1..n |-> literals'[i]] /\ literals'[n] = g
       /\ \A i \in 1..n - 1 : literals'[i] = literals[i]
  <2>1. literals' = [literals EXCEPT ![n] = g]
    BY <1>1, <1>20
  <2>2. \A i \in 1..n - 1 : i \in 1..n /\ i # n
    BY <1>5
  <2> QED BY <1>5, <2>1, <2>2
<1>11. Nested' = n
  <2>1. Len(literals') = n
    BY <1>5, <1>10
  <2> QED BY <2>1 DEF Nested
<1>12. Innermost' = g /\ Here' = Before(f)
  <2>1. Innermost' = g
    BY <1>10, <1>11 DEF Innermost
  <2>2. Under' = <<>>
    BY <1>5, <1>6, <1>8, <1>11, <2>1 DEF Under
  <2>3. <<>> \o operands' = operands'
    BY <1>1, <1>4, ConcatEmptySeq
  <2> QED BY <1>1, <1>4, <2>1, <2>2, <2>3 DEF Here
<1>13. \A i \in 1..n : (i = n \/ i \in 1..n - 1) /\ (i \in 1..n - 1 => literals'[i] = literals[i])
  <2>1. \A i \in 1..n : i = n \/ i \in 1..n - 1
    BY <1>5
  <2> QED BY <1>10, <2>1
<1>14. Nesting'
  <2>1. \A i \in 1..n : FrameOK(literals[i]) /\ (Repeats(literals[i]) => i = n)
    BY <1>2, <1>20 DEF Nesting
  <2>2. \A i \in 1..n : FrameOK(literals'[i]) /\ (Repeats(literals'[i]) => i = n)
    BY <1>9, <1>10, <1>13, <2>1
  <2>3. operands' \in Seq(SlotsHere)
    BY <1>1, <1>4
  <2> QED BY <1>5, <1>10, <1>11, <2>2, <2>3 DEF Nesting
<1>15. OutsideKept'
  <2>1. \A i \in 1..n : \A j \in i..n : Kept(literals[i], literals[j].locals)
    BY <1>2, <1>20 DEF OutsideKept
  <2>2. \A i \in 1..n : literals'[i].locals = literals[i].locals
    BY <1>5, <1>6, <1>10, <1>13
  <2>3. \A i \in 1..n : Kept(literals'[i], locals')
    <3> SUFFICES ASSUME NEW i \in 1..n PROVE Kept(literals'[i], locals')
      OBVIOUS
    <3>1. n \in i..n
      BY <1>5
    <3>2. Kept(literals[i], literals[n].locals)
      BY <2>1, <3>1
    <3> QED BY <1>1, <1>5, <2>2, <3>2 DEF Kept
  <2>4. ASSUME NEW i \in 1..n, NEW j \in i..n PROVE Kept(literals'[i], literals'[j].locals)
    <3>1. j \in 1..n
      BY <1>5
    <3>2. Kept(literals[i], literals[j].locals)
      BY <2>1
    <3> QED BY <2>2, <3>1, <3>2 DEF Kept
  <2> QED BY <1>11, <2>3, <2>4 DEF OutsideKept
<1>16. \A i \in 0..n - 1 : Reached(i)' <=> Reached(i)
  <2> SUFFICES ASSUME NEW i \in 0..n - 1 PROVE Reached(i)' <=> Reached(i)
    OBVIOUS
  <2>1. \A j \in 1..i : j \in 1..n - 1
    BY <1>5
  <2> QED BY <1>10, <2>1 DEF Reached
<1>17. Reached(n)' <=> Reached(n - 1) /\ f.turns[2] > 0
  <2>1. TurnsOf(g) = f.turns[2]
    BY <1>6 DEF TurnsOf
  <2>2. \A j \in 1..n - 1 : j \in 1..n
    BY <1>5
  <2>3. ASSUME Reached(n)' PROVE Reached(n - 1) /\ f.turns[2] > 0
    <3>1. \A j \in 1..n : TurnsOf(literals'[j]) > 0
      BY <2>3 DEF Reached
    <3> QED BY <1>5, <1>10, <2>1, <2>2, <3>1 DEF Reached
  <2>4. ASSUME Reached(n - 1), f.turns[2] > 0 PROVE Reached(n)'
    <3>1. \A j \in 1..n - 1 : TurnsOf(literals[j]) > 0
      BY <2>4 DEF Reached
    <3>2. \A j \in 1..n : TurnsOf(literals'[j]) > 0
      BY <1>10, <1>13, <2>1, <2>4, <3>1
    <3> QED BY <3>2 DEF Reached
  <2> QED BY <2>3, <2>4
<1>18. Running'
  <2>1. \A i \in 1..n : literals[i].running <=> Reached(i - 1)
    BY <1>2, <1>20 DEF Running
  <2>2. \A i \in 1..n : literals'[i].running = literals[i].running /\ i - 1 \in 0..n - 1
    BY <1>5, <1>6, <1>10, <1>13
  <2>3. f.running <=> Reached(n - 1)
    BY <1>5, <2>1
  <2>4. running' \in BOOLEAN /\ (running' <=> Reached(n)')
    BY <1>1, <1>8, <1>17, <2>3
  <2>5. Reached(Nested)' <=> Reached(n)'
    BY <1>11 DEF Reached
  <2>6. \A i \in 1..Nested' : literals'[i].running <=> Reached(i - 1)'
    BY <1>11, <1>16, <2>1, <2>2
  <2> QED BY <2>4, <2>5, <2>6 DEF Running
<1>19. running => Sync(Left, Forgotten(exec)) /\ ExecOK(Forgotten(exec))
  <2>1. running => Sync(State(operands, locals, states, borrows), exec)
    BY <1>2, <1>4 DEF Agrees
  <2> QED BY <1>1, <1>4, <2>1, ForgottenKeeps DEF f
<1>21. exec' = IF running THEN Forgotten(exec) ELSE exec
  BY <1>1 DEF Ended
<1>22. TurnsOf(f) = f.turns[1] /\ TurnsOf(g) = f.turns[2] /\ Waiting(f) = Before(f) /\ Waiting(g) = Left
  BY <1>1, <1>6, <1>7 DEF TurnsOf, Waiting
<1>23. f.running => /\ running <=> TurnsOf(f) > 0
                    /\ ~running => Sync(Waiting(f), exec)
  BY <1>1, SkippedIs DEF f
<1>24. Agrees'
  <2>1. running' => Sync(Here', exec')
    <3> SUFFICES ASSUME running' PROVE Sync(Before(f), exec')
      BY <1>12
    <3>4. f.running /\ f.turns[2] > 0
      BY <1>1
    <3>1. f.running /\ f.turns[1] = 0
      BY <1>8, <3>4
    <3>2. ~running
      BY <1>22, <1>23, <3>1
    <3> QED BY <1>21, <1>22, <1>23, <3>1, <3>2
  <2>2. \A i \in 1..n : literals'[i].running /\ TurnsOf(literals'[i]) = 0 => Sync(Waiting(literals'[i]), exec')
    <3> SUFFICES ASSUME NEW i \in 1..n, literals'[i].running, TurnsOf(literals'[i]) = 0
                 PROVE  Sync(Waiting(literals'[i]), exec')
      OBVIOUS
    <3>1. CASE i = n
      <4>1. literals'[i] = g /\ f.running /\ f.turns[2] = 0
        BY <1>6, <1>10, <1>22, <3>1
      <4>2. f.turns[1] > 0
        BY <1>8, <4>1
      <4>3. running
        BY <1>22, <1>23, <4>1, <4>2
      <4> QED BY <1>19, <1>21, <1>22, <4>1, <4>3
    <3>2. CASE i \in 1..n - 1
      <4>1. literals'[i] = literals[i]
        BY <1>10, <3>2
      <4>2. ~running
        BY <1>2, <1>20, <4>1, NoneWaits
      <4>3. Sync(Waiting(literals[i]), exec)
        BY <1>2, <1>20, <4>1 DEF Agrees
      <4> QED BY <1>21, <4>1, <4>2, <4>3
    <3> QED BY <1>13, <3>1, <3>2
  <2>3. ExecOK(exec') /\ StateOK(Here')
    BY <1>3, <1>8, <1>12, <1>19, <1>21
  <2> QED BY <1>11, <2>1, <2>2, <2>3 DEF Agrees
<1>25. GroundKeeps'
  BY <1>3, <1>6, <1>12 DEF GroundKeeps
<1>26. RunsAgain'
  <2>1. Turns' = f.turns[2]
    BY <1>6, <1>12 DEF Turns
  <2>2. f.turns[2] # 2
    BY <1>8
  <2> QED BY <2>1, <2>2 DEF RunsAgain
<1>27. AtTheEnd'
  BY <1>1, <1>3 DEF AtTheEnd
<1> QED BY <1>14, <1>15, <1>18, <1>24, <1>25, <1>26, <1>27 DEF PolyInvariant

\* what the end of the arms, and of the body of `times`, leaves
ArmsLeave(sts) == State(operands, Innermost.locals, sts, United)

LEMMA ArmsIs ==
  ASSUME Shapes = {}, PolyInvariant, EndArms
  PROVE  /\ Ends({"arms", "times"}) /\ Resume /\ verdict' = verdict /\ operands' = operands
         /\ locals' = Innermost.locals /\ states' = JoinedOutside /\ borrows' = United
         /\ State(operands', locals', states', borrows') = ArmsLeave(JoinedOutside)
         /\ exec' = Again(<<>>, Innermost.terms)
         /\ Innermost.kind = "arms" => Innermost.arm = 2 /\ Innermost.exit = operands
         /\ Innermost.kind = "times" =>
              /\ Innermost.entry = operands /\ StatesOutside = Innermost.states
              /\ borrows \subseteq Innermost.borrows \/ NoReferences(operands)
         /\ \A b, c \in United : b.place = c.place => b = c
         /\ Left = State(operands, Innermost.locals, StatesOutside, borrows)
         /\ Here = State(operands, locals, states, borrows) /\ operands \in Seq(SlotsHere)
         /\ Before(Innermost) = State(Innermost.entry, Innermost.locals, Innermost.states, Innermost.borrows)
         /\ EntryIn(Innermost) = Before(Innermost)
         /\ FrameOK(Innermost) /\ Innermost.kind \in {"arms", "times"} /\ StateOK(Left) /\ StateOK(Before(Innermost)) /\ ExecOK(exec)
         /\ running => Sync(Left, Forgotten(exec))
<1>1. /\ Ends({"arms", "times"}) /\ Resume /\ verdict' = verdict /\ operands' = operands
      /\ locals' = Innermost.locals /\ states' = JoinedOutside /\ borrows' = United
      /\ exec' = Again(<<>>, Innermost.terms)
      /\ Innermost.kind = "arms" => Innermost.arm = 2 /\ Innermost.exit = operands
      /\ Innermost.kind = "times" =>
           /\ Innermost.entry = operands /\ StatesOutside = Innermost.states
           /\ borrows \subseteq Innermost.borrows \/ NoReferences(operands)
      /\ \A b, c \in United : b.place = c.place => b = c
  BY DEF EndArms, Includes, ExitsAgree, NoReferences
<1>2. "ground" \notin {"arms", "times"}
  OBVIOUS
<1>3. /\ Left = State(operands, Innermost.locals, StatesOutside, borrows)
      /\ Here = State(operands, locals, states, borrows) /\ operands \in Seq(SlotsHere)
      /\ Before(Innermost) = State(Innermost.entry, Innermost.locals, Innermost.states, Innermost.borrows)
      /\ EntryIn(Innermost) = Before(Innermost)
  BY <1>1, <1>2, LeftWhole
<1>4. FrameOK(Innermost) /\ Innermost.kind \in {"arms", "times"} /\ StateOK(Left) /\ ExecOK(exec)
  BY <1>1, EndsIs
<1>5. StateOK(Before(Innermost))
  BY <1>4 DEF FrameOK
<1>6. running => Sync(Left, Forgotten(exec))
  <2>1. running => Sync(State(operands, locals, states, borrows), exec)
    BY <1>3, PolyHas DEF Agrees
  <2> QED BY <1>1, <1>3, <2>1, ForgottenKeeps
<1>7. State(operands', locals', states', borrows') = ArmsLeave(JoinedOutside)
  BY <1>1 DEF ArmsLeave
<1> QED BY <1>1, <1>3, <1>4, <1>5, <1>6, <1>7

LEMMA UnitedIs ==
  ASSUME Shapes = {}, PolyInvariant, EndArms
  PROVE  /\ United \subseteq [place : PolyNames, mutable : BOOLEAN] /\ borrows \subseteq United
         /\ Innermost.borrows \subseteq United /\ Innermost.met \subseteq United
<1>1. StateOK(Left) /\ StateOK(Before(Innermost)) /\ FrameOK(Innermost)
  BY ArmsIs
<1>2. borrows \subseteq [place : PolyNames, mutable : BOOLEAN]
  <2>1. Left.borrows = borrows
    BY DEF Left, State
  <2> QED BY <1>1, <2>1, StateIs
<1>3. Innermost.borrows \subseteq [place : PolyNames, mutable : BOOLEAN]
  <2>1. Before(Innermost).borrows = Innermost.borrows
    BY DEF Before, State
  <2> QED BY <1>1, <2>1, StateIs
<1>4. Innermost.met \subseteq [place : PolyNames, mutable : BOOLEAN]
  <2>1. CASE Innermost.arm = 1
    BY <1>1, <2>1 DEF FrameOK
  <2>2. CASE Innermost.arm # 1
    <3>1. StateOK(ExitOf(Innermost)) /\ ExitOf(Innermost).borrows = Innermost.met
      BY <1>1, <2>2 DEF FrameOK, ExitOf, State
    <3> QED BY <3>1, StateIs
  <2> QED BY <2>1, <2>2
<1> QED BY <1>2, <1>3, <1>4 DEF United

LEMMA AgainIs ==
  ASSUME NEW last, NEW terms
  PROVE  Again(last, terms) =
           IF ~running THEN exec
           ELSE IF Turns = 2 THEN Forgotten(RunAll(Forgotten(RunAll(exec, last)), terms))
           ELSE Forgotten(RunAll(exec, last))
BY DEF Again

LEMMA EndTwoArmsKeeps ==
  ASSUME Shapes = {}, PolyInvariant, EndArms, Innermost.kind = "arms"
  PROVE  PolyInvariant'
<1> DEFINE f == Innermost
           c == ArmsLeave(JoinedOutside)
           a == ExitOf(f)
           b == Left
<1>1. /\ Ends({"arms", "times"}) /\ Resume /\ verdict' = verdict /\ operands' = operands
      /\ locals' = f.locals /\ State(operands', locals', states', borrows') = c
      /\ exec' = Again(<<>>, f.terms) /\ f.arm = 2 /\ f.exit = operands
      /\ \A x, y \in United : x.place = y.place => x = y
      /\ b = State(operands, f.locals, StatesOutside, borrows) /\ operands \in Seq(SlotsHere)
      /\ FrameOK(f) /\ StateOK(b) /\ ExecOK(exec)
      /\ running => Sync(b, Forgotten(exec))
  BY ArmsIs
<1>2. United \subseteq [place : PolyNames, mutable : BOOLEAN] /\ borrows \subseteq United /\ f.met \subseteq United
  BY UnitedIs
<1>3. f.turns \in {<<1, 0>>, <<0, 1>>} /\ StateOK(a)
  BY <1>1 DEF FrameOK, TurnsFor
<1>4. a = State(operands, f.locals, f.joined, f.met)
  BY <1>1 DEF ExitOf
<1>5. /\ a.stack = operands /\ a.locals = f.locals /\ a.states = f.joined /\ a.borrows = f.met
      /\ b.stack = operands /\ b.locals = f.locals /\ b.states = StatesOutside /\ b.borrows = borrows
  BY <1>1, <1>4 DEF State
<1>6. c.stack = operands /\ c.locals = f.locals /\ c.states = JoinStates(f.joined, StatesOutside) /\ c.borrows = United
  BY DEF ArmsLeave, State, JoinedOutside
<1>7. f.running => /\ running <=> TurnsOf(f) > 0
                   /\ ~running => Sync(Waiting(f), exec)
  BY <1>1, SkippedIs
<1>8. Turns = f.turns[2] /\ TurnsOf(f) = f.turns[2] /\ Waiting(f) = a /\ Turns # 2
  BY <1>1, <1>3 DEF Turns, TurnsOf, Waiting
<1>9. exec' = IF running THEN Forgotten(exec) ELSE exec
  BY <1>1, <1>8, AgainIs, RunAllEmpty
<1> HIDE DEF f, a, b, c
<1>10. StateOK(c) /\ \A n \in PolyNames : c.states[n] \in {a.states[n], "maybe"} /\ c.states[n] \in {b.states[n], "maybe"}
  BY <1>1, <1>2, <1>3, <1>5, <1>6, JoinedIs
<1>11. running => Sync(c, exec')
  <2> SUFFICES ASSUME running PROVE Sync(c, exec')
    OBVIOUS
  <2>1. Sync(b, exec')
    BY <1>1, <1>9
  <2>2. \A p \in DOMAIN Held(exec') : Refers(Held(exec')[p]) => RecordOf(Held(exec')[p]) \in c.borrows
    BY <1>2, <1>5, <1>6, <2>1, RecordedIs
  <2> QED BY <1>5, <1>6, <1>10, <2>1, <2>2, WeakerKeeps
<1>12. f.running /\ ~running => Sync(c, exec')
  <2> SUFFICES ASSUME f.running, ~running PROVE Sync(c, exec')
    OBVIOUS
  <2>1. Sync(a, exec')
    BY <1>7, <1>8, <1>9
  <2>2. \A p \in DOMAIN Held(exec') : Refers(Held(exec')[p]) => RecordOf(Held(exec')[p]) \in c.borrows
    BY <1>2, <1>5, <1>6, <2>1, RecordedIs
  <2> QED BY <1>5, <1>6, <1>10, <2>1, <2>2, WeakerKeeps
<1>13. ExecOK(exec')
  BY <1>1, <1>9, <1>11, SyncIs
<1>14. /\ StateOK(State(operands', locals', states', borrows')) /\ (~running => exec' = exec)
       /\ f.running => Sync(State(operands', locals', states', borrows'), exec')
       /\ operands' \in Seq(SlotsHere)
  BY <1>1, <1>9, <1>10, <1>11, <1>12
<1> QED BY <1>1, <1>13, <1>14, ResumeKeeps DEF f

LEMMA EndTimesKeeps ==
  ASSUME Shapes = {}, PolyInvariant, EndArms, Innermost.kind = "times"
  PROVE  PolyInvariant'
<1> DEFINE f == Innermost
           c == ArmsLeave(JoinedOutside)
           a == Before(f)
           b == Left
           y == Forgotten(exec)
           z == RunAll(y, f.terms)
<1>1. /\ Ends({"arms", "times"}) /\ Resume /\ verdict' = verdict /\ operands' = operands
      /\ locals' = f.locals /\ State(operands', locals', states', borrows') = c
      /\ exec' = Again(<<>>, f.terms) /\ f.entry = operands /\ StatesOutside = f.states
      /\ borrows \subseteq f.borrows \/ NoReferences(operands)
      /\ \A r, s \in United : r.place = s.place => r = s
      /\ b = State(operands, f.locals, StatesOutside, borrows) /\ operands \in Seq(SlotsHere)
      /\ Here = State(operands, locals, states, borrows)
      /\ a = State(f.entry, f.locals, f.states, f.borrows) /\ EntryIn(f) = a
      /\ FrameOK(f) /\ StateOK(a) /\ StateOK(b) /\ ExecOK(exec)
      /\ running => Sync(b, y)
  BY ArmsIs
<1>2. United \subseteq [place : PolyNames, mutable : BOOLEAN] /\ borrows \subseteq United /\ f.borrows \subseteq United
  BY UnitedIs
<1>3. f.turns \in {<<0>>, <<1>>, <<2>>} /\ f.arm = 1
  BY <1>1 DEF FrameOK, TurnsFor
<1>4. f.kind = "times"
  OBVIOUS
<1>5. /\ a.stack = operands /\ a.locals = f.locals /\ a.states = f.states /\ a.borrows = f.borrows
      /\ b.stack = operands /\ b.locals = f.locals /\ b.states = f.states /\ b.borrows = borrows
  BY <1>1 DEF State
<1>6. c.stack = operands /\ c.locals = f.locals /\ c.states = f.states /\ c.borrows = United
  BY <1>1, <1>4 DEF ArmsLeave, State, JoinedOutside
<1>7. f.running => /\ running <=> TurnsOf(f) > 0
                   /\ ~running => Sync(Waiting(f), exec)
  BY <1>1, SkippedIs
<1>8. Turns = f.turns[1] /\ TurnsOf(f) = f.turns[1] /\ Waiting(f) = a
  BY <1>1, <1>3 DEF Turns, TurnsOf, Waiting
<1>9. exec' = IF ~running THEN exec ELSE IF Turns = 2 THEN Forgotten(z) ELSE y
  BY <1>1, AgainIs, RunAllEmpty
<1>15. running /\ Turns = 2 => KnownBefore(f, exec) /\ Replays(f.terms, a, Here)
  <2>1. RunsAgain /\ Nested > 0
    BY <1>1, PolyHas DEF Ends
  <2> QED BY <1>1, <2>1 DEF RunsAgain
<1>16. running => \A n \in PolyNames : f.locals[n] # None => y.env[n] = exec.env[n] /\ (n \notin y.spent => n \notin exec.spent)
  <2>1. running => Sync(State(operands, locals, states, borrows), exec)
    BY <1>1, PolyHas DEF Agrees
  <2> QED BY <1>1, <2>1, ForgottenKeeps
<1>17. \A e : Sync(Here, e) => Sync(b, Forgotten(e))
  BY <1>1, ForgottenKeeps
<1> HIDE DEF f, a, b, c, y, z
<1>10. StateOK(c)
  BY <1>1, <1>2, <1>5, <1>6, StateIs DEF StateOK
<1>18. \A e : Sync(b, e) => Sync(c, e)
  <2> SUFFICES ASSUME NEW e, Sync(b, e) PROVE Sync(c, e)
    OBVIOUS
  <2>1. \A p \in DOMAIN Held(e) : Refers(Held(e)[p]) => RecordOf(Held(e)[p]) \in c.borrows
    BY <1>2, <1>5, <1>6, RecordedIs
  <2>2. \A n \in PolyNames : c.states[n] \in {b.states[n], "maybe"}
    BY <1>5, <1>6
  <2> QED BY <1>5, <1>6, <1>10, <2>1, <2>2, WeakerKeeps
<1>11. running => Sync(c, exec')
  <2> SUFFICES ASSUME running PROVE Sync(c, exec')
    OBVIOUS
  <2>1. CASE Turns # 2
    BY <1>1, <1>9, <1>18, <2>1
  <2>2. CASE Turns = 2
    <3>1. Sync(b, y)
      BY <1>1
    <3>2. \A p \in DOMAIN Held(y) : Refers(Held(y)[p]) => RecordOf(Held(y)[p]) \in a.borrows
      <4>1. CASE borrows \subseteq f.borrows
        BY <1>5, <3>1, <4>1, RecordedIs
      <4>2. CASE NoReferences(operands)
        <5>1. \A n \in PolyNames : b.locals[n] # None /\ n \notin y.spent /\ Refers(y.env[n]) => RecordOf(y.env[n]) \in a.borrows
          BY <1>5, <1>15, <1>16, <2>2 DEF KnownBefore
        <5>2. NoReferences(b.stack)
          BY <1>5, <4>2
        <5> QED BY <3>1, <5>1, <5>2, RecordedInLocals
      <4> QED BY <1>1, <4>1, <4>2
    <3>3. Sync(a, y)
      <4>1. \A n \in PolyNames : a.states[n] \in {b.states[n], "maybe"}
        BY <1>5
      <4> QED BY <1>1, <1>5, <3>1, <3>2, <4>1, WeakerKeeps
    <3>4. Sync(Here, z)
      BY <1>15, <2>2, <3>3 DEF Replays, z
    <3> QED BY <1>9, <1>17, <1>18, <2>2, <3>4
  <2> QED BY <2>1, <2>2
<1>12. f.running /\ ~running => Sync(c, exec')
  <2> SUFFICES ASSUME f.running, ~running PROVE Sync(c, exec')
    OBVIOUS
  <2>1. Sync(a, exec')
    BY <1>7, <1>8, <1>9
  <2>2. \A p \in DOMAIN Held(exec') : Refers(Held(exec')[p]) => RecordOf(Held(exec')[p]) \in c.borrows
    BY <1>2, <1>5, <1>6, <2>1, RecordedIs
  <2>3. \A n \in PolyNames : c.states[n] \in {a.states[n], "maybe"}
    BY <1>5, <1>6
  <2> QED BY <1>5, <1>6, <1>10, <2>1, <2>2, <2>3, WeakerKeeps
<1>13. ExecOK(exec')
  BY <1>1, <1>9, <1>11, SyncIs
<1>14. /\ StateOK(State(operands', locals', states', borrows')) /\ (~running => exec' = exec)
       /\ f.running => Sync(State(operands', locals', states', borrows'), exec')
       /\ operands' \in Seq(SlotsHere)
  BY <1>1, <1>9, <1>10, <1>11, <1>12
<1> QED BY <1>1, <1>13, <1>14, ResumeKeeps DEF f

\* R12: the locals of the word are as they were, and so are the records its
\* references need
GroundLeaves == State(Innermost.under, Innermost.locals, Innermost.states, borrows)

LEMMA GroundIs ==
  ASSUME PolyInvariant, EndGround
  PROVE  /\ Ends({"ground"}) /\ Resume /\ verdict' = verdict /\ locals' = Innermost.locals
         /\ operands' = Innermost.under /\ Innermost.under \in Seq(SlotsHere) /\ NoReferences(Innermost.under)
         /\ State(operands', locals', states', borrows') = GroundLeaves /\ StateOK(GroundLeaves)
         /\ operands \in Seq(SlotsHere) /\ StatesOutside = Innermost.states
         /\ Here = State(Innermost.under \o operands, locals, states, borrows)
         /\ exec' = Again(Consumes(operands), Makes(Innermost.entry) \o Innermost.terms \o Consumes(operands))
         /\ FrameOK(Innermost) /\ ExecOK(exec) /\ Innermost.kind = "ground" /\ Innermost.arm = 1 /\ Innermost.entry \in Seq(OwnSlots)
         /\ LocalReference(Innermost) => Innermost.borrows \subseteq borrows
<1> DEFINE f == Innermost
<1>1. /\ Ends({"ground"}) /\ Resume /\ verdict' = verdict /\ locals' = LocalsOutside /\ TakenFromWord = {}
      /\ f.callee.outs = operands /\ operands' = f.under /\ states' = StatesOutside /\ borrows' = borrows
      /\ exec' = Again(Consumes(f.callee.outs), Makes(f.callee.ins) \o f.terms \o Consumes(f.callee.outs))
  BY DEF EndGround, ExitsAgree, Consumes, Makes
<1>2. /\ FrameOK(f) /\ f.kind = "ground" /\ LocalsOutside = f.locals /\ StateOK(Left) /\ ExecOK(exec)
      /\ \A n \in PolyNames : f.locals[n] = None => StatesOutside[n] = "absent"
      /\ \A n \in PolyNames : f.locals[n] # None => StatesOutside[n] = states[n]
  BY <1>1, EndsIs
<1>3. Nested > 0 /\ Nested \in Nat /\ operands \in Seq(SlotsHere) /\ GroundKeeps /\ RunsAgain /\ Agrees
  BY <1>1, PolyHas DEF Ends, Nesting
<1>4. Under = f.under
  BY <1>3 DEF Under
<1>5. /\ f.under \in Seq(SlotsHere) /\ NoReferences(f.under) /\ f.callee \in Callees /\ f.entry = f.callee.ins /\ f.arm = 1
      /\ StateOK(Before(f)) /\ Before(f) = State(f.under, f.locals, f.states, f.borrows)
  BY <1>2 DEF FrameOK, Before
<1>6. /\ \A n \in PolyNames : f.locals[n] # None /\ f.states[n] # "live" => states[n] = f.states[n]
      /\ LocalReference(f) => f.borrows \subseteq borrows
  BY <1>2, <1>3 DEF GroundKeeps
<1>7. \A n \in PolyNames : f.states[n] = "live" => states[n] = "live"
  BY <1>1 DEF TakenFromWord
<1>8. f.entry \in Seq(OwnSlots)
  <2> DEFINE callee == f.callee
  <2>1. callee \in Callees
    BY <1>5
  <2> HIDE DEF callee
  <2>2. callee.ins \in Seq(OwnSlots)
    BY <2>1, CalleesAre
  <2> QED BY <1>5, <2>2 DEF callee
<1> HIDE DEF f
<1> DEFINE b == Before(f)
<1>9. b.stack = f.under /\ b.locals = f.locals /\ b.states = f.states /\ b.borrows = f.borrows
  BY <1>5 DEF State
<1>10. StateOK(b)
  BY <1>5
<1> HIDE DEF b
<1>11. f.states \in [PolyNames -> MoveStatesHere] /\ \A n \in PolyNames : f.locals[n] = None => f.states[n] = "absent"
  BY <1>9, <1>10, StateIs
<1>12. StatesOutside = f.states
  <2>1. \A n \in PolyNames : StatesOutside[n] = f.states[n]
    BY <1>2, <1>6, <1>7, <1>11
  <2>2. f.states = [n \in PolyNames |-> f.states[n]] /\ StatesOutside = [n \in PolyNames |-> StatesOutside[n]]
    BY <1>11 DEF StatesOutside
  <2> QED BY <2>1, <2>2
<1>13. Here = State(f.under \o operands, locals, states, borrows)
  BY <1>4 DEF Here
<1> DEFINE d == State(f.under, f.locals, f.states, borrows)
           l == Left
<1>14. d.stack = f.under /\ d.locals = f.locals /\ d.states = f.states /\ d.borrows = borrows /\ l.borrows = borrows /\ StateOK(l)
  BY <1>2 DEF State, Left
<1> HIDE DEF d, l
<1>15. StateOK(d)
  BY <1>5, <1>9, <1>10, <1>14, StateIs DEF StateOK
<1>16. State(operands', locals', states', borrows') = d /\ GroundLeaves = d
  BY <1>1, <1>2, <1>12 DEF d, f, GroundLeaves
<1> QED BY <1>1, <1>2, <1>3, <1>5, <1>6, <1>8, <1>12, <1>13, <1>15, <1>16 DEF f

\* one call of the literal, from where its terms end
LEMMA CallEnds ==
  ASSUME PolyInvariant, EndGround, NEW e, Sync(Here, e)
  PROVE  LET y == Forgotten(RunAll(e, Consumes(operands)))
         IN Sync(GroundLeaves, y) /\ \A n \in PolyNames : Innermost.locals[n] # None =>
                                       y.env[n] = e.env[n] /\ (n \notin y.spent => n \notin e.spent)
<1> DEFINE f == Innermost
           x == RunAll(e, Consumes(operands))
           y == Forgotten(x)
<1>1. /\ Ends({"ground"}) /\ f.under \in Seq(SlotsHere) /\ operands \in Seq(SlotsHere) /\ StatesOutside = f.states
      /\ Here = State(f.under \o operands, locals, states, borrows)
  BY GroundIs
<1>2. Sync(State(f.under \o operands, locals, states, borrows), e)
  BY <1>1
<1>3. Sync(State(f.under, locals, states, borrows), x) /\ x.env = e.env /\ x.spent = e.spent
  <2> HIDE DEF f
  <2> QED BY <1>1, <1>2, ConsumesKeep
<1> HIDE DEF x
<1>4. /\ Sync(State(f.under, f.locals, StatesOutside, borrows), y)
      /\ \A n \in PolyNames : f.locals[n] # None => y.env[n] = x.env[n] /\ (n \notin y.spent => n \notin x.spent)
  BY <1>1, <1>3, ForgottenKeeps
<1>5. Sync(GroundLeaves, y)
  BY <1>1, <1>4 DEF GroundLeaves
<1> QED BY <1>3, <1>4, <1>5 DEF x

LEMMA EndGroundKeeps ==
  ASSUME PolyInvariant, EndGround
  PROVE  PolyInvariant'
<1> DEFINE f == Innermost
           ins == Makes(f.entry)
           outs == Consumes(operands)
           y == Forgotten(RunAll(exec, outs))
           c == GroundLeaves
           a == Before(f)
<1>1. /\ Ends({"ground"}) /\ Resume /\ verdict' = verdict /\ locals' = f.locals
      /\ operands' = f.under /\ f.under \in Seq(SlotsHere) /\ NoReferences(f.under)
      /\ State(operands', locals', states', borrows') = c /\ StateOK(c)
      /\ operands \in Seq(SlotsHere) /\ StatesOutside = f.states
      /\ exec' = Again(outs, ins \o f.terms \o outs)
      /\ FrameOK(f) /\ ExecOK(exec) /\ f.kind = "ground" /\ f.arm = 1 /\ f.entry \in Seq(OwnSlots)
      /\ LocalReference(f) => f.borrows \subseteq borrows
  BY GroundIs
<1>2. f.turns \in {<<0>>, <<1>>, <<2>>} /\ StateOK(a) /\ a = State(f.under, f.locals, f.states, f.borrows)
  BY <1>1 DEF FrameOK, TurnsFor, Before
<1>3. EntryIn(f) = State(f.under \o f.entry, f.locals, f.states, f.borrows)
  BY DEF EntryIn
<1>4. /\ a.stack = f.under /\ a.locals = f.locals /\ a.states = f.states /\ a.borrows = f.borrows
      /\ c.stack = f.under /\ c.locals = f.locals /\ c.states = f.states /\ c.borrows = borrows
  BY <1>2 DEF State, GroundLeaves
<1>5. f.running => /\ running <=> TurnsOf(f) > 0
                   /\ ~running => Sync(Waiting(f), exec)
  BY <1>1, SkippedIs
<1>6. Turns = f.turns[1] /\ TurnsOf(f) = f.turns[1] /\ Waiting(f) = a
  BY <1>1 DEF Turns, TurnsOf, Waiting
<1>7. exec' = IF ~running THEN exec ELSE IF Turns = 2 THEN Forgotten(RunAll(y, ins \o f.terms \o outs)) ELSE y
  BY <1>1, AgainIs
<1>8. running => Sync(Here, exec)
  BY PolyHas DEF Agrees
<1>9. running /\ Turns = 2 => KnownBefore(f, exec) /\ Replays(f.terms, EntryIn(f), Here)
  <2>1. RunsAgain /\ Nested > 0
    BY <1>1, PolyHas DEF Ends
  <2> QED BY <2>1 DEF RunsAgain
<1>10. \A e : Sync(Here, e) => Sync(c, Forgotten(RunAll(e, outs)))
  BY CallEnds
<1>11. running => Sync(c, y) /\ \A n \in PolyNames : f.locals[n] # None => y.env[n] = exec.env[n] /\ (n \notin y.spent => n \notin exec.spent)
  BY <1>8, CallEnds
<1>12. PICK S : f.terms \in Seq(S)
  BY <1>1 DEF FrameOK
<1>13. \A e : Sync(a, e) => Sync(EntryIn(f), RunAll(e, ins))
  <2> SUFFICES ASSUME NEW e, Sync(a, e) PROVE Sync(EntryIn(f), RunAll(e, ins))
    OBVIOUS
  <2> HIDE DEF a, f
  <2>1. Sync(State(a.stack \o f.entry, a.locals, a.states, a.borrows), RunAll(e, Makes(f.entry)))
    BY <1>1, MakesKeep
  <2> QED BY <1>3, <1>4, <2>1
<1>14. \A e : RunAll(e, ins \o f.terms \o outs) = RunAll(RunAll(RunAll(e, ins), f.terms), outs)
  <2> SUFFICES ASSUME NEW e PROVE RunAll(e, ins \o f.terms \o outs) = RunAll(RunAll(RunAll(e, ins), f.terms), outs)
    OBVIOUS
  <2> DEFINE terms == f.terms
             A == {ins[i] : i \in DOMAIN ins}
             B == {Plain("consume")}
  <2>1. ins \in Seq(A)
    <3>1. DOMAIN ins = DOMAIN f.entry
      BY DEF Makes
    <3>2. Len(f.entry) \in Nat /\ DOMAIN f.entry = 1..Len(f.entry)
      BY <1>1
    <3>3. ins = [i \in DOMAIN ins |-> ins[i]]
      BY DEF Makes
    <3> HIDE DEF f, ins
    <3>4. DOMAIN ins = 1..Len(f.entry) /\ ins \in [1..Len(f.entry) -> A]
      BY <3>1, <3>2, <3>3
    <3> HIDE DEF A
    <3> QED BY <3>2, <3>4, SeqDef
  <2>2. outs \in Seq(B)
    <3>1. Len(operands) \in Nat /\ DOMAIN operands = 1..Len(operands)
      BY <1>1
    <3>2. outs \in [1..Len(operands) -> B]
      BY <3>1 DEF Consumes
    <3> HIDE DEF outs, B
    <3> QED BY <3>1, <3>2, SeqDef
  <2>3. terms \in Seq(S)
    BY <1>12
  <2> HIDE DEF ins, outs, terms, A, B
  <2>4. ins \o terms \in Seq(A \cup S)
    <3>1. ins \in Seq(A \cup S) /\ terms \in Seq(A \cup S)
      BY <2>1, <2>3, SeqMonotonic
    <3> QED BY <3>1, ConcatProperties
  <2> DEFINE first == ins \o terms
  <2>7. first \in Seq(A \cup S)
    BY <2>4
  <2> HIDE DEF first
  <2>8. RunAll(e, first \o outs) = RunAll(RunAll(e, first), outs)
    BY <2>2, <2>7, RunAllConcat
  <2>5. RunAll(e, (ins \o terms) \o outs) = RunAll(RunAll(e, ins \o terms), outs)
    BY <2>8 DEF first
  <2>6. RunAll(e, ins \o terms) = RunAll(RunAll(e, ins), terms)
    BY <2>1, <2>3, RunAllConcat
  <2> QED BY <2>5, <2>6 DEF terms
<1> HIDE DEF f, a, c, y, ins, outs
<1>15. running => Sync(c, exec')
  <2> SUFFICES ASSUME running PROVE Sync(c, exec')
    OBVIOUS
  <2>1. CASE Turns # 2
    BY <1>7, <1>11, <2>1
  <2>2. CASE Turns = 2
    <3>1. Sync(c, y)
      BY <1>11
    <3>2. \A p \in DOMAIN Held(y) : Refers(Held(y)[p]) => RecordOf(Held(y)[p]) \in a.borrows
      <4>1. \A n \in PolyNames : c.locals[n] # None /\ n \notin y.spent /\ Refers(y.env[n]) => RecordOf(y.env[n]) \in a.borrows
        BY <1>4, <1>9, <1>11, <2>2 DEF KnownBefore
      <4>2. NoReferences(c.stack)
        BY <1>1, <1>4
      <4> QED BY <3>1, <4>1, <4>2, RecordedInLocals
    <3>3. Sync(a, y)
      <4>1. \A n \in PolyNames : a.states[n] \in {c.states[n], "maybe"}
        BY <1>4
      <4> QED BY <1>2, <1>4, <3>1, <3>2, <4>1, WeakerKeeps
    <3>4. Sync(EntryIn(f), RunAll(y, ins))
      BY <1>13, <3>3
    <3>5. Sync(Here, RunAll(RunAll(y, ins), f.terms))
      BY <1>9, <2>2, <3>4 DEF Replays
    <3>6. Sync(c, Forgotten(RunAll(RunAll(RunAll(y, ins), f.terms), outs)))
      BY <1>10, <3>5
    <3>7. exec' = Forgotten(RunAll(RunAll(RunAll(y, ins), f.terms), outs))
      BY <1>7, <1>14, <2>2
    <3> QED BY <3>6, <3>7
  <2> QED BY <2>1, <2>2
<1>16. f.running /\ ~running => Sync(c, exec')
  <2> SUFFICES ASSUME f.running, ~running PROVE Sync(c, exec')
    OBVIOUS
  <2>1. Sync(a, exec')
    BY <1>5, <1>6, <1>7
  <2>2. \A p \in DOMAIN Held(exec') : Refers(Held(exec')[p]) => RecordOf(Held(exec')[p]) \in c.borrows
    <3>1. CASE LocalReference(f)
      BY <1>1, <1>4, <2>1, <3>1, RecordedIs
    <3>2. CASE ~LocalReference(f)
      <4>1. \A n \in PolyNames : a.locals[n] # None /\ n \notin exec'.spent /\ Refers(exec'.env[n]) => RecordOf(exec'.env[n]) \in c.borrows
        <5> SUFFICES ASSUME NEW n \in PolyNames, a.locals[n] # None, Refers(exec'.env[n]) PROVE FALSE
          OBVIOUS
        <5>1. exec'.env[n].slot = a.locals[n]
          BY <2>1, SyncIs
        <5> QED BY <1>4, <3>2, <5>1 DEF Refers, LocalReference
      <4>2. NoReferences(a.stack)
        BY <1>1, <1>4
      <4> QED BY <2>1, <4>1, <4>2, RecordedInLocals
    <3> QED BY <3>1, <3>2
  <2>3. \A n \in PolyNames : c.states[n] \in {a.states[n], "maybe"}
    BY <1>4
  <2> QED BY <1>1, <1>4, <2>1, <2>2, <2>3, WeakerKeeps
<1>17. ExecOK(exec')
  BY <1>1, <1>7, <1>15, SyncIs
<1>18. /\ StateOK(State(operands', locals', states', borrows')) /\ (~running => exec' = exec)
       /\ f.running => Sync(State(operands', locals', states', borrows'), exec')
       /\ operands' \in Seq(SlotsHere)
  BY <1>1, <1>7, <1>15, <1>16
<1> QED BY <1>1, <1>17, <1>18, ResumeKeeps DEF f

-----------------------------------------------------------------------------
(* The invariant of the walk.                                                *)

\* nothing refers, and each linear value is in a place of its own
LEMMA GivenIsGood ==
  ASSUME NEW s \in Seq(SlotsHere), \A i \in 1..Len(s) : s[i].of # "variant",
         NEW e, e = Exec([i \in DOMAIN s |-> Value(s[i], i, None)], [n \in PolyNames |-> None], {}, {i \in DOMAIN s : s[i] = Own("lin")})
  PROVE  Sync(State(s, [n \in PolyNames |-> None], [n \in PolyNames |-> "absent"], {}), e)
<1> DEFINE len == Len(s)
           vals == [i \in DOMAIN s |-> Value(s[i], i, None)]
           L == [n \in PolyNames |-> None]
           M == [n \in PolyNames |-> "absent"]
           alive == {i \in DOMAIN s : s[i] = Own("lin")}
           c == State(s, L, M, {})
<1>1. len \in Nat /\ DOMAIN s = 1..len /\ \A i \in 1..len : s[i] \in SlotsHere
  OBVIOUS
<1>2. c.stack = s /\ c.locals = L /\ c.states = M /\ c.borrows = {}
  BY DEF State
<1>3. \A n \in PolyNames : L[n] = None /\ M[n] = "absent"
  OBVIOUS
<1>4. L \in [PolyNames -> ValuesHere \cup {None}] /\ L \in [PolyNames -> SlotsHere \cup {None}] /\ M \in [PolyNames -> MoveStatesHere]
  BY DEF MoveStatesHere
<1>5. \A i \in 1..len : Value(s[i], i, None) \in ValuesHere
  BY <1>1 DEF Value, ValuesHere
<1>6. vals \in Seq(ValuesHere) /\ Len(vals) = len /\ \A i \in 1..len : vals[i] = Value(s[i], i, None)
  <2>1. vals \in [1..len -> ValuesHere] /\ \A i \in 1..len : vals[i] = Value(s[i], i, None)
    BY <1>1, <1>5
  <2>2. DOMAIN vals = 1..len
    BY <1>1
  <2> HIDE DEF vals, len
  <2>3. vals \in Seq(ValuesHere)
    BY <1>1, <2>1, SeqDef
  <2>4. Len(vals) = len
    BY <1>1, <2>2, <2>3, LenProperties
  <2> QED BY <2>1, <2>3, <2>4
<1>7. alive \in SUBSET Nat /\ IsFiniteSet(alive) /\ \A i \in 1..len : i \in alive <=> s[i] = Own("lin")
  <2>1. alive \subseteq 1..len /\ \A i \in 1..len : i \in alive <=> s[i] = Own("lin")
    BY <1>1
  <2> HIDE DEF alive
  <2>2. IsFiniteSet(1..len)
    BY <1>1, FS_Interval
  <2>3. IsFiniteSet(alive)
    BY <2>1, <2>2, FS_Subset
  <2> QED BY <1>1, <2>1, <2>3
<1>8. alive \subseteq 1..len
  BY <1>1
<1>9. e = Exec(vals, L, {}, alive)
  OBVIOUS
<1> HIDE DEF len, vals, L, M, alive, c
<1>10. ExecOK(e) /\ e.vals = vals /\ e.env = L /\ e.spent = {} /\ e.alive = alive
  <2>1. /\ vals \in Seq(ValuesHere) /\ L \in [PolyNames -> ValuesHere \cup {None}]
        /\ {} \in SUBSET PolyNames /\ alive \in SUBSET Nat /\ IsFiniteSet(alive)
    BY <1>4, <1>6, <1>7
  <2>2. /\ ExecOK(Exec(vals, L, {}, alive)) /\ Exec(vals, L, {}, alive).vals = vals /\ Exec(vals, L, {}, alive).env = L
        /\ Exec(vals, L, {}, alive).spent = {} /\ Exec(vals, L, {}, alive).alive = alive
    BY <2>1, ExecBecomes
  <2> QED BY <1>9, <2>2
<1>11. StateOK(c)
  BY <1>2, <1>3, <1>4 DEF StateOK
<1>12. Matches(c, e)
  <2>1. StackMatches(c, e)
    <3>1. \A i \in 1..len : vals[i].slot = s[i]
      BY <1>6 DEF Value
    <3>2. Len(e.vals) = len /\ Len(c.stack) = len
      BY <1>2, <1>6, <1>10 DEF len
    <3> QED BY <1>2, <1>10, <3>1, <3>2 DEF StackMatches
  <2>2. ScopeMatches(c, e) /\ SpentMatches(c, e)
    BY <1>2, <1>3, <1>10 DEF ScopeMatches, SpentMatches
  <2> QED BY <2>1, <2>2 DEF Matches
<1> DEFINE H == Held(e)
<1>13. /\ \A p \in DOMAIN H : \E i \in 1..len : p = InSlot(i) /\ H[p] = Value(s[i], i, None)
       /\ \A i \in 1..len : InSlot(i) \in DOMAIN H /\ H[InSlot(i)] = Value(s[i], i, None)
  <2>1. /\ \A i : InSlot(i) \in DOMAIN H <=> i \in 1..len
        /\ \A i \in 1..len : H[InSlot(i)] = vals[i]
        /\ \A p \in DOMAIN H : \/ \E i \in 1..len : p = InSlot(i)
                               \/ \E n \in PolyNames : p = InName(n) /\ n \in Bound(e) \ e.spent
    <3>1. ExecOK(e) /\ e.vals = vals /\ Len(vals) = len
      BY <1>6, <1>10
    <3>2. /\ \A i : InSlot(i) \in DOMAIN H <=> i \in 1..Len(e.vals)
          /\ \A i \in 1..Len(e.vals) : H[InSlot(i)] = e.vals[i]
          /\ \A p \in DOMAIN H : \/ \E i \in 1..Len(e.vals) : p = InSlot(i)
                                 \/ \E n \in PolyNames : p = InName(n) /\ n \in Bound(e) \ e.spent
      BY <3>1, HeldIs
    <3> HIDE DEF H
    <3> QED BY <3>1, <3>2
  <2>2. Bound(e) = {}
    BY <1>3, <1>10 DEF Bound
  <2> HIDE DEF H
  <2> QED BY <1>6, <2>1, <2>2
<1>14. \A i \in 1..len : Linear(Value(s[i], i, None)) <=> i \in alive
  <2> SUFFICES ASSUME NEW i \in 1..len PROVE Linear(Value(s[i], i, None)) <=> s[i] = Own("lin")
    BY <1>7
  <2>1. s[i] \in SlotsHere /\ s[i].of # "variant"
    BY <1>1 DEF len
  <2> QED BY <2>1 DEF Linear, Value, Own, SlotsHere
<1>15. \A i : Value(s[i], i, None).at = i /\ ~Refers(Value(s[i], i, None))
  BY DEF Value, Refers
<1> HIDE DEF H
<1>16. LinearAlive(H, alive) /\ LinearApart(H)
  BY <1>13, <1>14, <1>15 DEF LinearAlive, LinearApart
<1>17. AllHeld(H, alive)
  <2> SUFFICES ASSUME NEW a \in alive PROVE \E p \in DOMAIN H : Linear(H[p]) /\ H[p].at = a
    BY DEF AllHeld
  <2>1. a \in 1..len
    BY <1>8
  <2> QED BY <1>13, <1>14, <1>15, <2>1
<1>18. Recorded(H, {}) /\ Unshared(H) /\ Rooted(H)
  BY <1>13, <1>15 DEF Recorded, Unshared, Rooted
<1>19. Sync(c, e)
  BY <1>2, <1>10, <1>11, <1>12, <1>16, <1>17, <1>18 DEF Sync, Good, H
<1> QED BY <1>19 DEF c, L, M

LEMMA InitIs ==
  ASSUME WalkInit
  PROVE  PolyInvariant
<1>1. /\ verdict = "walking" /\ operands \in Inputs /\ literals = <<>> /\ running = TRUE
      /\ locals = [n \in PolyNames |-> None] /\ states = [n \in PolyNames |-> "absent"] /\ borrows = {}
      /\ exec = Exec([i \in DOMAIN operands |-> Value(operands[i], i, None)], [n \in PolyNames |-> None], {},
                     {i \in DOMAIN operands : operands[i] = Own("lin")})
  BY DEF WalkInit, Exec
<1>2. operands \in Seq(SlotsHere) /\ \A i \in 1..Len(operands) : operands[i].of # "variant"
  <2> DEFINE Given == [kind : Kinds, of : {"lin", "agg"}]
  <2>1. operands \in Seq(Given)
    BY <1>1, PolyAssumption
  <2>2. Given \subseteq SlotsHere /\ \A v \in Given : v.of # "variant"
    BY DEF SlotsHere, Kinds
  <2> HIDE DEF Given
  <2>3. operands \in Seq(SlotsHere)
    BY <2>1, <2>2, SeqMonotonic
  <2>4. \A i \in 1..Len(operands) : operands[i] \in Given
    BY <2>1
  <2> QED BY <2>2, <2>3, <2>4
<1>3. Nested = 0 /\ Under = <<>>
  <2>1. Nested = 0
    BY <1>1 DEF Nested
  <2> QED BY <2>1 DEF Under
<1>4. Here = State(operands, locals, states, borrows)
  <2>1. <<>> \o operands = operands
    BY <1>2, ConcatEmptySeq
  <2> QED BY <1>3, <2>1 DEF Here
<1>5. Sync(Here, exec)
  <2> DEFINE s == operands
             e == exec
  <2>1. /\ s \in Seq(SlotsHere) /\ \A i \in 1..Len(s) : s[i].of # "variant"
        /\ e = Exec([i \in DOMAIN s |-> Value(s[i], i, None)], [n \in PolyNames |-> None], {}, {i \in DOMAIN s : s[i] = Own("lin")})
    BY <1>1, <1>2
  <2> HIDE DEF s, e
  <2>2. Sync(State(s, [n \in PolyNames |-> None], [n \in PolyNames |-> "absent"], {}), e)
    BY <2>1, GivenIsGood
  <2> QED BY <1>1, <1>4, <2>2 DEF s, e
<1>6. Nesting
  BY <1>1, <1>2, <1>3 DEF Nesting
<1>7. OutsideKept
  BY <1>3 DEF OutsideKept
<1>8. Running
  BY <1>1, <1>3 DEF Running, Reached
<1>9. Agrees
  BY <1>3, <1>5, SyncIs DEF Agrees
<1>10. GroundKeeps /\ RunsAgain
  BY <1>3 DEF GroundKeeps, RunsAgain
<1>11. AtTheEnd
  BY <1>1 DEF AtTheEnd
<1> QED BY <1>6, <1>7, <1>8, <1>9, <1>10, <1>11 DEF PolyInvariant

\* the end of the body, and the back-edge of a word that loops
LEMMA StopKeeps ==
  ASSUME PolyInvariant, LoopAgain \/ PolyFinish
  PROVE  PolyInvariant'
<1>1. /\ operands' = operands /\ locals' = locals /\ states' = states /\ borrows' = borrows /\ literals' = literals
      /\ running' = running /\ exec' = exec
  BY DEF LoopAgain, PolyFinish
<1>2. /\ Nesting /\ OutsideKept /\ Running /\ Agrees /\ GroundKeeps /\ RunsAgain /\ AtTheEnd
  BY PolyHas
<1>3. /\ Nested' = Nested /\ Innermost' = Innermost /\ Under' = Under /\ Here' = Here /\ Turns' = Turns
      /\ \A i : Reached(i)' <=> Reached(i)
  BY <1>1 DEF Nested, Innermost, Under, Here, Turns, Reached
<1>4. Nesting' /\ OutsideKept'
  BY <1>1, <1>2, <1>3 DEF Nesting, OutsideKept
<1>5. Running'
  BY <1>1, <1>2 DEF Running, Reached, Nested
<1>6. Agrees' /\ GroundKeeps' /\ RunsAgain'
  BY <1>1, <1>2, <1>3 DEF Agrees, GroundKeeps, RunsAgain
<1>7. Under = <<>>
  <2>1. CASE Nested = 0
    BY <2>1 DEF Under
  <2>2. CASE LoopAgain /\ Nested # 0
    <3>1. Nested \in DOMAIN literals /\ FrameOK(literals[Nested])
      BY <1>2, <2>2 DEF Nesting
    <3>2. literals[Nested].kind \in {"call", "arms"}
      BY <2>2, <3>1 DEF LoopAgain
    <3>3. literals[Nested].under = <<>>
      BY <3>1, <3>2 DEF FrameOK
    <3> QED BY <2>2, <3>3 DEF Under, Innermost
  <2> QED BY <2>1, <2>2 DEF PolyFinish
<1>8. /\ verdict' \in {"accepted", "looped"} /\ UnconsumedIn(PolyNames) = {} /\ (verdict' = "looped" => ~Carried)
  BY DEF LoopAgain, PolyFinish
<1>9. UnconsumedIn(PolyNames)' = UnconsumedIn(PolyNames) /\ (Carried' <=> Carried)
  BY <1>1 DEF UnconsumedIn, Carried
<1>10. AtTheEnd'
  BY <1>3, <1>7, <1>8, <1>9 DEF AtTheEnd
<1> QED BY <1>4, <1>5, <1>6, <1>10 DEF PolyInvariant

LEMMA StutterKeeps ==
  ASSUME PolyInvariant, UNCHANGED polyVars
  PROVE  PolyInvariant'
<1>1. /\ verdict' = verdict /\ operands' = operands /\ locals' = locals /\ states' = states /\ borrows' = borrows /\ literals' = literals
      /\ running' = running /\ exec' = exec
  BY DEF polyVars, polyChecker
<1>2. /\ Nesting /\ OutsideKept /\ Running /\ Agrees /\ GroundKeeps /\ RunsAgain /\ AtTheEnd
  BY PolyHas
<1>3. /\ Nested' = Nested /\ Innermost' = Innermost /\ Under' = Under /\ Here' = Here /\ Turns' = Turns
  BY <1>1 DEF Nested, Innermost, Under, Here, Turns
<1>4. Nesting' /\ OutsideKept'
  BY <1>1, <1>2, <1>3 DEF Nesting, OutsideKept
<1>5. Running'
  BY <1>1, <1>2 DEF Running, Reached, Nested
<1>6. Agrees' /\ GroundKeeps' /\ RunsAgain'
  BY <1>1, <1>2, <1>3 DEF Agrees, GroundKeeps, RunsAgain
<1>7. AtTheEnd'
  BY <1>1, <1>2, <1>3 DEF AtTheEnd, UnconsumedIn, Carried
<1> QED BY <1>4, <1>5, <1>6, <1>7 DEF PolyInvariant

LEMMA WalkKeeps ==
  ASSUME Shapes = {}, PolyInvariant, [Walk]_polyVars
  PROVE  PolyInvariant'
<1>1. CASE PolyTerm
  BY <1>1, TermKeeps
<1>2. CASE OpenCall \/ OpenIf \/ OpenTimes
  BY <1>2, OpenPlainKeeps
<1>3. CASE OpenEliminator
  BY <1>3, OpenEliminatorKeeps
<1>4. CASE OpenGround
  BY <1>4, OpenGroundKeeps
<1>5. CASE EndCall
  BY <1>5, EndCallKeeps
<1>6. CASE SecondArm
  BY <1>6, SecondArmKeeps
<1>7. CASE EndArms
  <2>1. Innermost.kind \in {"arms", "times"}
    BY <1>7, ArmsIs
  <2> QED BY <1>7, <2>1, EndTwoArmsKeeps, EndTimesKeeps
<1>8. CASE EndGround
  BY <1>8, EndGroundKeeps
<1>9. CASE LoopAgain \/ PolyFinish
  BY <1>9, StopKeeps
<1>10. CASE UNCHANGED polyVars
  BY <1>10, StutterKeeps
<1> QED BY <1>1, <1>2, <1>3, <1>4, <1>5, <1>6, <1>7, <1>8, <1>9, <1>10 DEF Walk

\* While the body is walked its execution agrees with what the checker has
\* recorded, wherever it is, and a literal that runs again can be run again
\* (check/poly.rs: the walk of a generic body without the four shapes).
THEOREM PolyInvariance ==
  ASSUME Shapes = {}
  PROVE  PolySpec => []PolyInvariant
<1>1. WalkInit => PolyInvariant
  BY InitIs
<1>2. PolyInvariant /\ [Walk]_polyVars => PolyInvariant'
  BY WalkKeeps
<1> QED BY <1>1, <1>2, PTL DEF PolySpec

\* A linear value is in one place until it is disposed of, and once; a body
\* that is accepted, or that loops, has the others on its stack.
THEOREM LinearHeldOnce ==
  ASSUME Shapes = {}
  PROVE  PolySpec => []LinearOnce
<1>1. PolyInvariant => LinearOnce
  <2> SUFFICES ASSUME PolyInvariant PROVE LinearOnce
    OBVIOUS
  <2>1. Agrees /\ AtTheEnd /\ Placed
    BY PolyHas
  <2>2. "twice" \notin exec.wrong
    BY <2>1 DEF Agrees, ExecOK
  <2>3. ASSUME verdict # "walking", running, NEW a \in exec.alive PROVE a \in {v.at : v \in Values(exec)}
    <3>1. Sync(Here, exec) /\ UnconsumedIn(PolyNames) = {}
      BY <2>1, <2>3 DEF Agrees, AtTheEnd
    <3>2. ExecOK(exec)
      BY <3>1, SyncIs
    <3>3. PICK p \in DOMAIN Held(exec) : Linear(Held(exec)[p]) /\ Held(exec)[p].at = a
      BY <3>1 DEF Sync, Good, AllHeld
    <3>4. CASE \E i \in 1..Len(exec.vals) : p = InSlot(i)
      <4>1. PICK i \in 1..Len(exec.vals) : p = InSlot(i)
        BY <3>4
      <4>2. Held(exec)[p] = exec.vals[i] /\ i \in DOMAIN exec.vals
        BY <3>2, <4>1, HeldIs, ExecIs
      <4> QED BY <3>3, <4>2 DEF Values
    <3>5. CASE \E n \in PolyNames : p = InName(n) /\ n \in Bound(exec) \ exec.spent
      <4>1. PICK n \in PolyNames : p = InName(n) /\ n \in Bound(exec) \ exec.spent
        BY <3>5
      <4>2. Held(exec)[p] = exec.env[n] /\ exec.env[n] # None
        BY <3>2, <4>1, HeldIs DEF Bound
      <4>3. /\ Here.locals[n] # None /\ exec.env[n].slot = Here.locals[n] /\ exec.env[n] \in ValuesHere
            /\ Here.states[n] # "moved" /\ StateOK(Here)
        <5>1. Here.locals[n] # None
          BY <3>1, <4>2 DEF Sync, Matches, ScopeMatches
        <5>2. Here.states[n] # "moved"
          BY <3>1, <4>1 DEF Sync, Matches, SpentMatches
        <5> QED BY <3>1, <5>1, <5>2, SyncIs
      <4>4. ~IsCopy(Here.locals[n])
        BY <3>3, <4>2, <4>3, CopyIs
      <4>5. Here.states[n] \in {"live", "maybe"}
        BY <4>3, <4>4, StateIs, NoneIsNoValue DEF MoveStatesHere
      <4>6. Here.states = states
        BY <2>1, HereIs
      <4> QED BY <3>1, <4>5, <4>6 DEF UnconsumedIn
    <3> QED BY <3>2, <3>4, <3>5, HeldIs
  <2> QED BY <2>2, <2>3 DEF LinearOnce
<1> QED BY <1>1, PolyInvariance, PTL

\* No reference dangles, a mutable one borrowed from a local is the only one,
\* the borrow behind a reference in use is recorded, and none is carried over
\* the back-edge of a word that loops.
THEOREM ReferencesHeldSound ==
  ASSUME Shapes = {}
  PROVE  PolySpec => []ReferencesSound
<1>1. PolyInvariant => ReferencesSound
  <2> SUFFICES ASSUME PolyInvariant PROVE ReferencesSound
    OBVIOUS
  <2>1. Agrees /\ AtTheEnd /\ Placed /\ Nesting
    BY PolyHas
  <2>2. exec.wrong \cap {"dangling", "overlap"} = {}
    BY <2>1 DEF Agrees, ExecOK
  <2>3. ASSUME running, NEW v \in Values(exec), IsRef(v.slot), v.from # None
        PROVE  /\ [place |-> v.from, mutable |-> v.slot.kind = "mut"] \in borrows
               /\ \E i \in 1..Len(Here.stack) : IsRef(Here.stack[i])
    <3>1. Sync(Here, exec) /\ Here.borrows = borrows
      BY <2>1, <2>3, HereIs DEF Agrees
    <3>2. ExecOK(exec) /\ exec.vals \in Seq(ValuesHere)
      BY <3>1, SyncIs, ExecIs
    <3>3. PICK i \in 1..Len(exec.vals) : v = exec.vals[i]
      BY <3>2 DEF Values
    <3>4. InSlot(i) \in DOMAIN Held(exec) /\ Held(exec)[InSlot(i)] = v
      BY <3>2, <3>3, HeldIs
    <3>5. RecordOf(v) \in borrows
      BY <2>3, <3>1, <3>4 DEF Sync, Good, Recorded, Refers
    <3>6. i \in 1..Len(Here.stack) /\ v.slot = Here.stack[i]
      BY <3>1, <3>3, SyncIs
    <3> QED BY <2>3, <3>5, <3>6 DEF RecordOf
  <2>4. BorrowsKnown
    BY <2>3 DEF BorrowsKnown
  <2>5. ASSUME verdict = "looped", running, NEW v \in Values(exec), IsRef(v.slot), v.from # None PROVE FALSE
    <3>1. Under = <<>> /\ ~Carried
      BY <2>1, <2>5 DEF AtTheEnd
    <3>2. Here.stack = operands /\ operands \in Seq(SlotsHere)
      <4>1. operands \in Seq(SlotsHere)
        BY <2>1 DEF Nesting
      <4>2. <<>> \o operands = operands
        BY <4>1, ConcatEmptySeq
      <4> QED BY <2>1, <3>1, <4>1, <4>2, HereIs
    <3>3. borrows # {}
      BY <2>3, <2>5
    <3>4. PICK i \in 1..Len(operands) : IsRef(operands[i])
      BY <2>3, <2>5, <3>2
    <3>5. i \in DOMAIN operands
      BY <3>2, <3>4
    <3> QED BY <3>1, <3>3, <3>4, <3>5 DEF Carried
  <2> QED BY <2>2, <2>4, <2>5 DEF ReferencesSound
<1> QED BY <1>1, PolyInvariance, PTL

=============================================================================
