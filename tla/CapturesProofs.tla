--------------------------- MODULE CapturesProofs ---------------------------
(* Proofs about Captures, for bodies of every size.                          *)
EXTENDS Captures, Integers, SequenceTheorems, FiniteSetTheorems, NaturalsInduction, WellFoundedInduction, TLAPS

-----------------------------------------------------------------------------
(* The type invariant.                                                       *)

Scopes == [Locals -> Bindings \cup {Nothing}]
BranchesOpen ==
  [entry : Seq(SlotKinds), scope : Scopes, entryMoved : SUBSET Locals, entryDone : SUBSET Locals, arm : 1..2,
   first : Seq(SlotKinds), firstMoved : SUBSET Locals, pick : 1..2]
WalkTypesOK ==
  /\ slots \in Seq(SlotKinds) /\ bound \in Scopes
  /\ done \in SUBSET Locals /\ moved \in SUBSET Locals /\ granted \in SUBSET Locals
  /\ branch \in Seq(BranchesOpen) /\ Len(branch) <= 1 /\ terms \in Nat /\ phase \in {"body", "tail", "returned"}
ExecutionTypesOK ==
  /\ held \in Seq(ClosureValues) /\ places \in [Locals -> PlaceValues \cup {Nothing}]
  /\ heap \in [Ids \cup {Outer} -> ClosureValues] /\ gone \in SUBSET Ids /\ taken \in BOOLEAN
CapturesTypeOK == WalkTypesOK /\ ExecutionTypesOK
-----------------------------------------------------------------------------
(* What the execution holds is what the checker takes it to hold, in the     *)
(* scope of the walk, or, while the walk is in the arm not taken, in the one *)
(* the execution is left in.                                                 *)

\* What a closure has that may leave the frame.
Free(c) == ~c.bundle /\ \A p \in c.pts : p.st = Outer
Fits(surviving, c) == Escapable(surviving) => Free(c)

InScope(b) == {n \in Locals : b[n] # Nothing}
Places(b) == {n \in InScope(b) : b[n].kind \in {"lin", "car"}}
\* a reference is one of the caller or one of a place in scope
RootsOK(b) ==
  \A n \in InScope(b) : b[n].kind = "ref" =>
    IF b[n].root = Nothing THEN b[n].of = "car"
    ELSE b[n].root \in Places(b) /\ b[b[n].root].kind = b[n].of /\ b[b[n].root].level <= b[n].level
SlotsFit(sl, vs) ==
  /\ Len(vs) = Len(sl)
  /\ \A i \in DOMAIN sl : sl[i].kind # "lit" => Fits(sl[i].surviving, vs[i])
NamesFit(b, e, h) ==
  \A n \in InScope(b) :
    /\ e[n] # Nothing
    /\ b[n].kind = "fn" => Fits(b[n].surviving, e[n].clo)
    /\ b[n].kind \in {"lin", "car"} => e[n].st \in Ids
    /\ b[n].kind = "car" => Fits(b[n].surviving, h[e[n].st])
    /\ b[n].kind = "ref" => e[n].st = IF b[n].root = Nothing THEN Outer ELSE e[b[n].root].st
Apart(b, e) == \A m, n \in Places(b) : m # n => e[m].st # e[n].st
Agrees(sl, b, vs, e, h) == SlotsFit(sl, vs) /\ NamesFit(b, e, h) /\ Apart(b, e)

\* what the execution is to agree with
SeenSlots == IF taken THEN slots ELSE IF branch[1].arm = 1 THEN branch[1].entry ELSE branch[1].first
SeenScope == IF taken THEN bound ELSE branch[1].scope
\* an arm leaves the bindings outside as they were
ScopeKept ==
  /\ RootsOK(branch[1].scope)
  /\ \A n \in Locals :
       IF branch[1].scope[n] # Nothing THEN branch[1].scope[n].level = 0 /\ bound[n] = branch[1].scope[n]
       ELSE bound[n] # Nothing => bound[n].level = 1
WalkInv ==
  /\ RootsOK(bound)
  /\ Nesting = 0 => taken /\ \A n \in Scoped : bound[n].level = 0
  /\ Nesting = 1 => ScopeKept /\ (taken <=> branch[1].arm = branch[1].pick) /\ phase = "body"
FitInv ==
  /\ phase # "returned" => Agrees(SeenSlots, SeenScope, held, places, heap)
  /\ phase = "returned" => \A i \in DOMAIN held : Free(held[i])
  /\ Free(heap[Outer])
EscapeInv == CapturesTypeOK /\ WalkInv /\ FitInv
-----------------------------------------------------------------------------
(* Sequences, and the least of a set of storages.                            *)

LEMMA LeastOfNaturals ==
  ASSUME NEW S \in SUBSET Nat, S # {}
  PROVE  \E n \in S : \A k \in S : n <= k
<1> DEFINE Less == OpToRel(<, Nat)
<1>1. IsWellFoundedOn(Less, Nat)
  BY NatLessThanWellFounded
<1>2. PICK n \in S : \A k \in S : <<k, n>> \notin Less
  <2> HIDE DEF Less
  <2> QED BY <1>1, WFMin
<1>3. \A k \in S : ~(k < n)
  BY <1>2 DEF OpToRel
<1> QED BY <1>3

LEMMA LeastIsFree ==
  ASSUME FreeStorages # {}
  PROVE  Min(FreeStorages) \in FreeStorages
<1>1. FreeStorages \subseteq Nat
  BY CapturesAssumption DEF FreeStorages, Ids
<1>2. \E n \in FreeStorages : \A k \in FreeStorages : n <= k
  BY <1>1, LeastOfNaturals
<1> QED BY <1>2 DEF Min

LEMMA PushedIs ==
  ASSUME NEW S, NEW sl \in Seq(S), NEW x \in S
  PROVE  /\ Append(sl, x) \in Seq(S) /\ Len(Append(sl, x)) = Len(sl) + 1
         /\ DOMAIN Append(sl, x) = DOMAIN sl \cup {Len(sl) + 1} /\ Len(sl) + 1 \notin DOMAIN sl
         /\ \A i \in DOMAIN sl : Append(sl, x)[i] = sl[i]
         /\ Append(sl, x)[Len(sl) + 1] = x
OBVIOUS

LEMMA PoppedIs ==
  ASSUME NEW S, NEW sl \in Seq(S), sl # <<>>
  PROVE  /\ Popped(sl) \in Seq(S) /\ Len(Popped(sl)) = Len(sl) - 1
         /\ DOMAIN Popped(sl) = DOMAIN sl \ {Len(sl)} /\ Len(sl) \in DOMAIN sl
         /\ \A i \in DOMAIN Popped(sl) : Popped(sl)[i] = sl[i]
         /\ sl[Len(sl)] \in S
<1>1. Len(sl) \in Nat \ {0} /\ DOMAIN sl = 1..Len(sl)
  BY EmptySeq
<1>2. /\ Popped(sl) = [i \in 1..Len(sl) - 1 |-> sl[i]]
  BY <1>1 DEF Popped
<1>3. /\ Popped(sl) \in Seq(S) /\ Len(Popped(sl)) = Len(sl) - 1
  BY <1>1 DEF Popped
<1> QED BY <1>1, <1>2, <1>3

LEMMA ReplacedIs ==
  ASSUME NEW S, NEW sl \in Seq(S), NEW i \in DOMAIN sl, NEW x \in S
  PROVE  /\ [sl EXCEPT ![i] = x] \in Seq(S) /\ Len([sl EXCEPT ![i] = x]) = Len(sl)
         /\ DOMAIN [sl EXCEPT ![i] = x] = DOMAIN sl
         /\ [sl EXCEPT ![i] = x][i] = x
         /\ \A k \in DOMAIN sl : k # i => [sl EXCEPT ![i] = x][k] = sl[k]
BY ExceptSeq

-----------------------------------------------------------------------------
(* What the parts of an agreement need.                                      *)

LEMMA EscapableUnion ==
  ASSUME NEW s \in SurvivingSets, NEW t \in SurvivingSets
  PROVE  /\ UnionSurviving(s, t) \in SurvivingSets
         /\ Escapable(UnionSurviving(s, t)) => Escapable(s) /\ Escapable(t)
BY DEF SurvivingSets, UnionSurviving, Escapable, FrameMembers

LEMMA NoSetIs == NoSet \in SurvivingSets /\ Escapable(NoSet) /\ NoClosure \in ClosureValues /\ Free(NoClosure)
BY DEF NoSet, SurvivingSets, Escapable, FrameMembers, NoClosure, ClosureValues, Free

LEMMA SlotsPushed ==
  ASSUME NEW sl \in Seq(SlotKinds), NEW vs \in Seq(ClosureValues), SlotsFit(sl, vs),
         NEW x \in SlotKinds, NEW c \in ClosureValues, x.kind # "lit" => Fits(x.surviving, c)
  PROVE  SlotsFit(Append(sl, x), Append(vs, c))
<1>1. Len(vs) = Len(sl) /\ DOMAIN vs = DOMAIN sl
  BY DEF SlotsFit
<1> DEFINE sl2 == Append(sl, x)
           vs2 == Append(vs, c)
<1>2. /\ Len(sl2) = Len(sl) + 1 /\ DOMAIN sl2 = DOMAIN sl \cup {Len(sl) + 1}
      /\ \A i \in DOMAIN sl : sl2[i] = sl[i]
      /\ sl2[Len(sl) + 1] = x
  BY PushedIs
<1>3. /\ Len(vs2) = Len(sl) + 1
      /\ \A i \in DOMAIN sl : vs2[i] = vs[i]
      /\ vs2[Len(sl) + 1] = c
  BY PushedIs, <1>1
<1> HIDE DEF sl2, vs2
<1>4. SlotsFit(sl2, vs2)
  BY <1>2, <1>3 DEF SlotsFit
<1> QED BY <1>4 DEF sl2, vs2

LEMMA SlotsPopped ==
  ASSUME NEW sl \in Seq(SlotKinds), NEW vs \in Seq(ClosureValues), SlotsFit(sl, vs), sl # <<>>
  PROVE  SlotsFit(Popped(sl), Popped(vs)) /\ vs # <<>> /\ vs[Len(vs)] \in ClosureValues /\ Popped(vs) \in Seq(ClosureValues)
         /\ (sl[Len(sl)].kind # "lit" => Fits(sl[Len(sl)].surviving, vs[Len(vs)]))
<1>1. Len(vs) = Len(sl) /\ DOMAIN vs = DOMAIN sl
  BY DEF SlotsFit
<1>2. vs # <<>>
  BY <1>1, EmptySeq
<1>3. /\ Len(Popped(sl)) = Len(sl) - 1 /\ DOMAIN Popped(sl) = DOMAIN sl \ {Len(sl)} /\ Len(sl) \in DOMAIN sl
      /\ \A i \in DOMAIN Popped(sl) : Popped(sl)[i] = sl[i]
  BY PoppedIs
<1>4. /\ Popped(vs) \in Seq(ClosureValues) /\ Len(Popped(vs)) = Len(vs) - 1 /\ DOMAIN Popped(vs) = DOMAIN vs \ {Len(vs)}
      /\ \A i \in DOMAIN Popped(vs) : Popped(vs)[i] = vs[i]
      /\ vs[Len(vs)] \in ClosureValues
  BY PoppedIs, <1>2
<1> QED BY <1>1, <1>2, <1>3, <1>4 DEF SlotsFit

LEMMA SlotsReplaced ==
  ASSUME NEW sl \in Seq(SlotKinds), NEW vs \in Seq(ClosureValues), SlotsFit(sl, vs), NEW i \in DOMAIN sl,
         NEW x \in SlotKinds, NEW c \in ClosureValues, x.kind # "lit" => Fits(x.surviving, c)
  PROVE  SlotsFit([sl EXCEPT ![i] = x], [vs EXCEPT ![i] = c]) /\ [vs EXCEPT ![i] = c] \in Seq(ClosureValues)
<1> DEFINE sl2 == [sl EXCEPT ![i] = x]
           vs2 == [vs EXCEPT ![i] = c]
<1>1. Len(vs) = Len(sl) /\ DOMAIN vs = DOMAIN sl
  BY DEF SlotsFit
<1>2. /\ Len(sl2) = Len(sl) /\ DOMAIN sl2 = DOMAIN sl
      /\ sl2[i] = x /\ \A k \in DOMAIN sl : k # i => sl2[k] = sl[k]
  BY ReplacedIs
<1>3. /\ vs2 \in Seq(ClosureValues) /\ Len(vs2) = Len(vs)
      /\ vs2[i] = c /\ \A k \in DOMAIN vs : k # i => vs2[k] = vs[k]
  BY ReplacedIs, <1>1
<1> HIDE DEF sl2, vs2
<1>4. SlotsFit(sl2, vs2)
  BY <1>1, <1>2, <1>3 DEF SlotsFit
<1> QED BY <1>3, <1>4 DEF sl2, vs2

\* a name is bound, to a value that is what its binding says
ValueFits(b, e, h, v, w) ==
  /\ v.kind = "fn" => Fits(v.surviving, w.clo)
  /\ v.kind \in {"lin", "car"} => w.st \in Ids /\ \A m \in Places(b) : e[m].st # w.st
  /\ v.kind = "car" => Fits(v.surviving, h[w.st])
  /\ v.kind = "ref" => v.root \in Places(b) /\ w.st = e[v.root].st
LEMMA NamesBound ==
  ASSUME NEW b \in Scopes, NEW e, DOMAIN e = Locals, NEW h, NamesFit(b, e, h), Apart(b, e), RootsOK(b),
         NEW n \in Locals, b[n] = Nothing, NEW v \in Bindings, NEW w \in PlaceValues, NEW h2,
         \A m \in Places(b) : h2[e[m].st] = h[e[m].st], ValueFits(b, e, h2, v, w)
  PROVE  NamesFit([b EXCEPT ![n] = v], [e EXCEPT ![n] = w], h2) /\ Apart([b EXCEPT ![n] = v], [e EXCEPT ![n] = w])
<1> DEFINE b2 == [b EXCEPT ![n] = v]
           e2 == [e EXCEPT ![n] = w]
<1>1. v # Nothing /\ w # Nothing /\ Nothing \notin Locals
  BY CapturesAssumption
<1>2. /\ b2[n] = v /\ \A m \in Locals : m # n => b2[m] = b[m]
      /\ e2[n] = w /\ \A m \in Locals : m # n => e2[m] = e[m]
  BY DEF Scopes
<1>10. /\ v.kind = "fn" => Fits(v.surviving, w.clo)
       /\ v.kind \in {"lin", "car"} => w.st \in Ids /\ \A m \in Places(b) : e[m].st # w.st
       /\ v.kind = "car" => Fits(v.surviving, h2[w.st])
       /\ v.kind = "ref" => v.root \in Places(b) /\ w.st = e[v.root].st
  BY DEF ValueFits
<1> HIDE DEF b2, e2
<1>3. InScope(b2) = InScope(b) \cup {n} /\ n \notin InScope(b)
  BY <1>1, <1>2 DEF InScope
<1>4. \A m \in Places(b2) : m \in Places(b) \/ (m = n /\ v.kind \in {"lin", "car"})
  BY <1>2, <1>3 DEF Places, InScope
<1>5. Apart(b2, e2)
  BY <1>2, <1>3, <1>4, <1>10 DEF Apart, Places, InScope
<1>6. ASSUME NEW m \in InScope(b2) PROVE
        /\ e2[m] # Nothing
        /\ b2[m].kind = "fn" => Fits(b2[m].surviving, e2[m].clo)
        /\ b2[m].kind \in {"lin", "car"} => e2[m].st \in Ids
        /\ b2[m].kind = "car" => Fits(b2[m].surviving, h2[e2[m].st])
        /\ b2[m].kind = "ref" => e2[m].st = IF b2[m].root = Nothing THEN Outer ELSE e2[b2[m].root].st
  <2>1. CASE m = n
    <3>1. v.kind = "ref" => v.root # Nothing /\ v.root # n /\ v.root \in Locals
      BY <1>1, <1>3, <1>10 DEF Places, InScope
    <3> QED BY <2>1, <1>1, <1>2, <1>10, <3>1
  <2>2. CASE m # n
    <3>1. m \in InScope(b) /\ b2[m] = b[m] /\ e2[m] = e[m]
      BY <2>2, <1>2, <1>3 DEF InScope
    <3>2. b[m].kind = "ref" /\ b[m].root # Nothing => b[m].root \in Locals /\ b[m].root # n
      BY <3>1, <1>3 DEF RootsOK, Places, InScope
    <3>3. b[m].kind = "car" => m \in Places(b)
      BY <3>1 DEF Places
    <3> QED BY <3>1, <3>2, <3>3, <1>2 DEF NamesFit
  <2> QED BY <2>1, <2>2
<1>7. NamesFit(b2, e2, h2)
  BY <1>6 DEF NamesFit
<1> QED BY <1>5, <1>7 DEF b2, e2

\* what a place holds is left as it was, but for the set it carries
LEMMA NamesStored ==
  ASSUME NEW b \in Scopes, NEW e, NEW h, NamesFit(b, e, h), Apart(b, e), RootsOK(b),
         NEW n \in Places(b), b[n].kind = "car", NEW set \in SurvivingSets, NEW c, Fits(set, c), DOMAIN h = Ids \cup {Outer}
  PROVE  LET b2 == [b EXCEPT ![n].surviving = UnionSurviving(@, set)]  h2 == [h EXCEPT ![e[n].st] = c] IN
         NamesFit(b2, e, h2) /\ Apart(b2, e) /\ RootsOK(b2)
<1> DEFINE b2 == [b EXCEPT ![n].surviving = UnionSurviving(@, set)]
           h2 == [h EXCEPT ![e[n].st] = c]
<1>1. n \in Locals /\ b[n] \in Bindings /\ b[n].surviving \in SurvivingSets /\ n \in InScope(b)
  BY DEF Places, InScope, Scopes, Bindings
<1>2. e[n].st \in Ids
  BY <1>1 DEF NamesFit
<1>3. /\ b2[n] = [b[n] EXCEPT !.surviving = UnionSurviving(b[n].surviving, set)]
      /\ \A m \in Locals : m # n => b2[m] = b[m]
      /\ h2[e[n].st] = c /\ \A s \in Ids \cup {Outer} : s # e[n].st => h2[s] = h[s]
  BY <1>1, <1>2 DEF Scopes
<1>4. /\ b2[n] \in Bindings /\ b2[n].kind = b[n].kind /\ b2[n].root = b[n].root /\ b2[n].of = b[n].of
      /\ b2[n].level = b[n].level /\ b2[n].surviving = UnionSurviving(b[n].surviving, set)
  BY <1>1, <1>3, EscapableUnion DEF Bindings
<1> HIDE DEF b2, h2
<1>5. /\ InScope(b2) = InScope(b) /\ Places(b2) = Places(b)
      /\ \A m \in Locals : m \in InScope(b) => b2[m].kind = b[m].kind /\ b2[m].root = b[m].root
                                               /\ b2[m].of = b[m].of /\ b2[m].level = b[m].level
  <2>1. b2[n] # Nothing /\ b[n] # Nothing
    BY <1>1, <1>4, CapturesAssumption
  <2>2. InScope(b2) = InScope(b)
    BY <2>1, <1>3, <1>1 DEF InScope
  <2> QED BY <2>2, <1>3, <1>4, <1>1 DEF InScope, Places
<1>6. Apart(b2, e)
  BY <1>5 DEF Apart
<1>7. RootsOK(b2)
  BY <1>5 DEF RootsOK, Places, InScope
<1>8. Fits(b2[n].surviving, c) /\ Fits(b2[n].surviving, h2[e[n].st])
  BY <1>1, <1>3, <1>4, EscapableUnion DEF Fits
<1>9. NamesFit(b2, e, h2)
  <2> SUFFICES ASSUME NEW m \in InScope(b2)
               PROVE  /\ e[m] # Nothing
                      /\ b2[m].kind = "fn" => Fits(b2[m].surviving, e[m].clo)
                      /\ b2[m].kind \in {"lin", "car"} => e[m].st \in Ids
                      /\ b2[m].kind = "car" => Fits(b2[m].surviving, h2[e[m].st])
                      /\ b2[m].kind = "ref" => e[m].st = IF b2[m].root = Nothing THEN Outer ELSE e[b2[m].root].st
    BY DEF NamesFit
  <2>1. CASE m = n
    BY <2>1, <1>1, <1>4, <1>8, <1>2, <1>5 DEF NamesFit
  <2>2. CASE m # n
    <3>1. m \in InScope(b) /\ m \in Locals /\ b2[m] = b[m]
      BY <2>2, <1>3, <1>5 DEF InScope
    <3>2. b[m].kind = "car" => m \in Places(b) /\ e[m].st # e[n].st /\ e[m].st \in Ids
      BY <3>1, <2>2 DEF Places, Apart, NamesFit
    <3> QED BY <3>1, <3>2, <1>3 DEF NamesFit
  <2> QED BY <2>1, <2>2
<1> QED BY <1>6, <1>7, <1>9 DEF b2, h2

\* names go out of scope, and nothing in scope is rooted in them
LEMMA NamesLeft ==
  ASSUME NEW b \in Scopes, NEW e, DOMAIN e = Locals, NEW h, NamesFit(b, e, h), Apart(b, e), NEW b2 \in Scopes, RootsOK(b2),
         \A n \in InScope(b2) : n \in InScope(b) /\ b2[n] = b[n],
         NEW e2, \A n \in InScope(b2) : e2[n] = e[n]
  PROVE  NamesFit(b2, e2, h) /\ Apart(b2, e2)
<1>1. Places(b2) \subseteq Places(b) /\ Places(b2) \subseteq InScope(b2)
  BY DEF Places
<1>2. Apart(b2, e2)
  BY <1>1 DEF Apart
<1>3. ASSUME NEW n \in InScope(b2) PROVE
        /\ e2[n] # Nothing
        /\ b2[n].kind = "fn" => Fits(b2[n].surviving, e2[n].clo)
        /\ b2[n].kind \in {"lin", "car"} => e2[n].st \in Ids
        /\ b2[n].kind = "car" => Fits(b2[n].surviving, h[e2[n].st])
        /\ b2[n].kind = "ref" => e2[n].st = IF b2[n].root = Nothing THEN Outer ELSE e2[b2[n].root].st
  <2>1. b2[n].kind = "ref" /\ b2[n].root # Nothing => e2[b2[n].root] = e[b2[n].root]
    BY <1>1 DEF RootsOK
  <2> QED BY <2>1 DEF NamesFit
<1> QED BY <1>2, <1>3 DEF NamesFit

-----------------------------------------------------------------------------
(* A closure is no freer than the set of its captures says.                  *)

LEMMA ClosureFits ==
  ASSUME bound \in Scopes, places \in [Locals -> PlaceValues \cup {Nothing}], heap \in [Ids \cup {Outer} -> ClosureValues],
         RootsOK(bound), NamesFit(bound, places, heap),
         NEW l \in LiteralBodies, NEW owning \in BOOLEAN, NEW escaping, Admitted(l, escaping, owning)
  PROVE  /\ Surviving(l, owning) \in SurvivingSets /\ Closure(l, owning) \in ClosureValues
         /\ Fits(Surviving(l, owning), Closure(l, owning))
<1> DEFINE kept == {n \in Captured(l) : bound[n].kind = "ref" \/ ~owning}
           copied == {heap[places[n].st] : n \in {m \in Captured(l) : owning /\ bound[m].kind = "car"}}
           owns == {places[n].st : n \in {m \in Captured(l) : Moves(m, owning)}}
           s == Surviving(l, owning)
           c == Closure(l, owning)
<1>1. \A n \in Captured(l) : n \in InScope(bound) /\ bound[n] \in Bindings /\ bound[n].kind # "fn"
  BY DEF Admitted, Scoped, InScope, Scopes
<1>2. \A n \in Captured(l) : places[n] \in PlaceValues /\ places[n].st \in Ids \cup {Outer}
  BY <1>1 DEF NamesFit, InScope, PlaceValues
<1>3. Bundle(l, owning) \in BOOLEAN
  BY DEF Bundle
<1>4. s.members = {<<n, FrameRooted(n)>> : n \in {m \in Captured(l) : ~Moves(m, owning)}} /\ s.bundle = Bundle(l, owning)
      /\ s = [members |-> s.members, bundle |-> s.bundle]
  BY DEF Surviving
<1>5. s \in SurvivingSets
  <2>1. \A n \in Captured(l) : FrameRooted(n) \in BOOLEAN /\ n \in Locals
    BY <1>1 DEF FrameRooted, InFrame, InScope
  <2>2. s.members \in SUBSET (Locals \X BOOLEAN)
    BY <2>1, <1>4
  <2> QED BY <2>2, <1>3, <1>4 DEF SurvivingSets
<1>6. /\ c.pts = {Pointer(n) : n \in kept} \cup UNION {d.pts : d \in copied}
      /\ c.bundle = (Bundle(l, owning) \/ \E d \in copied : d.bundle) /\ c.owns = owns
      /\ c = [pts |-> c.pts, bundle |-> c.bundle, owns |-> c.owns]
  BY DEF Closure
<1>7. copied \subseteq ClosureValues
  BY <1>2
<1>8. c \in ClosureValues
  <2>1. \A n \in kept : Pointer(n) \in Pointers
    BY <1>1, <1>2 DEF Pointer, Pointers, InScope
  <2>2. UNION {d.pts : d \in copied} \subseteq Pointers
    BY <1>7 DEF ClosureValues
  <2>3. owns \subseteq Ids
    BY <1>1 DEF Moves, NamesFit
  <2>4. c.pts \subseteq Pointers /\ c.bundle \in BOOLEAN /\ c.owns \in SUBSET Ids
    BY <2>1, <2>2, <2>3, <1>3, <1>6
  <2> QED BY <2>4, <1>6 DEF ClosureValues
<1>9. ASSUME Escapable(s) PROVE Free(c)
  <2>1. \A n \in Captured(l) : ~Moves(n, owning) => ~FrameRooted(n)
    <3> SUFFICES ASSUME NEW n \in Captured(l), ~Moves(n, owning), FrameRooted(n) PROVE FALSE
      OBVIOUS
    <3>1. <<n, FrameRooted(n)>> \in s.members
      BY <1>4
    <3>2. <<n, FrameRooted(n)>>[2] <=> FrameRooted(n)
      OBVIOUS
    <3>3. FrameMembers(s) = {}
      BY <1>9 DEF Escapable
    <3>4. \A m \in s.members : ~m[2]
      BY <3>3 DEF FrameMembers
    <3> QED BY <3>1, <3>2, <3>4
  <2>2. copied = {}
    BY <2>1 DEF Moves, FrameRooted
  <2>3. \A n \in kept : bound[n].kind = "ref" /\ bound[n].root = Nothing
    <3> SUFFICES ASSUME NEW n \in kept PROVE bound[n].kind = "ref" /\ bound[n].root = Nothing
      OBVIOUS
    <3>1. ~Moves(n, owning) /\ ~FrameRooted(n)
      BY <2>1 DEF Moves
    <3>2. bound[n].kind = "ref" /\ bound[n].root \notin Scoped
      BY <3>1, <1>1 DEF FrameRooted, InFrame, Bindings
    <3> QED BY <3>2, <1>1 DEF RootsOK, Places, InScope, Scoped
  <2>4. \A n \in kept : Pointer(n).st = Outer
    BY <2>3, <1>1 DEF NamesFit, Pointer
  <2>5. \A p \in c.pts : p.st = Outer
    BY <1>6, <2>2, <2>4
  <2>6. ~c.bundle
    BY <1>6, <1>9, <1>4, <2>2 DEF Escapable
  <2> QED BY <2>5, <2>6 DEF Free
<1> QED BY <1>5, <1>8, <1>9 DEF Fits

-----------------------------------------------------------------------------
(* What a step of the execution leaves as it was.                            *)

Executing(vs, e, h, d) ==
  /\ vs \in Seq(ClosureValues) /\ e \in [Locals -> PlaceValues \cup {Nothing}]
  /\ h \in [Ids \cup {Outer} -> ClosureValues] /\ d \subseteq Ids

LEMMA Settled ==
  ASSUME NEW vs, NEW e, NEW h, NEW d, Executing(vs, e, h, d), gone \in SUBSET Ids, Settle(vs, e, h, d)
  PROVE  /\ held' = vs /\ places' = e /\ heap' \in [Ids \cup {Outer} -> ClosureValues] /\ gone' \in SUBSET Ids
         /\ gone' \subseteq gone \cup d /\ heap'[Outer] = h[Outer]
         /\ \A n \in Locals : e[n] # Nothing => heap'[e[n].st] = h[e[n].st]
<1>1. \A n \in Locals : e[n] # Nothing => e[n].st \in PointedTo(vs, e, h) /\ e[n].st \in Ids \cup {Outer}
  BY DEF PointedTo, Executing, PlaceValues
<1>2. PointedTo(vs, e, h) \subseteq Ids \cup {Outer}
  <2> DEFINE all == {vs[i] : i \in DOMAIN vs} \cup {e[n].clo : n \in {m \in Locals : e[m] # Nothing}}
                      \cup {h[s] : s \in DOMAIN h}
             U == UNION {{p.st : p \in c.pts} \cup c.owns : c \in all}
  <2>1. all \subseteq ClosureValues
    <3>1. \A i \in DOMAIN vs : vs[i] \in ClosureValues
      BY DEF Executing
    <3>2. \A n \in Locals : e[n] # Nothing => e[n].clo \in ClosureValues
      BY DEF Executing, PlaceValues
    <3>3. \A s \in DOMAIN h : h[s] \in ClosureValues
      BY DEF Executing
    <3> QED BY <3>1, <3>2, <3>3
  <2>2. \A c \in ClosureValues : {p.st : p \in c.pts} \cup c.owns \subseteq Ids \cup {Outer}
    BY DEF ClosureValues, Pointers
  <2>3. U \subseteq Ids \cup {Outer}
    <3> HIDE DEF all
    <3> QED BY <2>1, <2>2
  <2>4. PointedTo(vs, e, h) = U \cup {e[n].st : n \in {m \in Locals : e[m] # Nothing}}
    BY DEF PointedTo
  <2> HIDE DEF U
  <2> QED BY <2>3, <2>4, <1>1
<1>3. NoClosure \in ClosureValues
  BY NoSetIs
<1>4. /\ held' = vs /\ places' = e
      /\ heap' = [s \in DOMAIN h |-> IF s \in PointedTo(vs, e, h) \cup {Outer} THEN h[s] ELSE NoClosure]
      /\ gone' = (gone \cup d) \cap PointedTo(vs, e, h) /\ DOMAIN h = Ids \cup {Outer}
  BY DEF Settle, Executing
<1>5. /\ heap' \in [Ids \cup {Outer} -> ClosureValues] /\ heap'[Outer] = h[Outer]
  BY <1>3, <1>4 DEF Executing
<1>6. \A n \in Locals : e[n] # Nothing => heap'[e[n].st] = h[e[n].st]
  BY <1>1, <1>4
<1>7. gone' \in SUBSET Ids
  BY <1>4 DEF Executing
<1> QED BY <1>4, <1>5, <1>6, <1>7

\* the agreement survives the step
LEMMA AgreesSettled ==
  ASSUME NEW sl, NEW b, NEW vs, NEW e, NEW h, NEW d, Executing(vs, e, h, d), gone \in SUBSET Ids, Settle(vs, e, h, d),
         Agrees(sl, b, vs, e, h)
  PROVE  Agrees(sl, b, held', places', heap')
<1>1. /\ held' = vs /\ places' = e
      /\ \A n \in Locals : e[n] # Nothing => heap'[e[n].st] = h[e[n].st]
  BY Settled
<1>2. \A n \in InScope(b) : heap'[e[n].st] = h[e[n].st]
  BY <1>1 DEF Agrees, NamesFit, InScope
<1>3. NamesFit(b, e, heap')
  BY <1>2 DEF Agrees, NamesFit
<1> QED BY <1>1, <1>3 DEF Agrees

\* a term leaves the agreement, provided that it does what the checker takes
\* it to do where it is run
LEMMA TermFits ==
  ASSUME EscapeInv, phase = "body", phase' = phase, branch' = branch, NEW vs, NEW e, NEW h, NEW d, Execute(vs, e, h, d),
         taken => Executing(vs, e, h, d) /\ Agrees(slots', bound', vs, e, h) /\ Free(h[Outer])
  PROVE  ExecutionTypesOK' /\ taken' = taken /\ FitInv'
<1>1. ExecutionTypesOK /\ taken' = taken
  BY DEF EscapeInv, CapturesTypeOK, Execute
<1>2. CASE taken
  <2>1. Settle(vs, e, h, d)
    BY <1>2 DEF Execute
  <2>2. Executing(vs, e, h, d) /\ gone \in SUBSET Ids /\ taken' \in BOOLEAN
    BY <1>1, <1>2 DEF ExecutionTypesOK
  <2>3. Agrees(slots', bound', held', places', heap')
    BY <1>2, <2>1, <2>2, AgreesSettled
  <2>4. SeenSlots' = slots' /\ SeenScope' = bound'
    BY <1>1, <1>2 DEF SeenSlots, SeenScope
  <2>5. /\ held' = vs /\ places' = e /\ heap' \in [Ids \cup {Outer} -> ClosureValues] /\ gone' \in SUBSET Ids
        /\ heap'[Outer] = h[Outer]
    BY <2>1, <2>2, Settled
  <2>6. ExecutionTypesOK'
    BY <2>2, <2>5 DEF ExecutionTypesOK, Executing
  <2>7. Free(heap[Outer])'
    BY <1>2, <2>5 DEF Free, Outer
  <2> QED BY <1>1, <2>6, <2>3, <2>4, <2>7 DEF FitInv
<1>3. CASE ~taken
  <2>1. UNCHANGED <<held, places, heap, gone, taken, branch, phase>>
    BY <1>1, <1>3 DEF Execute
  <2>2. SeenSlots' = SeenSlots /\ SeenScope' = SeenScope
    BY <1>3, <2>1 DEF SeenSlots, SeenScope
  <2>3. ExecutionTypesOK'
    BY <1>1, <2>1 DEF ExecutionTypesOK
  <2>4. FitInv'
    BY <2>1, <2>2 DEF EscapeInv, FitInv, Agrees, SlotsFit, NamesFit, Apart, Free
  <2> QED BY <1>1, <2>3, <2>4
<1> QED BY <1>1, <1>2, <1>3 DEF ExecutionTypesOK

\* what is seen while the execution goes along
LEMMA SeenTaken ==
  ASSUME EscapeInv, taken, phase # "returned"
  PROVE  SlotsFit(slots, held) /\ NamesFit(bound, places, heap) /\ Apart(bound, places) /\ Free(heap[Outer])
BY DEF EscapeInv, FitInv, SeenSlots, SeenScope, Agrees

-----------------------------------------------------------------------------
(* The bindings of the walk.                                                 *)

LEMMA LevelsOK ==
  ASSUME EscapeInv
  PROVE  /\ Nesting \in 0..1 /\ RootsOK(bound) /\ \A n \in InScope(bound) : bound[n] \in Bindings /\ bound[n].level \in 0..Nesting
         /\ Len(branch) = Nesting
<1>1. Nesting \in 0..1 /\ RootsOK(bound)
  <2>1. branch \in Seq(BranchesOpen) /\ Len(branch) <= 1
    BY DEF EscapeInv, CapturesTypeOK, WalkTypesOK
  <2>2. Len(branch) \in Nat
    BY <2>1
  <2>3. \A k \in Nat : k <= 1 => k \in 0..1
    OBVIOUS
  <2>4. RootsOK(bound)
    BY DEF EscapeInv, WalkInv
  <2> QED BY <2>1, <2>2, <2>3, <2>4, Zenon DEF Nesting
<1>2. \A n \in InScope(bound) : bound[n] \in Bindings /\ bound[n].level \in 0..1
  BY DEF EscapeInv, CapturesTypeOK, WalkTypesOK, InScope, Scopes, Bindings
<1>3. Nesting = 0 => \A n \in InScope(bound) : bound[n].level = 0
  BY DEF EscapeInv, WalkInv, Scoped, InScope
<1> QED BY <1>1, <1>2, <1>3 DEF Nesting

LEMMA BoundSame ==
  ASSUME EscapeInv, bound' = bound, branch' = branch, taken' = taken, phase' = phase
  PROVE  WalkInv'
BY DEF EscapeInv, WalkInv, RootsOK, Places, InScope, ScopeKept, Nesting, Scoped

LEMMA BoundNew ==
  ASSUME EscapeInv, branch' = branch, taken' = taken, phase' = phase, NEW n \in Locals, bound[n] = Nothing,
         NEW v \in Bindings, v.level = Nesting, bound' = [bound EXCEPT ![n] = v],
         v.kind = "ref" => v.root \in Places(bound) /\ bound[v.root].kind = v.of
  PROVE  WalkInv' /\ bound' \in Scopes
<1>1. bound \in Scopes /\ WalkInv /\ v # Nothing /\ Nothing \notin Locals
  BY CapturesAssumption DEF EscapeInv, CapturesTypeOK, WalkTypesOK
<1>2. bound' \in Scopes /\ bound'[n] = v /\ \A m \in Locals : m # n => bound'[m] = bound[m]
  BY <1>1 DEF Scopes
<1>3. InScope(bound') = InScope(bound) \cup {n} /\ n \notin InScope(bound)
  BY <1>1, <1>2 DEF InScope
<1>4. \A m \in Places(bound) : m \in Places(bound') /\ bound'[m] = bound[m] /\ m # n
  BY <1>2, <1>3 DEF Places, InScope
<1>5. RootsOK(bound')
  <2> SUFFICES ASSUME NEW m \in InScope(bound'), bound'[m].kind = "ref"
               PROVE IF bound'[m].root = Nothing THEN bound'[m].of = "car"
                     ELSE bound'[m].root \in Places(bound') /\ bound'[bound'[m].root].kind = bound'[m].of
                          /\ bound'[bound'[m].root].level <= bound'[m].level
    BY DEF RootsOK
  <2>1. CASE m = n
    <3>1. v.root \in Places(bound) /\ bound[v.root].kind = v.of /\ v.root \in Locals /\ v.root \in InScope(bound)
      BY <2>1, <1>2 DEF Places, InScope
    <3>2. bound[v.root].level <= v.level
      BY <3>1, LevelsOK
    <3> QED BY <2>1, <3>1, <3>2, <1>1, <1>2, <1>4
  <2>2. CASE m # n
    <3>1. m \in InScope(bound) /\ m \in Locals /\ bound'[m] = bound[m]
      BY <2>2, <1>2, <1>3 DEF InScope
    <3> QED BY <3>1, <1>4, <1>1 DEF WalkInv, RootsOK
  <2> QED BY <2>1, <2>2
<1>6. Nesting' = Nesting /\ Scoped = InScope(bound) /\ Scoped' = InScope(bound')
  BY DEF Nesting, Scoped, InScope
<1>7. Nesting' = 0 => taken' /\ \A m \in Scoped' : bound'[m].level = 0
  BY <1>1, <1>2, <1>3, <1>6 DEF WalkInv, InScope
<1>8. Nesting' = 1 => ScopeKept' /\ (taken' <=> branch'[1].arm = branch'[1].pick) /\ phase' = "body"
  <2> SUFFICES ASSUME Nesting = 1 PROVE ScopeKept'
    BY <1>1, <1>6 DEF WalkInv
  <2>1. ScopeKept
    BY <1>1 DEF WalkInv
  <2>2. branch[1].scope[n] = Nothing
    BY <2>1 DEF ScopeKept
  <2>3. RootsOK(branch'[1].scope)
    BY <2>1 DEF ScopeKept
  <2> QED BY <2>1, <2>2, <2>3, <1>1, <1>2 DEF ScopeKept
<1> QED BY <1>2, <1>5, <1>7, <1>8 DEF WalkInv

LEMMA DeadTyped ==
  ASSUME WalkTypesOK, NEW enough \in SUBSET SUBSET Locals, Dead(enough)
  PROVE  done' \in SUBSET Locals /\ granted' \in SUBSET Locals
<1>1. PICK d \in enough : done' = done \cup d
                          /\ granted' = IF Nesting = 1 THEN granted \cup {n \in d : bound[n].level = 0} ELSE granted
  BY DEF Dead
<1> QED BY <1>1 DEF WalkTypesOK

LEMMA HoldingIn == Holding \subseteq Locals
BY DEF Holding, LiveNames, Scoped

LEMMA FreshStorage ==
  ASSUME EscapeInv, FreeStorages # {}
  PROVE  LET st == Min(FreeStorages) IN
         /\ st \in Ids /\ heap[st] = NoClosure /\ st \notin gone /\ Bare(st) \in PlaceValues
         /\ st \notin PointedTo(held, places, heap)
         /\ \A n \in Locals : places[n] # Nothing => places[n].st # st
<1> DEFINE st == Min(FreeStorages)
<1>1. st \in FreeStorages
  BY LeastIsFree
<1> HIDE DEF st
<1>2. st \in Ids /\ heap[st] = NoClosure /\ st \notin gone /\ st \notin PointedTo(held, places, heap)
  <2>1. heap \in [Ids \cup {Outer} -> ClosureValues]
    BY DEF EscapeInv, CapturesTypeOK, ExecutionTypesOK
  <2> QED BY <1>1, <2>1 DEF FreeStorages
<1>3. \A n \in Locals : places[n] # Nothing => places[n].st \in PointedTo(held, places, heap)
  BY DEF PointedTo
<1>4. Bare(st) \in PlaceValues
  BY <1>2, NoSetIs DEF Bare, PlaceValues
<1> QED BY <1>2, <1>3, <1>4 DEF st

LEMMA MakeFits ==
  ASSUME EscapeInv, phase = "body", terms' \in Nat, NEW n \in Locals, NEW kind \in {"lin", "car"}, Make(n, kind)
  PROVE  EscapeInv'
<1> DEFINE st == Min(FreeStorages)
           v == Binding(kind, kind, FALSE, Nothing, NoSet)
           e == [places EXCEPT ![n] = Bare(st)]
<1>1. /\ bound[n] = Nothing /\ (taken => FreeStorages # {}) /\ bound' = [bound EXCEPT ![n] = v]
      /\ Execute(held, e, heap, {})
      /\ slots' = slots /\ done' = done /\ granted' = granted /\ moved' = moved /\ branch' = branch /\ phase' = phase
  BY DEF Make, IsFresh, AsAlive, Unchanged
<1>2. WalkTypesOK /\ ExecutionTypesOK
  BY DEF EscapeInv, CapturesTypeOK
<1>3. v \in Bindings /\ v.level = Nesting /\ v.kind = kind /\ v.surviving = NoSet
  BY LevelsOK, NoSetIs DEF Binding, Bindings
<1>4. taken' = taken
  BY <1>1 DEF Execute
<1> HIDE DEF st, v
<1>5. WalkInv' /\ bound' \in Scopes
  BY <1>1, <1>3, <1>4, BoundNew
<1>6. WalkTypesOK'
  BY <1>1, <1>2, <1>5 DEF WalkTypesOK
<1>7. ASSUME taken PROVE Executing(held, e, heap, {}) /\ Agrees(slots', bound', held, e, heap) /\ Free(heap[Outer])
  <2>1. /\ st \in Ids /\ heap[st] = NoClosure /\ Bare(st) \in PlaceValues
        /\ \A m \in Locals : places[m] # Nothing => places[m].st # st
    BY <1>1, <1>7, FreshStorage DEF st
  <2>2. SlotsFit(slots, held) /\ NamesFit(bound, places, heap) /\ Apart(bound, places) /\ Free(heap[Outer])
    BY <1>1, <1>7, SeenTaken
  <2>3. Executing(held, e, heap, {})
    BY <1>2, <2>1 DEF Executing, ExecutionTypesOK
  <2>4. Bare(st).st = st
    BY DEF Bare
  <2>5. \A m \in Places(bound) : places[m].st # st
    BY <2>1, <2>2 DEF Places, InScope, NamesFit
  <2>6. Fits(v.surviving, heap[st])
    BY <2>1, NoSetIs DEF Fits
  <2>7. NamesFit(bound', e, heap) /\ Apart(bound', e)
    <3>1. bound \in Scopes /\ DOMAIN places = Locals /\ RootsOK(bound)
      BY <1>2, LevelsOK DEF WalkTypesOK, ExecutionTypesOK
    <3>2. ValueFits(bound, places, heap, v, Bare(st))
      BY <1>3, <2>1, <2>4, <2>5, <2>6 DEF ValueFits
    <3> QED BY <1>1, <1>3, <2>1, <2>2, <3>1, <3>2, NamesBound
  <2> QED BY <1>1, <2>2, <2>3, <2>7 DEF Agrees
<1>8. ExecutionTypesOK' /\ FitInv'
  BY <1>1, <1>7, TermFits
<1> QED BY <1>5, <1>6, <1>8 DEF EscapeInv, CapturesTypeOK

LEMMA BorrowFits ==
  ASSUME EscapeInv, phase = "body", terms' \in Nat, NEW n \in Locals, NEW r \in Locals, NEW mutable \in BOOLEAN,
         Borrow(n, r, mutable)
  PROVE  EscapeInv'
<1> DEFINE v == Binding("ref", bound[n].kind, mutable, n, NoSet)
           w == Bare(places[n].st)
           e == [places EXCEPT ![r] = w]
<1>1. /\ n \in Scoped /\ bound[n].kind \in {"lin", "car"} /\ bound[r] = Nothing /\ bound' = [bound EXCEPT ![r] = v]
      /\ Dead({d \in SUBSET Holding : ~Conflicts(n, mutable, done \cup d)})
      /\ Execute(held, e, heap, {})
      /\ slots' = slots /\ moved' = moved /\ branch' = branch /\ phase' = phase
  BY DEF Borrow, IsFresh, Unchanged, LiveNames
<1>2. WalkTypesOK /\ ExecutionTypesOK
  BY DEF EscapeInv, CapturesTypeOK
<1>3. n \in InScope(bound) /\ n \in Places(bound)
  BY <1>1 DEF Scoped, InScope, Places
<1>4. v \in Bindings /\ v.level = Nesting /\ v.kind = "ref" /\ v.root = n /\ v.of = bound[n].kind
  BY <1>1, LevelsOK, NoSetIs DEF Binding, Bindings
<1>5. taken' = taken
  BY <1>1 DEF Execute
<1>6. w.st = places[n].st
  BY DEF Bare
<1> HIDE DEF v
<1>7. WalkInv' /\ bound' \in Scopes
  BY <1>1, <1>3, <1>4, <1>5, BoundNew
<1>8. WalkTypesOK'
  <2>1. {d \in SUBSET Holding : ~Conflicts(n, mutable, done \cup d)} \in SUBSET SUBSET Locals
    BY HoldingIn
  <2>2. done' \in SUBSET Locals /\ granted' \in SUBSET Locals
    BY <1>1, <1>2, <2>1, DeadTyped
  <2> QED BY <1>1, <1>2, <1>7, <2>2 DEF WalkTypesOK
<1>9. ASSUME taken PROVE Executing(held, e, heap, {}) /\ Agrees(slots', bound', held, e, heap) /\ Free(heap[Outer])
  <2>1. SlotsFit(slots, held) /\ NamesFit(bound, places, heap) /\ Apart(bound, places) /\ Free(heap[Outer])
    BY <1>1, <1>9, SeenTaken
  <2>2. places[n] # Nothing /\ places[n].st \in Ids
    BY <1>1, <1>3, <2>1 DEF NamesFit
  <2>3. w \in PlaceValues
    BY <2>2, NoSetIs DEF Bare, PlaceValues
  <2>4. Executing(held, e, heap, {})
    BY <1>2, <2>3 DEF Executing, ExecutionTypesOK
  <2>5. NamesFit(bound', e, heap) /\ Apart(bound', e)
    <3>1. bound \in Scopes /\ DOMAIN places = Locals /\ RootsOK(bound)
      BY <1>2, LevelsOK DEF WalkTypesOK, ExecutionTypesOK
    <3> HIDE DEF w
    <3>2. ValueFits(bound, places, heap, v, w)
      BY <1>3, <1>4, <1>6 DEF ValueFits
    <3> QED BY <1>1, <1>4, <2>1, <2>3, <3>1, <3>2, NamesBound
  <2> QED BY <1>1, <2>1, <2>4, <2>5 DEF Agrees
<1>10. ExecutionTypesOK' /\ FitInv'
  BY <1>1, <1>9, TermFits
<1> QED BY <1>7, <1>8, <1>10 DEF EscapeInv, CapturesTypeOK

LEMMA DropLocalFits ==
  ASSUME EscapeInv, phase = "body", terms' \in Nat, NEW n \in Locals, DropLocal(n)
  PROVE  EscapeInv'
<1> DEFINE enough == {d \in SUBSET Holding : /\ ~LiveBorrowOf(n, done \cup d)
                                             /\ ~Has("readThenConsumed") => n \notin HeldByClosures(done \cup d)}
<1>1. /\ n \in Scoped /\ bound[n].kind = "lin" /\ Dead(enough)
      /\ moved' = moved \cup {n} /\ Execute(held, places, heap, {places[n].st})
      /\ slots' = slots /\ bound' = bound /\ branch' = branch /\ phase' = phase
  BY DEF DropLocal, LiveNames
<1>2. WalkTypesOK /\ ExecutionTypesOK /\ taken' = taken
  BY <1>1 DEF EscapeInv, CapturesTypeOK, Execute
<1>3. enough \in SUBSET SUBSET Locals
  BY HoldingIn
<1> HIDE DEF enough
<1>4. WalkTypesOK'
  <2>1. done' \in SUBSET Locals /\ granted' \in SUBSET Locals
    BY <1>1, <1>2, <1>3, DeadTyped
  <2> QED BY <1>1, <1>2, <2>1 DEF WalkTypesOK
<1>5. ASSUME taken PROVE /\ Executing(held, places, heap, {places[n].st}) /\ Agrees(slots', bound', held, places, heap)
                         /\ Free(heap[Outer])
  <2>1. SlotsFit(slots, held) /\ NamesFit(bound, places, heap) /\ Apart(bound, places) /\ Free(heap[Outer])
    BY <1>1, <1>5, SeenTaken
  <2>2. places[n].st \in Ids
    BY <1>1, <2>1 DEF NamesFit, InScope, Scoped
  <2> QED BY <1>1, <1>2, <2>1, <2>2 DEF Agrees, Executing, ExecutionTypesOK
<1>6. ExecutionTypesOK' /\ FitInv'
  BY <1>1, <1>5, TermFits
<1>7. WalkInv'
  BY <1>1, <1>2, BoundSame
<1> QED BY <1>4, <1>6, <1>7 DEF EscapeInv, CapturesTypeOK

LEMMA PushFits ==
  ASSUME EscapeInv, phase = "body", terms' \in Nat, NEW x \in SlotKinds, NEW c, slots' = Append(slots, x),
         Execute(Append(held, c), places, heap, {}), taken => c \in ClosureValues /\ (x.kind # "lit" => Fits(x.surviving, c)),
         bound' = bound, moved' = moved, branch' = branch, phase' = phase,
         done' \in SUBSET Locals, granted' \in SUBSET Locals
  PROVE  EscapeInv'
<1>1. WalkTypesOK /\ ExecutionTypesOK /\ taken' = taken
  BY DEF EscapeInv, CapturesTypeOK, Execute
<1>2. WalkTypesOK'
  <2>1. slots' \in Seq(SlotKinds)
    BY <1>1, PushedIs DEF WalkTypesOK
  <2> QED BY <1>1, <2>1 DEF WalkTypesOK
<1>3. ASSUME taken PROVE Executing(Append(held, c), places, heap, {}) /\ Agrees(slots', bound', Append(held, c), places, heap)
                         /\ Free(heap[Outer])
  <2>1. SlotsFit(slots, held) /\ NamesFit(bound, places, heap) /\ Apart(bound, places) /\ Free(heap[Outer])
    BY <1>3, SeenTaken
  <2>2. Append(held, c) \in Seq(ClosureValues)
    BY <1>1, <1>3, PushedIs DEF ExecutionTypesOK
  <2>3. SlotsFit(slots', Append(held, c))
    BY <1>1, <1>3, <2>1, SlotsPushed DEF WalkTypesOK, ExecutionTypesOK
  <2> QED BY <1>1, <2>1, <2>2, <2>3 DEF Agrees, Executing, ExecutionTypesOK
<1>4. ExecutionTypesOK' /\ FitInv'
  BY <1>3, TermFits
<1>5. WalkInv'
  BY <1>1, BoundSame
<1> QED BY <1>2, <1>4, <1>5 DEF EscapeInv, CapturesTypeOK

LEMMA PushLiteralFits ==
  ASSUME EscapeInv, phase = "body", terms' \in Nat, NEW l \in Literals, PushLiteral(l)
  PROVE  EscapeInv'
<1>1. /\ slots' = Append(slots, Lit(l)) /\ Execute(Append(held, NoClosure), places, heap, {})
      /\ bound' = bound /\ done' = done /\ granted' = granted /\ moved' = moved /\ branch' = branch /\ phase' = phase
  BY DEF PushLiteral, AsAlive, Unchanged
<1>2. Lit(l) \in SlotKinds /\ Lit(l).kind = "lit"
  BY CapturesAssumption, NoSetIs, LevelsOK DEF Lit, SlotKinds
<1>3. done' \in SUBSET Locals /\ granted' \in SUBSET Locals
  BY <1>1 DEF EscapeInv, CapturesTypeOK, WalkTypesOK
<1> QED BY <1>1, <1>2, <1>3, NoSetIs, PushFits

LEMMA SlotIs ==
  ASSUME NEW kind \in {"lit", "fn", "own", "car"}, NEW surviving \in SurvivingSets, NEW from \in SUBSET Locals
  PROVE  /\ Slot(kind, surviving, from) \in SlotKinds /\ Slot(kind, surviving, from).kind = kind
         /\ Slot(kind, surviving, from).surviving = surviving /\ Slot(kind, surviving, from).from = from
<1>1. NoLit \in LiteralBodies
  BY DEF NoLit, LiteralBodies
<1> QED BY <1>1 DEF Slot, SlotKinds

LEMMA PushLocalFits ==
  ASSUME EscapeInv, phase = "body", terms' \in Nat, NEW n \in Locals, PushLocal(n)
  PROVE  EscapeInv'
<1> DEFINE from == IF bound[n].kind = "car" THEN {n} ELSE {}
           x == Slot(bound[n].kind, bound[n].surviving, from)
           c == IF bound[n].kind = "car" THEN heap[places[n].st] ELSE places[n].clo
           enough == {d \in SUBSET Holding : bound[n].kind = "car" => ~LiveMutableBorrowOf(n, done \cup d)}
<1>1. /\ n \in Scoped /\ bound[n].kind \in {"car", "fn"} /\ Dead(enough)
      /\ slots' = Append(slots, x) /\ Execute(Append(held, c), places, heap, {})
      /\ bound' = bound /\ moved' = moved /\ branch' = branch /\ phase' = phase
  BY DEF PushLocal, Unchanged, LiveNames
<1>2. WalkTypesOK /\ ExecutionTypesOK
  BY DEF EscapeInv, CapturesTypeOK
<1>3. n \in InScope(bound) /\ bound[n] \in Bindings
  BY <1>1, LevelsOK DEF Scoped, InScope
<1>4. x \in SlotKinds /\ x.surviving = bound[n].surviving
  <2>1. from \in SUBSET Locals /\ bound[n].surviving \in SurvivingSets
    BY <1>3 DEF Bindings
  <2> HIDE DEF from
  <2> QED BY <1>1, <2>1, SlotIs
<1>5. done' \in SUBSET Locals /\ granted' \in SUBSET Locals
  <2>1. enough \in SUBSET SUBSET Locals
    BY HoldingIn
  <2> QED BY <1>1, <1>2, <2>1, DeadTyped
<1>6. ASSUME taken PROVE c \in ClosureValues /\ Fits(x.surviving, c)
  <2>1. NamesFit(bound, places, heap)
    BY <1>1, <1>6, SeenTaken
  <2>2. places[n] \in PlaceValues
    BY <1>2, <1>3, <2>1 DEF NamesFit, ExecutionTypesOK, InScope
  <2>3. c \in ClosureValues
    BY <1>2, <2>2 DEF PlaceValues, ExecutionTypesOK
  <2>4. Fits(bound[n].surviving, c)
    BY <1>1, <1>3, <2>1 DEF NamesFit
  <2> QED BY <1>4, <2>3, <2>4
<1> HIDE DEF x, c
<1> QED BY <1>1, <1>4, <1>5, <1>6, PushFits

LEMMA FetchFits ==
  ASSUME EscapeInv, phase = "body", terms' \in Nat, NEW r \in Locals, Fetch(r)
  PROVE  EscapeInv'
<1> DEFINE x == Slot("fn", RootSet(r), {})
           c == heap[places[r].st]
<1>1. /\ r \in Scoped /\ bound[r].kind = "ref" /\ bound[r].of = "car"
      /\ slots' = Append(slots, x) /\ Execute(Append(held, c), places, heap, {})
      /\ bound' = bound /\ done' = done /\ granted' = granted /\ moved' = moved /\ branch' = branch /\ phase' = phase
  BY DEF Fetch, AsAlive, Unchanged, LiveNames
<1>2. WalkTypesOK /\ ExecutionTypesOK
  BY DEF EscapeInv, CapturesTypeOK
<1>3. r \in InScope(bound) /\ RootsOK(bound) /\ Scoped = InScope(bound) /\ Nothing \notin Locals
  BY <1>1, LevelsOK, CapturesAssumption DEF Scoped, InScope
<1>4. CASE bound[r].root = Nothing
  <2>1. RootSet(r) = NoSet
    BY <1>4, <1>3 DEF RootSet, InFrame, InScope
  <2>2. x \in SlotKinds /\ x.surviving = NoSet
    BY <2>1, NoSetIs, SlotIs
  <2>3. ASSUME taken PROVE c \in ClosureValues /\ Fits(x.surviving, c)
    <3>1. NamesFit(bound, places, heap) /\ Free(heap[Outer])
      BY <1>1, <2>3, SeenTaken
    <3>2. places[r].st = Outer
      BY <3>1, <1>1, <1>3, <1>4 DEF NamesFit
    <3> QED BY <3>1, <3>2, <1>2 DEF Fits, ExecutionTypesOK
  <2>4. done' \in SUBSET Locals /\ granted' \in SUBSET Locals
    BY <1>1, <1>2 DEF WalkTypesOK
  <2> HIDE DEF x, c
  <2> QED BY <1>1, <2>2, <2>3, <2>4, PushFits
<1>5. CASE bound[r].root # Nothing
  <2>1. /\ bound[r].root \in InScope(bound) /\ bound[r].root \in Places(bound) /\ bound[bound[r].root].kind = "car"
    BY <1>1, <1>3, <1>5 DEF RootsOK, Places
  <2>2. RootSet(r) = bound[bound[r].root].surviving /\ RootSet(r) \in SurvivingSets
    BY <1>3, <2>1, LevelsOK DEF RootSet, InFrame, Bindings
  <2>3. x \in SlotKinds /\ x.surviving = bound[bound[r].root].surviving
    BY <2>2, SlotIs
  <2>4. ASSUME taken PROVE c \in ClosureValues /\ Fits(x.surviving, c)
    <3>1. NamesFit(bound, places, heap) /\ Free(heap[Outer])
      BY <1>1, <2>4, SeenTaken
    <3>2. places[r].st = places[bound[r].root].st /\ places[r].st \in Ids
      BY <3>1, <2>1, <1>1, <1>3, <1>5 DEF NamesFit
    <3>3. Fits(bound[bound[r].root].surviving, heap[places[bound[r].root].st])
      BY <3>1, <2>1 DEF NamesFit
    <3> QED BY <3>2, <3>3, <2>3, <1>2 DEF ExecutionTypesOK
  <2>5. done' \in SUBSET Locals /\ granted' \in SUBSET Locals
    BY <1>1, <1>2 DEF WalkTypesOK
  <2> HIDE DEF x, c
  <2> QED BY <1>1, <2>3, <2>4, <2>5, PushFits
<1> QED BY <1>4, <1>5

\* the closure on top, and what is below it
LEMMA TopFits ==
  ASSUME EscapeInv, phase = "body", slots # <<>>
  PROVE  /\ TopSlot \in SlotKinds /\ Popped(slots) \in Seq(SlotKinds) /\ Len(slots) \in DOMAIN slots
         /\ taken => /\ TopHeld \in ClosureValues /\ Popped(held) \in Seq(ClosureValues) /\ SlotsFit(Popped(slots), Popped(held))
                     /\ Len(held) = Len(slots) /\ (TopSlot.kind # "lit" => Fits(TopSlot.surviving, TopHeld))
<1>1. slots \in Seq(SlotKinds) /\ held \in Seq(ClosureValues)
  BY DEF EscapeInv, CapturesTypeOK, WalkTypesOK, ExecutionTypesOK
<1>2. TopSlot \in SlotKinds /\ Popped(slots) \in Seq(SlotKinds) /\ Len(slots) \in DOMAIN slots
  BY <1>1, PoppedIs DEF TopSlot
<1>3. ASSUME taken PROVE SlotsFit(slots, held)
  BY <1>3, SeenTaken
<1> QED BY <1>1, <1>2, <1>3, SlotsPopped DEF TopSlot, TopHeld, SlotsFit

LEMMA BindTopFits ==
  ASSUME EscapeInv, phase = "body", terms' \in Nat, NEW n \in Locals, BindTop(n)
  PROVE  EscapeInv'
<1> DEFINE fn == TopSlot.kind = "fn"
           st == IF fn THEN Outer ELSE Min(FreeStorages)
           v == Binding(TopSlot.kind, TopSlot.kind, FALSE, Nothing, TopSlot.surviving)
           w == IF fn THEN [st |-> Outer, clo |-> TopHeld] ELSE Bare(st)
           e == [places EXCEPT ![n] = w]
           h == IF fn THEN heap ELSE [heap EXCEPT ![st] = TopHeld]
<1>1. /\ slots # <<>> /\ TopSlot.kind \in {"car", "fn"} /\ bound[n] = Nothing /\ (taken => FreeStorages # {})
      /\ slots' = Popped(slots) /\ bound' = [bound EXCEPT ![n] = v] /\ Execute(Popped(held), e, h, {})
      /\ done' = done /\ granted' = granted /\ moved' = moved /\ branch' = branch /\ phase' = phase
  BY DEF BindTop, IsFresh, AsAlive, Unchanged
<1>2. WalkTypesOK /\ ExecutionTypesOK /\ taken' = taken
  BY <1>1 DEF EscapeInv, CapturesTypeOK, Execute
<1>3. TopSlot \in SlotKinds /\ Popped(slots) \in Seq(SlotKinds)
  BY <1>1, TopFits
<1>4. v \in Bindings /\ v.level = Nesting /\ v.kind = TopSlot.kind /\ v.surviving = TopSlot.surviving
  BY <1>1, <1>3, LevelsOK DEF Binding, Bindings, SlotKinds
<1> HIDE DEF v
<1>5. WalkInv' /\ bound' \in Scopes
  BY <1>1, <1>2, <1>4, BoundNew
<1>6. WalkTypesOK'
  BY <1>1, <1>2, <1>3, <1>5 DEF WalkTypesOK
<1>7. ASSUME taken PROVE Executing(Popped(held), e, h, {}) /\ Agrees(slots', bound', Popped(held), e, h) /\ Free(h[Outer])
  <2>1. /\ TopHeld \in ClosureValues /\ Popped(held) \in Seq(ClosureValues) /\ SlotsFit(Popped(slots), Popped(held))
        /\ Fits(TopSlot.surviving, TopHeld)
    BY <1>1, <1>7, TopFits
  <2>2. NamesFit(bound, places, heap) /\ Apart(bound, places) /\ Free(heap[Outer])
    BY <1>1, <1>7, SeenTaken
  <2>3. /\ bound \in Scopes /\ DOMAIN places = Locals /\ RootsOK(bound)
        /\ heap \in [Ids \cup {Outer} -> ClosureValues] /\ places \in [Locals -> PlaceValues \cup {Nothing}]
    BY <1>2, LevelsOK DEF WalkTypesOK, ExecutionTypesOK
  <2>4. /\ ~fn => st \in Ids /\ Bare(st) \in PlaceValues /\ \A m \in Locals : places[m] # Nothing => places[m].st # st
    BY <1>1, <1>7, FreshStorage
  <2>5. w \in PlaceValues /\ w.st = st /\ (fn => w.clo = TopHeld)
    BY <2>1, <2>4 DEF PlaceValues, Bare
  <2>6. /\ h \in [Ids \cup {Outer} -> ClosureValues] /\ (~fn => h[st] = TopHeld)
        /\ \A s \in Ids \cup {Outer} : fn \/ s # st => h[s] = heap[s]
    BY <2>1, <2>3, <2>4
  <2>7. \A m \in Places(bound) : places[m].st \in Ids /\ places[m] # Nothing /\ m \in Locals
    BY <2>2 DEF Places, InScope, NamesFit
  <2>8. h[Outer] = heap[Outer]
    <3>1. Outer \notin Ids
      BY CapturesAssumption DEF Outer, Ids
    <3> QED BY <2>4, <2>6, <3>1
  <2>9. Executing(Popped(held), e, h, {})
    BY <2>1, <2>3, <2>5, <2>6 DEF Executing
  <2>10. NamesFit(bound', e, h) /\ Apart(bound', e)
    <3>1. \A m \in Places(bound) : h[places[m].st] = heap[places[m].st] /\ (~fn => places[m].st # w.st)
      BY <2>4, <2>5, <2>6, <2>7
    <3>2. v.kind = "fn" => Fits(v.surviving, w.clo)
      BY <1>4, <2>1, <2>5
    <3>3. v.kind = "car" => Fits(v.surviving, h[w.st]) /\ w.st \in Ids
      BY <1>1, <1>4, <2>1, <2>4, <2>5, <2>6
    <3>4. v.kind # "ref" /\ (v.kind \in {"lin", "car"} => v.kind = "car" /\ ~fn)
      BY <1>1, <1>4
    <3>5. \A m \in Places(bound) : h[places[m].st] = heap[places[m].st]
      BY <3>1
    <3>6. v.kind \in {"lin", "car"} => w.st \in Ids /\ \A m \in Places(bound) : places[m].st # w.st
      BY <3>1, <3>3, <3>4
    <3>7. v.kind = "ref" => v.root \in Places(bound) /\ w.st = places[v.root].st
      BY <3>4
    <3>8. v.kind = "car" => Fits(v.surviving, h[w.st])
      BY <3>3
    <3>9. w \in PlaceValues /\ v \in Bindings /\ bound[n] = Nothing
      BY <1>1, <1>4, <2>5
    <3> HIDE DEF w, h, st, fn
    <3>10. NamesFit([bound EXCEPT ![n] = v], [places EXCEPT ![n] = w], h)
           /\ Apart([bound EXCEPT ![n] = v], [places EXCEPT ![n] = w])
      <4>1. ValueFits(bound, places, h, v, w)
        BY <3>2, <3>6, <3>7, <3>8 DEF ValueFits
      <4>2. v \in Bindings /\ w \in PlaceValues /\ bound[n] = Nothing /\ bound \in Scopes /\ DOMAIN places = Locals
            /\ RootsOK(bound) /\ NamesFit(bound, places, heap) /\ Apart(bound, places)
        BY <2>2, <2>3, <3>9
      <4> QED BY <3>5, <4>1, <4>2, NamesBound
    <3> QED BY <1>1, <3>10
  <2> HIDE DEF h, e
  <2> QED BY <1>1, <2>1, <2>2, <2>8, <2>9, <2>10 DEF Agrees
<1>8. ExecutionTypesOK' /\ FitInv'
  <2> HIDE DEF e, h
  <2> QED BY <1>1, <1>7, TermFits
<1> QED BY <1>5, <1>6, <1>8 DEF EscapeInv, CapturesTypeOK

LEMMA ReplaceFits ==
  ASSUME EscapeInv, phase = "body", terms' \in Nat, slots # <<>>, NEW x \in SlotKinds, x.kind # "lit", NEW c,
         slots' = [slots EXCEPT ![Len(slots)] = x], moved' \in SUBSET Locals,
         Execute(IF taken THEN [held EXCEPT ![Len(slots)] = c] ELSE held, places, heap, {}),
         taken => c \in ClosureValues /\ Fits(x.surviving, c),
         bound' = bound, branch' = branch, phase' = phase, done' = done, granted' = granted
  PROVE  EscapeInv'
<1> DEFINE vs == IF taken THEN [held EXCEPT ![Len(slots)] = c] ELSE held
<1>1. WalkTypesOK /\ ExecutionTypesOK /\ taken' = taken
  BY DEF EscapeInv, CapturesTypeOK, Execute
<1>2. Len(slots) \in DOMAIN slots
  BY TopFits
<1>3. WalkTypesOK'
  <2>1. slots' \in Seq(SlotKinds)
    BY <1>1, <1>2, ReplacedIs DEF WalkTypesOK
  <2> QED BY <1>1, <2>1 DEF WalkTypesOK
<1>4. ASSUME taken PROVE Executing(vs, places, heap, {}) /\ Agrees(slots', bound', vs, places, heap)
                         /\ Free(heap[Outer])
  <2>1. SlotsFit(slots, held) /\ NamesFit(bound, places, heap) /\ Apart(bound, places) /\ Free(heap[Outer])
    BY <1>4, SeenTaken
  <2>2. SlotsFit(slots', vs) /\ vs \in Seq(ClosureValues)
    BY <1>1, <1>2, <1>4, <2>1, SlotsReplaced DEF WalkTypesOK, ExecutionTypesOK
  <2> QED BY <1>1, <2>1, <2>2 DEF Agrees, Executing, ExecutionTypesOK
<1>5. ExecutionTypesOK' /\ FitInv'
  BY <1>4, TermFits
<1>6. WalkInv'
  BY <1>1, BoundSame
<1> QED BY <1>3, <1>5, <1>6 DEF EscapeInv, CapturesTypeOK

\* what a literal becomes, while the execution goes along
LEMMA LiteralFits ==
  ASSUME EscapeInv, phase # "returned", NEW l \in LiteralBodies, NEW owning \in BOOLEAN, NEW escaping,
         Materializes(l, escaping, owning), taken
  PROVE  /\ Surviving(l, owning) \in SurvivingSets /\ Closure(l, owning) \in ClosureValues
         /\ Fits(Surviving(l, owning), Closure(l, owning))
<1>1. NamesFit(bound, places, heap)
  BY SeenTaken
<1>2. /\ bound \in Scopes /\ RootsOK(bound) /\ heap \in [Ids \cup {Outer} -> ClosureValues]
      /\ places \in [Locals -> PlaceValues \cup {Nothing}]
  BY LevelsOK DEF EscapeInv, CapturesTypeOK, WalkTypesOK, ExecutionTypesOK
<1>3. Admitted(l, escaping, owning)
  BY DEF Materializes
<1> QED BY <1>1, <1>2, <1>3, ClosureFits

LEMMA SurvivingTyped ==
  ASSUME NEW l \in LiteralBodies, NEW owning \in BOOLEAN
  PROVE  Surviving(l, owning) \in SurvivingSets
<1> DEFINE members == {<<n, FrameRooted(n)>> : n \in {m \in Captured(l) : ~Moves(m, owning)}}
<1>1. Surviving(l, owning) = [members |-> members, bundle |-> Bundle(l, owning)]
  BY DEF Surviving
<1>2. \A n \in Captured(l) : FrameRooted(n) \in BOOLEAN /\ n \in Locals
  BY DEF FrameRooted, InFrame, Captured, LiteralBodies
<1>3. members \in SUBSET (Locals \X BOOLEAN)
  BY <1>2
<1>4. Bundle(l, owning) \in BOOLEAN
  BY DEF Bundle
<1> HIDE DEF members
<1> QED BY <1>1, <1>3, <1>4 DEF SurvivingSets

LEMMA PassOnFits ==
  ASSUME EscapeInv, phase = "body", terms' \in Nat, NEW to \in {"fn", "own", "car"}, PassOn(to)
  PROVE  EscapeInv'
<1> DEFINE literal == TopSlot.kind = "lit"
           owning == to = "own"
           surviving == IF literal THEN Surviving(TopSlot.lit, owning) ELSE CarriedSet(TopSlot)
           x == Slot(to, surviving, {})
           c == IF literal THEN Closure(TopSlot.lit, owning) ELSE TopHeld
<1>1. /\ slots # <<>> /\ Becomes(TopSlot.kind, to) /\ (literal => Materializes(TopSlot.lit, FALSE, owning))
      /\ slots' = [slots EXCEPT ![Len(slots)] = x]
      /\ moved' = IF literal THEN moved \cup TopSlot.lit.eats ELSE moved
      /\ Execute(IF taken /\ literal THEN [held EXCEPT ![Len(slots)] = Closure(TopSlot.lit, owning)] ELSE held, places, heap, {})
      /\ bound' = bound /\ branch' = branch /\ phase' = phase /\ done' = done /\ granted' = granted
  BY DEF PassOn, AsAlive
<1>2. WalkTypesOK /\ ExecutionTypesOK
  BY DEF EscapeInv, CapturesTypeOK
<1>3. TopSlot \in SlotKinds /\ TopSlot.lit \in LiteralBodies /\ TopSlot.surviving \in SurvivingSets
  BY <1>1, TopFits DEF SlotKinds
<1>4. moved' \in SUBSET Locals
  BY <1>1, <1>2, <1>3 DEF WalkTypesOK, LiteralBodies
<1>5. surviving \in SurvivingSets
  BY <1>3, SurvivingTyped DEF CarriedSet
<1>6. x \in SlotKinds /\ x.kind = to /\ x.surviving = surviving
  <2> HIDE DEF surviving
  <2> QED BY <1>5, SlotIs
<1>7. ASSUME taken PROVE c \in ClosureValues /\ Fits(surviving, c)
  <2>1. CASE literal
    BY <1>1, <1>3, <1>7, <2>1, LiteralFits
  <2>2. CASE ~literal
    BY <1>1, <1>7, <2>2, TopFits DEF CarriedSet
  <2> QED BY <2>1, <2>2
<1>8. Execute(IF taken THEN [held EXCEPT ![Len(slots)] = c] ELSE held, places, heap, {})
  <2>1. CASE taken /\ ~literal
    <3>1. SlotsFit(slots, held) /\ held \in Seq(ClosureValues) /\ Len(slots) \in DOMAIN slots
      BY <1>1, <1>2, <2>1, SeenTaken, TopFits DEF ExecutionTypesOK
    <3>2. [held EXCEPT ![Len(slots)] = TopHeld] = held
      BY <3>1 DEF TopHeld, SlotsFit
    <3> QED BY <1>1, <2>1, <3>2
  <2>2. CASE ~(taken /\ ~literal)
    BY <1>1, <2>2
  <2> QED BY <2>1, <2>2
<1> HIDE DEF surviving, c, x
<1> QED BY <1>1, <1>4, <1>6, <1>7, <1>8, ReplaceFits

LEMMA PopFits ==
  ASSUME EscapeInv, phase = "body", terms' \in Nat, slots # <<>>, slots' = Popped(slots), NEW d,
         Execute(Popped(held), places, heap, d), taken => d \subseteq Ids,
         bound' = bound, branch' = branch, phase' = phase, moved' = moved, done' = done, granted' = granted
  PROVE  EscapeInv'
<1>1. WalkTypesOK /\ ExecutionTypesOK /\ taken' = taken
  BY DEF EscapeInv, CapturesTypeOK, Execute
<1>2. WalkTypesOK'
  BY <1>1, TopFits DEF WalkTypesOK
<1>3. ASSUME taken PROVE Executing(Popped(held), places, heap, d) /\ Agrees(slots', bound', Popped(held), places, heap)
                         /\ Free(heap[Outer])
  BY <1>1, <1>3, TopFits, SeenTaken DEF Agrees, Executing, ExecutionTypesOK
<1>4. ExecutionTypesOK' /\ FitInv'
  BY <1>3, TermFits
<1>5. WalkInv'
  BY <1>1, BoundSame
<1> QED BY <1>2, <1>4, <1>5 DEF EscapeInv, CapturesTypeOK

LEMMA CallFits ==
  ASSUME EscapeInv, phase = "body", terms' \in Nat, Call
  PROVE  EscapeInv'
<1>1. /\ slots # <<>> /\ slots' = Popped(slots) /\ Execute(Popped(held), places, heap, TopHeld.owns)
      /\ bound' = bound /\ branch' = branch /\ phase' = phase /\ moved' = moved /\ done' = done /\ granted' = granted
  BY DEF Call, AsAlive, Unchanged
<1>2. taken => TopHeld.owns \subseteq Ids
  BY <1>1, TopFits DEF ClosureValues
<1> QED BY <1>1, <1>2, PopFits

LEMMA BoundStored ==
  ASSUME EscapeInv, branch' = branch, taken' = taken, phase' = phase, NEW n \in Places(bound), bound[n].level = Nesting,
         NEW set \in SurvivingSets, bound' = [bound EXCEPT ![n].surviving = UnionSurviving(@, set)], RootsOK(bound')
  PROVE  WalkInv' /\ bound' \in Scopes
<1>1. bound \in Scopes /\ WalkInv /\ n \in Locals /\ n \in InScope(bound)
  BY DEF EscapeInv, CapturesTypeOK, WalkTypesOK, Places, InScope
<1>2. bound[n] \in Bindings /\ bound[n].surviving \in SurvivingSets
  BY <1>1, LevelsOK DEF Bindings
<1>3. /\ bound'[n] = [bound[n] EXCEPT !.surviving = UnionSurviving(bound[n].surviving, set)]
      /\ \A m \in Locals : m # n => bound'[m] = bound[m]
  BY <1>1 DEF Scopes
<1>4. bound'[n] \in Bindings /\ bound'[n].level = bound[n].level /\ bound'[n] # Nothing
  BY <1>2, <1>3, EscapableUnion, CapturesAssumption DEF Bindings
<1>5. bound' \in Scopes
  BY <1>1, <1>4 DEF Scopes
<1>6. InScope(bound') = InScope(bound) /\ Nesting' = Nesting /\ Scoped = InScope(bound) /\ Scoped' = InScope(bound')
  BY <1>1, <1>3, <1>4 DEF InScope, Scoped, Nesting
<1>7. Nesting' = 0 => taken' /\ \A m \in Scoped' : bound'[m].level = 0
  BY <1>1, <1>3, <1>4, <1>6 DEF WalkInv, InScope
<1>8. Nesting' = 1 => ScopeKept' /\ (taken' <=> branch'[1].arm = branch'[1].pick) /\ phase' = "body"
  <2> SUFFICES ASSUME Nesting = 1 PROVE ScopeKept'
    BY <1>1, <1>6 DEF WalkInv
  <2>1. ScopeKept
    BY <1>1 DEF WalkInv
  <2>2. branch[1].scope[n] = Nothing
    BY <2>1, <1>1 DEF ScopeKept
  <2>3. RootsOK(branch'[1].scope)
    BY <2>1 DEF ScopeKept
  <2> QED BY <2>1, <2>2, <2>3, <1>1, <1>3, <1>4 DEF ScopeKept, InScope
<1> QED BY <1>5, <1>7, <1>8 DEF WalkInv

LEMMA StoreFits ==
  ASSUME EscapeInv, ~Has("storedInArm"), phase = "body", terms' \in Nat, NEW r \in Locals, Store(r)
  PROVE  EscapeInv'
<1> DEFINE root == bound[r].root
           literal == TopSlot.kind = "lit"
           surviving == IF literal THEN Surviving(TopSlot.lit, FALSE) ELSE TopSlot.surviving
           c == IF literal THEN Closure(TopSlot.lit, FALSE) ELSE TopHeld
           h == [heap EXCEPT ![places[r].st] = c]
<1>1. /\ slots # <<>> /\ r \in Scoped /\ bound[r].kind = "ref" /\ bound[r].of = "car"
      /\ literal => Materializes(TopSlot.lit, ~InFrame(root), FALSE)
      /\ ~InFrame(root) => Escapable(surviving)
      /\ InFrame(root) => bound[root].level = Nesting
      /\ slots' = Popped(slots) /\ bound' = Stored(root, surviving) /\ Execute(Popped(held), places, h, {})
      /\ moved' = moved /\ branch' = branch /\ phase' = phase /\ done' = done /\ granted' = granted
  BY DEF Store, StoreThrough, AsAlive, Unchanged, LiveNames
<1>2. WalkTypesOK /\ ExecutionTypesOK /\ taken' = taken
  BY <1>1 DEF EscapeInv, CapturesTypeOK, Execute
<1>3. r \in InScope(bound) /\ RootsOK(bound) /\ Scoped = InScope(bound) /\ Nothing \notin Locals
  BY <1>1, LevelsOK, CapturesAssumption DEF Scoped, InScope
<1>4. TopSlot \in SlotKinds /\ TopSlot.lit \in LiteralBodies /\ Popped(slots) \in Seq(SlotKinds)
  BY <1>1, TopFits DEF SlotKinds
<1>5. surviving \in SurvivingSets
  BY <1>4, SurvivingTyped DEF SlotKinds
<1>6. ASSUME taken
      PROVE  /\ c \in ClosureValues /\ Fits(surviving, c) /\ Popped(held) \in Seq(ClosureValues)
             /\ SlotsFit(Popped(slots), Popped(held)) /\ NamesFit(bound, places, heap) /\ Apart(bound, places)
             /\ Free(heap[Outer]) /\ places[r] \in PlaceValues
  <2>1. /\ Popped(held) \in Seq(ClosureValues) /\ SlotsFit(Popped(slots), Popped(held))
        /\ TopHeld \in ClosureValues /\ (~literal => Fits(TopSlot.surviving, TopHeld))
    BY <1>1, <1>6, TopFits
  <2>2. NamesFit(bound, places, heap) /\ Apart(bound, places) /\ Free(heap[Outer])
    BY <1>1, <1>6, SeenTaken
  <2>3. c \in ClosureValues /\ Fits(surviving, c)
    BY <1>1, <1>4, <1>6, <2>1, LiteralFits
  <2>4. places[r] \in PlaceValues
    BY <1>2, <1>3, <2>2 DEF ExecutionTypesOK, NamesFit, InScope
  <2> QED BY <2>1, <2>2, <2>3, <2>4
<1>7. taken => Executing(Popped(held), places, h, {})
  <2>1. taken => places[r].st \in Ids \cup {Outer} /\ c \in ClosureValues
    BY <1>6 DEF PlaceValues
  <2> HIDE DEF c
  <2> QED BY <1>2, <1>6, <2>1 DEF Executing, ExecutionTypesOK
<1>8. Outer \notin Ids
  BY CapturesAssumption DEF Outer, Ids
<1>9. heap \in [Ids \cup {Outer} -> ClosureValues] /\ bound \in Scopes
  BY <1>2 DEF WalkTypesOK, ExecutionTypesOK
<1>10. CASE root = Nothing
  <2>1. bound' = bound /\ Escapable(surviving)
    BY <1>1, <1>3, <1>10 DEF Stored, InFrame, InScope
  <2>2. ASSUME taken PROVE Agrees(slots', bound', Popped(held), places, h) /\ Free(h[Outer])
    <3>1. places[r].st = Outer
      BY <1>1, <1>3, <1>6, <1>10, <2>2 DEF NamesFit
    <3>2. h[Outer] = c /\ \A s \in Ids : h[s] = heap[s]
      BY <1>8, <1>9, <3>1
    <3>3. Free(h[Outer])
      BY <1>6, <2>1, <2>2, <3>2 DEF Fits
    <3> HIDE DEF h
    <3>4. NamesFit(bound, places, h)
      BY <1>6, <2>2, <3>2 DEF NamesFit
    <3> QED BY <1>1, <1>6, <2>1, <2>2, <3>3, <3>4 DEF Agrees
  <2>3. ExecutionTypesOK' /\ FitInv'
    <3> HIDE DEF h
    <3> QED BY <1>1, <1>7, <2>2, TermFits
  <2>4. WalkInv'
    BY <1>1, <1>2, <2>1, BoundSame
  <2>5. WalkTypesOK'
    BY <1>1, <1>2, <1>4, <2>1 DEF WalkTypesOK
  <2> QED BY <2>3, <2>4, <2>5 DEF EscapeInv, CapturesTypeOK
<1>11. CASE root # Nothing
  <2>1. root \in Places(bound) /\ root \in InScope(bound) /\ bound[root].kind = "car" /\ root \in Locals
    BY <1>1, <1>3, <1>11 DEF RootsOK, Places, InScope
  <2>2. bound' = [bound EXCEPT ![root].surviving = UnionSurviving(@, surviving)] /\ bound[root].level = Nesting
    BY <1>1, <1>3, <2>1 DEF Stored, InFrame
  <2> HIDE DEF root, surviving, c
  <2>3. RootsOK(bound')
    <3>1. /\ bound[root] \in Bindings /\ bound[root].surviving \in SurvivingSets
      BY <2>1, LevelsOK DEF Bindings
    <3>2. /\ bound'[root] = [bound[root] EXCEPT !.surviving = UnionSurviving(bound[root].surviving, surviving)]
          /\ \A m \in Locals : m # root => bound'[m] = bound[m]
      BY <1>9, <2>1, <2>2 DEF Scopes
    <3>3. /\ bound'[root] # Nothing /\ bound'[root].kind = bound[root].kind /\ bound'[root].root = bound[root].root
          /\ bound'[root].of = bound[root].of /\ bound'[root].level = bound[root].level
      BY <3>1, <3>2, <1>5, EscapableUnion, CapturesAssumption DEF Bindings
    <3>4. /\ InScope(bound') = InScope(bound) /\ Places(bound') = Places(bound)
          /\ \A m \in InScope(bound) : bound'[m].kind = bound[m].kind /\ bound'[m].root = bound[m].root
                                       /\ bound'[m].of = bound[m].of /\ bound'[m].level = bound[m].level
      <4>1. InScope(bound') = InScope(bound)
        BY <3>2, <3>3, <2>1 DEF InScope
      <4> QED BY <4>1, <3>2, <3>3, <2>1 DEF InScope, Places
    <3> QED BY <3>4, <1>3 DEF RootsOK, Places
  <2>4. WalkInv' /\ bound' \in Scopes
    BY <1>1, <1>2, <1>5, <2>1, <2>2, <2>3, BoundStored
  <2>5. ASSUME taken PROVE Agrees(slots', bound', Popped(held), places, h) /\ Free(h[Outer])
    <3>1. places[r].st = places[root].st /\ places[root].st \in Ids
      BY <1>1, <1>3, <1>6, <1>11, <2>1, <2>5 DEF NamesFit, root
    <3>2. NamesFit(bound', places, h) /\ Apart(bound', places)
      <4>1. h = [heap EXCEPT ![places[root].st] = c] /\ DOMAIN heap = Ids \cup {Outer}
        BY <3>1, <1>9
      <4>2. NamesFit(bound, places, heap) /\ Apart(bound, places) /\ Fits(surviving, c)
        BY <1>6, <2>5
      <4> QED BY <4>1, <4>2, <1>3, <1>5, <1>9, <2>1, <2>2, NamesStored
    <3>3. h[Outer] = heap[Outer]
      BY <3>1, <1>8, <1>9
    <3> HIDE DEF h
    <3> QED BY <1>1, <1>6, <2>5, <3>2, <3>3 DEF Agrees
  <2>6. ExecutionTypesOK' /\ FitInv'
    <3> HIDE DEF h
    <3> QED BY <1>1, <1>7, <2>5, TermFits
  <2>7. WalkTypesOK'
    BY <1>1, <1>2, <1>4, <2>4 DEF WalkTypesOK
  <2> QED BY <2>4, <2>6, <2>7 DEF EscapeInv, CapturesTypeOK
<1> QED BY <1>10, <1>11

-----------------------------------------------------------------------------
(* The branch, and the return.                                               *)

\* the open branch
LEMMA BranchIs ==
  ASSUME EscapeInv, Nesting = 1
  PROVE  /\ branch[1] \in BranchesOpen /\ branch = <<branch[1]>> /\ ScopeKept /\ phase = "body"
         /\ (taken <=> branch[1].arm = branch[1].pick)
         /\ \A n \in InScope(branch[1].scope) : n \in InScope(bound) /\ bound[n] = branch[1].scope[n]
<1>1. branch \in Seq(BranchesOpen) /\ Len(branch) = 1
  BY DEF EscapeInv, CapturesTypeOK, WalkTypesOK, Nesting
<1>2. branch[1] \in BranchesOpen /\ branch = <<branch[1]>>
  BY <1>1
<1>3. ScopeKept /\ (taken <=> branch[1].arm = branch[1].pick) /\ phase = "body"
  BY DEF EscapeInv, WalkInv
<1> QED BY <1>2, <1>3 DEF ScopeKept, InScope

LEMMA OpenBranchFits ==
  ASSUME EscapeInv, NEW pick \in 1..2, OpenBranch(pick)
  PROVE  EscapeInv'
<1> DEFINE f == [entry |-> slots, scope |-> bound, entryMoved |-> moved, entryDone |-> done,
                 arm |-> 1, first |-> <<>>, firstMoved |-> {}, pick |-> pick]
<1>1. /\ phase = "body" /\ Nesting = 0 /\ branch' = <<f>> /\ taken' = (pick = 1)
      /\ UNCHANGED <<slots, bound, moved, done, granted, terms, phase, held, places, heap, gone>>
  BY DEF OpenBranch
<1>2. WalkTypesOK /\ ExecutionTypesOK /\ WalkInv /\ taken
  BY <1>1 DEF EscapeInv, CapturesTypeOK, WalkInv
<1>3. f \in BranchesOpen
  BY <1>2 DEF BranchesOpen, WalkTypesOK
<1>4. branch'[1] = f /\ Len(branch') = 1 /\ branch' \in Seq(BranchesOpen) /\ Nesting' = 1
  <2> HIDE DEF f
  <2> QED BY <1>1, <1>3 DEF Nesting
<1>5. WalkTypesOK' /\ ExecutionTypesOK'
  BY <1>1, <1>2, <1>4 DEF WalkTypesOK, ExecutionTypesOK
<1>6. WalkInv'
  <2>1. \A n \in InScope(bound) : bound[n].level = 0
    BY <1>1, <1>2 DEF WalkInv, Scoped, InScope
  <2>2. f.scope = bound /\ f.arm = 1 /\ f.pick = pick
    OBVIOUS
  <2> HIDE DEF f
  <2>3. RootsOK(bound) /\ bound' = bound
    BY <1>1, <1>2 DEF WalkInv
  <2>4. ScopeKept'
    BY <1>4, <2>1, <2>2, <2>3 DEF ScopeKept, InScope
  <2>5. RootsOK(bound')
    BY <2>3
  <2>6. taken' <=> pick = 1
    BY <1>1
  <2>7. taken' <=> branch'[1].arm = branch'[1].pick
    BY <1>4, <2>2, <2>6
  <2>8. phase' = "body" /\ Nesting' # 0
    BY <1>1, <1>4
  <2> QED BY <2>4, <2>5, <2>7, <2>8 DEF WalkInv, RootsOK, Places, InScope
<1>7. FitInv'
  <2>1. SlotsFit(slots, held) /\ NamesFit(bound, places, heap) /\ Apart(bound, places) /\ Free(heap[Outer])
    BY <1>1, <1>2, SeenTaken
  <2>2. f.scope = bound /\ f.arm = 1 /\ f.entry = slots
    OBVIOUS
  <2> HIDE DEF f
  <2>3. SeenSlots' = slots /\ SeenScope' = bound
    BY <1>1, <1>4, <2>2 DEF SeenSlots, SeenScope
  <2>4. Agrees(slots, bound, held, places, heap)
    BY <2>1 DEF Agrees
  <2>5. Agrees(SeenSlots', SeenScope', held', places', heap') /\ Free(heap'[Outer])
    BY <1>1, <2>1, <2>3, <2>4
  <2>6. phase' # "returned"
    BY <1>1
  <2> QED BY <2>5, <2>6 DEF FitInv, Free, Outer
<1> QED BY <1>5, <1>6, <1>7 DEF EscapeInv, CapturesTypeOK

\* the arm is left
LEMMA OutsideFits ==
  ASSUME EscapeInv, Nesting = 1, taken
  PROVE  /\ Executing(held, Outside, heap, {})
         /\ NamesFit(branch[1].scope, Outside, heap) /\ Apart(branch[1].scope, Outside)
<1> DEFINE f == branch[1]
<1>1. /\ f \in BranchesOpen /\ ScopeKept /\ phase = "body"
      /\ \A n \in InScope(f.scope) : n \in InScope(bound) /\ bound[n] = f.scope[n]
  BY BranchIs
<1>2. WalkTypesOK /\ ExecutionTypesOK
  BY DEF EscapeInv, CapturesTypeOK
<1>3. \A n \in InScope(f.scope) : Outside[n] = places[n]
  BY <1>1 DEF Outside, Inner, Scoped, ScopeKept, InScope
<1>4. SlotsFit(slots, held) /\ NamesFit(bound, places, heap) /\ Apart(bound, places)
  BY <1>1, SeenTaken
<1>5. NamesFit(f.scope, Outside, heap) /\ Apart(f.scope, Outside)
  <2>1. bound \in Scopes /\ DOMAIN places = Locals /\ f.scope \in Scopes /\ RootsOK(f.scope)
    BY <1>1, <1>2 DEF WalkTypesOK, ExecutionTypesOK, BranchesOpen, ScopeKept
  <2> QED BY <1>1, <1>3, <1>4, <2>1, NamesLeft
<1>6. Outside \in [Locals -> PlaceValues \cup {Nothing}]
  BY <1>2 DEF Outside, ExecutionTypesOK
<1> QED BY <1>2, <1>5, <1>6 DEF Executing, ExecutionTypesOK

Second(f, sl, mv) == [f EXCEPT !.arm = 2, !.first = sl, !.firstMoved = mv]
LEMMA SecondArm ==
  ASSUME NEW f \in BranchesOpen, NEW sl \in Seq(SlotKinds), NEW mv \in SUBSET Locals
  PROVE  LET g == Second(f, sl, mv) IN
         /\ g \in BranchesOpen /\ g.arm = 2 /\ g.first = sl /\ g.firstMoved = mv /\ g.entry = f.entry
         /\ g.scope = f.scope /\ g.pick = f.pick /\ g.entryMoved = f.entryMoved /\ g.entryDone = f.entryDone
<1> DEFINE g == Second(f, sl, mv)
           r == [entry |-> f.entry, scope |-> f.scope, entryMoved |-> f.entryMoved, entryDone |-> f.entryDone,
                 arm |-> 2, first |-> sl, firstMoved |-> mv, pick |-> f.pick]
           was == [entry |-> f.entry, scope |-> f.scope, entryMoved |-> f.entryMoved, entryDone |-> f.entryDone,
                   arm |-> f.arm, first |-> f.first, firstMoved |-> f.firstMoved, pick |-> f.pick]
<1>1. f = was
  BY DEF BranchesOpen
<1>2. g = r
  <2> DEFINE r1 == [entry |-> f.entry, scope |-> f.scope, entryMoved |-> f.entryMoved, entryDone |-> f.entryDone,
                    arm |-> 2, first |-> f.first, firstMoved |-> f.firstMoved, pick |-> f.pick]
             r2 == [entry |-> f.entry, scope |-> f.scope, entryMoved |-> f.entryMoved, entryDone |-> f.entryDone,
                    arm |-> 2, first |-> sl, firstMoved |-> f.firstMoved, pick |-> f.pick]
  <2>1. [was EXCEPT !.arm = 2] = r1
    OBVIOUS
  <2>2. [r1 EXCEPT !.first = sl] = r2
    OBVIOUS
  <2>3. [r2 EXCEPT !.firstMoved = mv] = r
    OBVIOUS
  <2> HIDE DEF was, r, r1, r2
  <2> QED BY <1>1, <2>1, <2>2, <2>3 DEF Second
<1>3. /\ f.entry \in Seq(SlotKinds) /\ f.scope \in Scopes /\ f.entryMoved \in SUBSET Locals
      /\ f.entryDone \in SUBSET Locals /\ f.pick \in 1..2
  BY DEF BranchesOpen
<1>4. r \in BranchesOpen
  BY <1>3 DEF BranchesOpen
<1>5. /\ r.arm = 2 /\ r.first = sl /\ r.firstMoved = mv /\ r.entry = f.entry
      /\ r.scope = f.scope /\ r.pick = f.pick /\ r.entryMoved = f.entryMoved /\ r.entryDone = f.entryDone
  OBVIOUS
<1> HIDE DEF r
<1>6. /\ g \in BranchesOpen /\ g.arm = 2 /\ g.first = sl /\ g.firstMoved = mv /\ g.entry = f.entry
      /\ g.scope = f.scope /\ g.pick = f.pick /\ g.entryMoved = f.entryMoved /\ g.entryDone = f.entryDone
  BY <1>2, <1>4, <1>5
<1> QED BY <1>6

LEMMA OtherArmFits ==
  ASSUME EscapeInv, OtherArm
  PROVE  EscapeInv'
<1> DEFINE f == branch[1]
           g == [f EXCEPT !.arm = 2, !.first = slots, !.firstMoved = moved \ Inner]
<1>1. /\ Nesting = 1 /\ f.arm = 1 /\ branch' = <<g>>
      /\ IF taken THEN Settle(held, Outside, heap, {}) ELSE UNCHANGED <<held, places, heap, gone>>
      /\ slots' = f.entry /\ bound' = f.scope /\ moved' = f.entryMoved /\ done' = f.entryDone
      /\ taken' = (f.pick = 2)
      /\ UNCHANGED <<granted, terms, phase>>
  BY DEF OtherArm
<1>2. WalkTypesOK /\ ExecutionTypesOK
  BY DEF EscapeInv, CapturesTypeOK
<1>3. /\ f \in BranchesOpen /\ ScopeKept /\ phase = "body" /\ (taken <=> f.pick = 1) /\ (taken' <=> ~taken)
  <2>1. f \in BranchesOpen /\ ScopeKept /\ phase = "body" /\ (taken <=> f.arm = f.pick)
    BY <1>1, BranchIs
  <2>2. f.pick \in 1..2
    BY <2>1 DEF BranchesOpen
  <2>3. taken' <=> f.pick = 2
    BY <1>1
  <2> HIDE DEF f
  <2>4. taken <=> f.pick = 1
    BY <1>1, <2>1
  <2>5. f.pick = 1 \/ f.pick = 2
    BY <2>2
  <2> QED BY <2>1, <2>3, <2>4, <2>5
<1>4. /\ g \in BranchesOpen /\ g.arm = 2 /\ g.first = slots /\ g.firstMoved = moved \ Inner /\ g.entry = f.entry
      /\ g.scope = f.scope /\ g.pick = f.pick /\ g.entryMoved = f.entryMoved /\ g.entryDone = f.entryDone
  <2> DEFINE mv == moved \ Inner
  <2>1. slots \in Seq(SlotKinds) /\ mv \in SUBSET Locals
    BY <1>2 DEF WalkTypesOK
  <2>2. f \in BranchesOpen
    BY <1>3
  <2>3. g = Second(f, slots, mv)
    BY DEF Second
  <2> HIDE DEF f, g, mv
  <2> QED BY <2>1, <2>2, <2>3, SecondArm DEF mv
<1> HIDE DEF g
<1>5. branch'[1] = g /\ Len(branch') = 1 /\ branch' \in Seq(BranchesOpen) /\ Nesting' = 1
  BY <1>1, <1>4 DEF Nesting
<1>6. /\ f.entry \in Seq(SlotKinds) /\ f.scope \in Scopes /\ f.entryMoved \in SUBSET Locals
      /\ f.entryDone \in SUBSET Locals /\ f.pick \in 1..2
  BY <1>3 DEF BranchesOpen
<1> HIDE DEF f
<1>7. WalkTypesOK'
  BY <1>1, <1>2, <1>5, <1>6 DEF WalkTypesOK
<1>8. WalkInv'
  <2>1. RootsOK(f.scope) /\ \A n \in InScope(f.scope) : f.scope[n].level = 0
    BY <1>3 DEF ScopeKept, InScope, f
  <2>2. ScopeKept'
    BY <1>1, <1>4, <1>5, <2>1 DEF ScopeKept, InScope
  <2>3. RootsOK(bound')
    BY <1>1, <2>1
  <2>4. taken' <=> branch'[1].arm = branch'[1].pick
    BY <1>1, <1>4, <1>5
  <2>5. phase' = "body" /\ Nesting' # 0
    BY <1>1, <1>3, <1>5
  <2> QED BY <2>2, <2>3, <2>4, <2>5 DEF WalkInv, RootsOK, Places, InScope
<1>9. Free(heap[Outer]) /\ phase' # "returned"
  BY <1>1, <1>3 DEF EscapeInv, FitInv
<1>10. CASE taken
  <2>1. /\ Executing(held, Outside, heap, {}) /\ NamesFit(f.scope, Outside, heap) /\ Apart(f.scope, Outside)
    BY <1>1, <1>10, OutsideFits DEF f
  <2>2. Agrees(slots, f.scope, held, Outside, heap)
    BY <1>3, <1>10, <2>1, SeenTaken DEF Agrees
  <2>3. gone \in SUBSET Ids /\ Settle(held, Outside, heap, {})
    BY <1>1, <1>2, <1>10 DEF ExecutionTypesOK
  <2>4. Agrees(slots, f.scope, held', places', heap')
    BY <2>1, <2>2, <2>3, AgreesSettled
  <2>5. /\ held' = held /\ places' = Outside /\ heap' \in [Ids \cup {Outer} -> ClosureValues] /\ gone' \in SUBSET Ids
        /\ heap'[Outer] = heap[Outer]
    BY <2>1, <2>3, Settled
  <2>6. ~taken' /\ taken' \in BOOLEAN
    BY <1>1, <1>3, <1>10
  <2>7. ExecutionTypesOK'
    BY <2>1, <2>5, <2>6 DEF ExecutionTypesOK, Executing
  <2>8. SeenSlots' = slots /\ SeenScope' = f.scope
    BY <2>6, <1>4, <1>5 DEF SeenSlots, SeenScope
  <2>9. FitInv'
    BY <1>9, <2>4, <2>5, <2>8 DEF FitInv, Free, Outer
  <2> QED BY <1>7, <1>8, <2>7, <2>9 DEF EscapeInv, CapturesTypeOK
<1>11. CASE ~taken
  <2>1. taken' /\ taken' \in BOOLEAN /\ UNCHANGED <<held, places, heap, gone>>
    BY <1>1, <1>3, <1>11
  <2>2. SeenSlots' = f.entry /\ SeenScope' = f.scope /\ SeenSlots = f.entry /\ SeenScope = f.scope
    BY <1>1, <1>11, <2>1 DEF SeenSlots, SeenScope, f
  <2>3. Agrees(f.entry, f.scope, held, places, heap)
    BY <1>3, <2>2 DEF EscapeInv, FitInv
  <2>4. ExecutionTypesOK'
    BY <1>2, <1>1, <2>1 DEF ExecutionTypesOK
  <2>5. Agrees(SeenSlots', SeenScope', held', places', heap') /\ heap'[Outer] = heap[Outer]
    BY <2>1, <2>2, <2>3
  <2>6. FitInv'
    BY <1>9, <2>5 DEF FitInv, Free, Outer
  <2> QED BY <1>7, <1>8, <2>4, <2>6 DEF EscapeInv, CapturesTypeOK
<1> QED BY <1>10, <1>11

\* a slot of the join
LEMMA MergeIs ==
  ASSUME NEW s \in SlotKinds, NEW t \in SlotKinds, s.kind = t.kind, NEW owning \in BOOLEAN
  PROVE  /\ Merge(s, t, owning) \in SlotKinds
         /\ s.kind = "lit" /\ SameLiteral(s, t) => Merge(s, t, owning).kind = "lit"
         /\ s.kind # "lit" => Merge(s, t, owning).surviving = UnionSurviving(s.surviving, t.surviving)
<1> DEFINE kind == IF s.kind # "lit" THEN s.kind ELSE IF owning THEN "own" ELSE "fn"
           set == JoinedSet(s, t, owning)
           from == s.from \cup t.from
<1>1. s.lit \in LiteralBodies /\ t.lit \in LiteralBodies /\ s.surviving \in SurvivingSets /\ t.surviving \in SurvivingSets
  BY DEF SlotKinds
<1>2. set \in SurvivingSets /\ (s.kind # "lit" => set = UnionSurviving(s.surviving, t.surviving))
  <2>1. Surviving(s.lit, owning) \in SurvivingSets /\ Surviving(t.lit, owning) \in SurvivingSets
    BY <1>1, SurvivingTyped
  <2> QED BY <1>1, <2>1, EscapableUnion DEF JoinedSet
<1>3. kind \in {"lit", "fn", "own", "car"} /\ from \in SUBSET Locals
  BY DEF SlotKinds
<1>4. Merge(s, t, owning) = IF s.kind = "lit" /\ SameLiteral(s, t) THEN s ELSE Slot(kind, set, from)
  BY DEF Merge
<1> HIDE DEF kind, set, from
<1>5. Slot(kind, set, from) \in SlotKinds /\ Slot(kind, set, from).surviving = set
  BY <1>2, <1>3, SlotIs
<1> QED BY <1>2, <1>4, <1>5

\* a closure that fits a slot of an arm fits the slot of the join
LEMMA MergeFits ==
  ASSUME NEW s \in SlotKinds, NEW t \in SlotKinds, s.kind = t.kind, s.kind # "lit", NEW owning \in BOOLEAN,
         NEW c, Fits(s.surviving, c) \/ Fits(t.surviving, c)
  PROVE  Fits(Merge(s, t, owning).surviving, c)
<1>1. Merge(s, t, owning).surviving = UnionSurviving(s.surviving, t.surviving)
  BY MergeIs
<1>2. s.surviving \in SurvivingSets /\ t.surviving \in SurvivingSets
  BY DEF SlotKinds
<1> QED BY <1>1, <1>2, EscapableUnion DEF Fits

\* what a literal becomes at a boundary that leaves the frame
LEMMA LiteralFree ==
  ASSUME bound \in Scopes, places \in [Locals -> PlaceValues \cup {Nothing}], heap \in [Ids \cup {Outer} -> ClosureValues],
         RootsOK(bound), NamesFit(bound, places, heap),
         NEW l \in LiteralBodies, NEW owning \in BOOLEAN, Materializes(l, TRUE, owning)
  PROVE  Closure(l, owning) \in ClosureValues /\ Free(Closure(l, owning))
<1>1. Admitted(l, TRUE, owning) /\ Escapable(Surviving(l, owning))
  BY DEF Materializes, Admitted
<1>2. Closure(l, owning) \in ClosureValues /\ Fits(Surviving(l, owning), Closure(l, owning))
  BY <1>1, ClosureFits
<1> QED BY <1>1, <1>2 DEF Fits

LEMMA CloseBranchFits ==
  ASSUME EscapeInv, NEW tail \in BOOLEAN, NEW owning \in BOOLEAN, CloseBranch(tail, owning)
  PROVE  EscapeInv'
<1> DEFINE f == branch[1]
           first == f.first
           made == {i \in DOMAIN slots : slots[i].kind = "lit" /\ ~SameLiteral(first[i], slots[i])}
           literals == {first[i].lit : i \in made} \cup {slots[i].lit : i \in made}
           outcome(i) == IF f.pick = 1 THEN first[i] ELSE slots[i]
           vs == [i \in DOMAIN held |-> IF i \in made THEN Closure(outcome(i).lit, owning) ELSE held[i]]
           e == IF taken THEN Outside ELSE places
           joined == [i \in DOMAIN slots |-> Merge(first[i], slots[i], owning)]
<1>1. /\ Nesting = 1 /\ f.arm = 2 /\ Len(first) = Len(slots)
      /\ \A i \in DOMAIN slots : first[i].kind = slots[i].kind
      /\ tail = (made # {}) /\ (tail => bound = f.scope)
      /\ \A l \in literals : Materializes(l, TRUE, owning)
      /\ slots' = joined /\ bound' = f.scope /\ moved' = f.firstMoved \cup UNION {l.eats : l \in literals}
      /\ done' = f.entryDone \cup granted /\ granted' = {} /\ branch' = <<>>
      /\ phase' = IF tail THEN "tail" ELSE phase
      /\ taken' = TRUE /\ Settle(vs, e, heap, {}) /\ terms' = terms
  BY DEF CloseBranch
<1>2. WalkTypesOK /\ ExecutionTypesOK /\ RootsOK(bound)
  BY LevelsOK DEF EscapeInv, CapturesTypeOK
<1>3. f \in BranchesOpen /\ ScopeKept /\ phase = "body" /\ (taken <=> f.arm = f.pick)
  BY <1>1, BranchIs
<1>4. /\ first \in Seq(SlotKinds) /\ f.scope \in Scopes /\ f.firstMoved \in SUBSET Locals /\ f.entryDone \in SUBSET Locals
      /\ f.pick \in 1..2
  BY <1>3 DEF BranchesOpen
<1>5. slots \in Seq(SlotKinds) /\ DOMAIN first = DOMAIN slots
      /\ \A i \in DOMAIN slots : slots[i] \in SlotKinds /\ first[i] \in SlotKinds
  BY <1>1, <1>2, <1>4 DEF WalkTypesOK
<1>6. taken <=> f.pick = 2
  BY <1>1, <1>3
<1>7. literals \subseteq LiteralBodies
  BY <1>5 DEF SlotKinds
<1>8. WalkTypesOK'
  <2>1. joined \in Seq(SlotKinds)
    <3>1. \A i \in DOMAIN slots : Merge(first[i], slots[i], owning) \in SlotKinds
      BY <1>1, <1>5, MergeIs
    <3>2. DOMAIN slots = 1..Len(slots) /\ Len(slots) \in Nat
      BY <1>5
    <3> QED BY <3>1, <3>2
  <2>2. UNION {l.eats : l \in literals} \subseteq Locals
    <3> HIDE DEF literals
    <3> QED BY <1>7 DEF LiteralBodies
  <2>3. moved' \in SUBSET Locals /\ done' \in SUBSET Locals /\ granted' \in SUBSET Locals
    BY <1>1, <1>2, <1>4, <2>2 DEF WalkTypesOK
  <2>4. branch' \in Seq(BranchesOpen) /\ Len(branch') = 0 /\ phase' \in {"body", "tail", "returned"}
    BY <1>1, <1>3
  <2> HIDE DEF f, joined
  <2> QED BY <1>1, <1>2, <1>4, <2>1, <2>3, <2>4 DEF WalkTypesOK
<1>9. WalkInv'
  <2>1. RootsOK(f.scope) /\ \A n \in InScope(f.scope) : f.scope[n].level = 0
    BY <1>3 DEF ScopeKept, InScope
  <2> HIDE DEF f
  <2>2. RootsOK(bound') /\ \A n \in Scoped' : bound'[n].level = 0
    BY <1>1, <2>1 DEF Scoped, InScope
  <2>3. Nesting' = 0 /\ taken'
    BY <1>1 DEF Nesting
  <2> QED BY <2>2, <2>3 DEF WalkInv, RootsOK, Places, InScope
<1>10. /\ SlotsFit(IF taken THEN slots ELSE first, held)
       /\ NamesFit(IF taken THEN bound ELSE f.scope, places, heap) /\ Apart(IF taken THEN bound ELSE f.scope, places)
       /\ Free(heap[Outer])
  BY <1>1, <1>3 DEF EscapeInv, FitInv, SeenSlots, SeenScope, Agrees
<1>11. DOMAIN held = DOMAIN slots /\ Len(held) = Len(slots) /\ held \in Seq(ClosureValues)
  BY <1>1, <1>2, <1>10 DEF SlotsFit, ExecutionTypesOK, WalkTypesOK
<1>12. ASSUME NEW i \in made PROVE Closure(outcome(i).lit, owning) \in ClosureValues /\ Free(Closure(outcome(i).lit, owning))
  <2>1. bound = f.scope
    BY <1>1
  <2>2. NamesFit(bound, places, heap)
    BY <1>10, <2>1
  <2>3. outcome(i).lit \in literals
    OBVIOUS
  <2>4. outcome(i).lit \in LiteralBodies /\ Materializes(outcome(i).lit, TRUE, owning)
    BY <1>1, <1>7, <2>3
  <2>5. bound \in Scopes /\ places \in [Locals -> PlaceValues \cup {Nothing}] /\ heap \in [Ids \cup {Outer} -> ClosureValues]
    BY <1>2 DEF WalkTypesOK, ExecutionTypesOK
  <2> HIDE DEF outcome
  <2> QED BY <1>2, <2>2, <2>4, <2>5, LiteralFree
<1>13. vs \in Seq(ClosureValues) /\ Len(vs) = Len(held) /\ DOMAIN vs = DOMAIN slots
  <2>1. \A i \in DOMAIN held : (IF i \in made THEN Closure(outcome(i).lit, owning) ELSE held[i]) \in ClosureValues
    BY <1>11, <1>12
  <2>2. DOMAIN held = 1..Len(held) /\ Len(held) \in Nat
    BY <1>11
  <2> HIDE DEF made, outcome
  <2> QED BY <2>1, <2>2, <1>11
<1>14. SlotsFit(joined, vs)
  <2>1. DOMAIN joined = DOMAIN slots /\ Len(vs) = Len(joined)
    BY <1>11, <1>13, <1>5
  <2>2. ASSUME NEW i \in DOMAIN slots, joined[i].kind # "lit" PROVE Fits(joined[i].surviving, vs[i])
    <3>1. joined[i] = Merge(first[i], slots[i], owning) /\ first[i] \in SlotKinds /\ slots[i] \in SlotKinds
          /\ first[i].kind = slots[i].kind
      BY <1>1, <1>5
    <3>2. CASE i \in made
      BY <3>2, <1>11, <1>12 DEF Fits
    <3>3. CASE i \notin made
      <4>1. first[i].kind # "lit"
        BY <2>2, <3>1, <3>3, MergeIs
      <4>2. vs[i] = held[i]
        BY <3>3, <1>11
      <4>3. Fits(first[i].surviving, held[i]) \/ Fits(slots[i].surviving, held[i])
        BY <1>5, <1>10, <3>1, <4>1 DEF SlotsFit
      <4> QED BY <3>1, <4>1, <4>2, <4>3, MergeFits
    <3> QED BY <3>2, <3>3
  <2> HIDE DEF joined, vs
  <2> QED BY <2>1, <2>2 DEF SlotsFit
<1>15. Executing(vs, e, heap, {}) /\ NamesFit(f.scope, e, heap) /\ Apart(f.scope, e)
  <2>1. CASE taken
    <3>1. /\ Executing(held, Outside, heap, {}) /\ NamesFit(f.scope, Outside, heap) /\ Apart(f.scope, Outside)
      BY <1>1, <2>1, OutsideFits
    <3> HIDE DEF vs
    <3> QED BY <2>1, <3>1, <1>13 DEF Executing
  <2>2. CASE ~taken
    <3> HIDE DEF vs
    <3> QED BY <2>2, <1>2, <1>10, <1>13 DEF Executing, ExecutionTypesOK
  <2> QED BY <2>1, <2>2
<1> HIDE DEF f, vs, e, joined, first, made, literals, outcome
<1>16. Agrees(slots', bound', vs, e, heap)
  BY <1>1, <1>14, <1>15 DEF Agrees
<1>17. gone \in SUBSET Ids /\ Settle(vs, e, heap, {})
  BY <1>1, <1>2 DEF ExecutionTypesOK
<1>18. Agrees(slots', bound', held', places', heap')
  BY <1>15, <1>16, <1>17, AgreesSettled
<1>19. /\ held' = vs /\ places' = e /\ heap' \in [Ids \cup {Outer} -> ClosureValues] /\ gone' \in SUBSET Ids
       /\ heap'[Outer] = heap[Outer]
  BY <1>15, <1>17, Settled
<1>20. ExecutionTypesOK'
  BY <1>1, <1>15, <1>19 DEF ExecutionTypesOK, Executing
<1>21. SeenSlots' = slots' /\ SeenScope' = bound' /\ phase' # "returned"
  BY <1>1, <1>3 DEF SeenSlots, SeenScope
<1>22. FitInv'
  BY <1>10, <1>18, <1>19, <1>21 DEF FitInv, Free, Outer
<1> QED BY <1>8, <1>9, <1>20, <1>22 DEF EscapeInv, CapturesTypeOK

LEMMA ReturnFits ==
  ASSUME EscapeInv, NEW owning \in BOOLEAN, Return(owning)
  PROVE  EscapeInv'
<1> DEFINE literals == {i \in DOMAIN slots : slots[i].kind = "lit"}
           vs == [i \in DOMAIN held |-> IF i \in literals THEN Closure(slots[i].lit, owning) ELSE held[i]]
           none == [n \in Locals |-> Nothing]
<1>1. /\ phase # "returned" /\ Nesting = 0 /\ \A i \in literals : Materializes(slots[i].lit, TRUE, owning)
      /\ \A i \in DOMAIN slots \ literals : Escapable(slots[i].surviving)
      /\ held' = vs /\ phase' = "returned" /\ slots' = <<>> /\ bound' = none /\ places' = bound'
      /\ done' = {} /\ moved' = {} /\ gone' = {} /\ terms' = 0
      /\ UNCHANGED <<granted, branch, heap, taken>>
  BY DEF Return
<1>2. WalkTypesOK /\ ExecutionTypesOK /\ RootsOK(bound) /\ taken
  BY <1>1, LevelsOK DEF EscapeInv, CapturesTypeOK, WalkInv
<1>3. SlotsFit(slots, held) /\ NamesFit(bound, places, heap) /\ Free(heap[Outer])
  BY <1>1, <1>2, SeenTaken
<1>4. /\ slots \in Seq(SlotKinds) /\ held \in Seq(ClosureValues) /\ DOMAIN slots = DOMAIN held
      /\ DOMAIN held = 1..Len(held) /\ Len(held) \in Nat
  BY <1>2, <1>3 DEF SlotsFit, WalkTypesOK, ExecutionTypesOK
<1>5. \A i \in DOMAIN held : vs[i] \in ClosureValues /\ Free(vs[i])
  <2>1. ASSUME NEW i \in literals PROVE Closure(slots[i].lit, owning) \in ClosureValues /\ Free(Closure(slots[i].lit, owning))
    <3>1. slots[i].lit \in LiteralBodies /\ Materializes(slots[i].lit, TRUE, owning)
      <4>1. slots[i] \in SlotKinds
        BY <1>4
      <4>2. slots[i].lit \in LiteralBodies
        BY <4>1 DEF SlotKinds
      <4> QED BY <1>1, <4>2
    <3>2. bound \in Scopes /\ places \in [Locals -> PlaceValues \cup {Nothing}] /\ heap \in [Ids \cup {Outer} -> ClosureValues]
      BY <1>2 DEF WalkTypesOK, ExecutionTypesOK
    <3> QED BY <1>2, <1>3, <3>1, <3>2, LiteralFree
  <2>2. ASSUME NEW i \in DOMAIN held, i \notin literals PROVE held[i] \in ClosureValues /\ Free(held[i])
    BY <2>2, <1>1, <1>3, <1>4 DEF SlotsFit, Fits
  <2> QED BY <2>1, <2>2
<1>6. vs \in Seq(ClosureValues) /\ DOMAIN vs = DOMAIN held
  <2> HIDE DEF literals
  <2> QED BY <1>4, <1>5
<1> HIDE DEF vs, literals
<1>7. none \in Scopes /\ none \in [Locals -> PlaceValues \cup {Nothing}] /\ InScope(none) = {}
  BY DEF Scopes, InScope
<1> HIDE DEF none
<1>8. WalkTypesOK' /\ ExecutionTypesOK'
  BY <1>1, <1>2, <1>6, <1>7 DEF WalkTypesOK, ExecutionTypesOK
<1>9. WalkInv'
  <2>1. RootsOK(bound') /\ Scoped' = {} /\ Nesting' = 0 /\ taken'
    BY <1>1, <1>2, <1>7 DEF RootsOK, Scoped, InScope, Nesting
  <2> QED BY <2>1 DEF WalkInv, RootsOK, Places, InScope
<1>10. FitInv'
  BY <1>1, <1>3, <1>5, <1>6 DEF FitInv, Free, Outer
<1> QED BY <1>8, <1>9, <1>10 DEF EscapeInv, CapturesTypeOK

LEMMA InitFits ==
  ASSUME CapturesInit
  PROVE  EscapeInv
<1>1. PICK k \in 0..MaxParameters : \E kinds \in [1..k -> {"ref", "car", "lin"}] :
        /\ bound = [n \in Locals |-> IF n > k THEN Nothing ELSE Parameter(kinds[n])]
        /\ places = [n \in Locals |-> IF n > k THEN Nothing ELSE Bare(IF kinds[n] = "ref" THEN Outer ELSE n)]
  BY DEF CapturesInit
<1>2. PICK kinds \in [1..k -> {"ref", "car", "lin"}] :
        /\ bound = [n \in Locals |-> IF n > k THEN Nothing ELSE Parameter(kinds[n])]
        /\ places = [n \in Locals |-> IF n > k THEN Nothing ELSE Bare(IF kinds[n] = "ref" THEN Outer ELSE n)]
  BY <1>1
<1>3. /\ branch = <<>> /\ slots = <<>> /\ done = {} /\ moved = {} /\ granted = {} /\ terms = MaxTerms /\ phase = "body"
      /\ held = <<>> /\ heap = [s \in Ids \cup {Outer} |-> NoClosure] /\ gone = {} /\ taken = TRUE
  BY DEF CapturesInit
<1>4. k \in Nat /\ k <= MaxNames /\ k <= MaxIds /\ MaxNames \in Nat /\ MaxIds \in Nat /\ MaxTerms \in Nat
  BY CapturesAssumption
<1>5. \A n \in Locals : n <= k => n \in 1..k /\ n \in Ids /\ n \in Nat
  BY <1>4 DEF Locals, Ids
<1>6. \A n \in Locals : n \in Nat /\ (n > k <=> ~(n <= k))
  BY <1>4 DEF Locals
<1>7. \A kind \in {"ref", "car", "lin"} :
        LET v == Parameter(kind) IN
        v \in Bindings /\ v.kind = kind /\ v.root = Nothing /\ v.level = 0 /\ v.surviving = NoSet /\ (kind = "ref" => v.of = "car")
  <2>1. Len(branch) = 0
    BY <1>3
  <2> QED BY <2>1, NoSetIs DEF Parameter, Given, Binding, Bindings
<1>8. \A st \in Ids \cup {Outer} : Bare(st) \in PlaceValues /\ Bare(st).st = st
  BY NoSetIs DEF Bare, PlaceValues
<1>9. \A n \in Locals : IF n <= k THEN bound[n] = Parameter(kinds[n]) /\ kinds[n] \in {"ref", "car", "lin"}
                                       /\ places[n] = Bare(IF kinds[n] = "ref" THEN Outer ELSE n)
                        ELSE bound[n] = Nothing /\ places[n] = Nothing
  BY <1>2, <1>5, <1>6
<1>10. bound \in Scopes
  <2>1. \A n \in Locals : bound[n] \in Bindings \cup {Nothing}
    BY <1>7, <1>9
  <2>2. bound = [n \in Locals |-> bound[n]]
    BY <1>2
  <2> QED BY <2>1, <2>2 DEF Scopes
<1>11. places \in [Locals -> PlaceValues \cup {Nothing}]
  <2>1. \A n \in Locals : places[n] \in PlaceValues \cup {Nothing}
    BY <1>5, <1>8, <1>9
  <2>2. places = [n \in Locals |-> places[n]]
    BY <1>2
  <2> QED BY <2>1, <2>2
<1>12. CapturesTypeOK
  BY <1>3, <1>4, <1>10, <1>11, NoSetIs DEF CapturesTypeOK, WalkTypesOK, ExecutionTypesOK
<1>13. \A n \in InScope(bound) : n <= k /\ n \in Locals /\ bound[n].kind = kinds[n] /\ bound[n].root = Nothing /\ bound[n].level = 0
                                 /\ bound[n].surviving = NoSet /\ (kinds[n] = "ref" => bound[n].of = "car")
  BY <1>7, <1>9 DEF InScope
<1>14. WalkInv
  BY <1>3, <1>13 DEF WalkInv, RootsOK, Nesting, Scoped, InScope
<1>15. \A n \in InScope(bound) : places[n] \in PlaceValues /\ places[n].st = (IF kinds[n] = "ref" THEN Outer ELSE n)
                                 /\ n \in Ids
  BY <1>5, <1>8, <1>9, <1>13
<1>16. NamesFit(bound, places, heap)
  <2>1. \A n \in InScope(bound) : heap[places[n].st] = NoClosure
    BY <1>3, <1>15
  <2>2. \A n \in InScope(bound) : bound[n].kind # "fn"
    BY <1>9, <1>13
  <2>3. Nothing \notin PlaceValues
    BY CapturesAssumption
  <2> QED BY <1>13, <1>15, <2>1, <2>2, <2>3, NoSetIs DEF NamesFit, Fits
<1>17. Apart(bound, places)
  BY <1>13, <1>15 DEF Apart, Places
<1>18. SlotsFit(slots, held)
  BY <1>3 DEF SlotsFit
<1>19. FitInv
  <2>1. SeenSlots = slots /\ SeenScope = bound
    BY <1>3 DEF SeenSlots, SeenScope
  <2>2. Free(heap[Outer])
    BY <1>3, NoSetIs
  <2> QED BY <1>3, <1>16, <1>17, <1>18, <2>1, <2>2 DEF FitInv, Agrees
<1> QED BY <1>12, <1>14, <1>19 DEF EscapeInv

LEMMA NextFits ==
  ASSUME ~Has("storedInArm"), ~Has("storedByCallee"), EscapeInv, [CapturesNext]_closures
  PROVE  EscapeInv'
<1>1. CASE phase = "body" /\ terms > 0 /\ terms' = terms - 1 /\ Term
  <2>1. terms' \in Nat
    BY <1>1 DEF EscapeInv, CapturesTypeOK, WalkTypesOK
  <2>2. CASE \E n \in Locals : Make(n, "lin") \/ Make(n, "car") \/ BindTop(n) \/ DropLocal(n) \/ PushLocal(n)
    BY <1>1, <2>1, <2>2, MakeFits, BindTopFits, DropLocalFits, PushLocalFits
  <2>3. CASE \E n, r \in Locals, mutable \in BOOLEAN : n # r /\ Borrow(n, r, mutable)
    BY <1>1, <2>1, <2>3, BorrowFits
  <2>4. CASE \E l \in Literals : PushLiteral(l)
    BY <1>1, <2>1, <2>4, PushLiteralFits
  <2>5. CASE \E to \in {"fn", "own", "car"} : PassOn(to)
    BY <1>1, <2>1, <2>5, PassOnFits
  <2>6. CASE \E r \in Locals : Fetch(r) \/ Store(r) \/ StoreByCall(r)
    <3>1. \A r \in Locals : ~StoreByCall(r)
      BY DEF StoreByCall
    <3> QED BY <1>1, <2>1, <2>6, <3>1, FetchFits, StoreFits
  <2>7. CASE Call
    BY <1>1, <2>1, <2>7, CallFits
  <2> QED BY <1>1, <2>2, <2>3, <2>4, <2>5, <2>6, <2>7 DEF Term
<1>2. CASE \E pick \in 1..2 : OpenBranch(pick)
  BY <1>2, OpenBranchFits
<1>3. CASE OtherArm
  BY <1>3, OtherArmFits
<1>4. CASE \E tail, owning \in BOOLEAN : CloseBranch(tail, owning)
  BY <1>4, CloseBranchFits
<1>5. CASE \E owning \in BOOLEAN : Return(owning)
  BY <1>5, ReturnFits
<1>6. CASE UNCHANGED closures
  <2>1. UNCHANGED <<slots, bound, done, moved, granted, branch, terms, phase, held, places, heap, gone, taken>>
    BY <1>6 DEF closures, walk, execution
  <2>2. WalkTypesOK' /\ ExecutionTypesOK'
    BY <2>1 DEF EscapeInv, CapturesTypeOK, WalkTypesOK, ExecutionTypesOK
  <2>3. WalkInv'
    BY <2>1, BoundSame
  <2>4. SeenSlots' = SeenSlots /\ SeenScope' = SeenScope
    BY <2>1 DEF SeenSlots, SeenScope
  <2>5. FitInv'
    BY <2>1, <2>4 DEF EscapeInv, FitInv, Agrees, SlotsFit, NamesFit, Apart, Free, Outer
  <2> QED BY <2>2, <2>3, <2>5 DEF EscapeInv, CapturesTypeOK
<1> QED BY <1>1, <1>2, <1>3, <1>4, <1>5, <1>6 DEF CapturesNext

\* what is reached from what is free is free
LEMMA ReachFree ==
  ASSUME heap \in [Ids \cup {Outer} -> ClosureValues], Free(heap[Outer]), NEW given, \A c \in given : Free(c)
  PROVE  \A c \in Reach(given) : Free(c)
<1> DEFINE Closed(S) == Pointed(given) \subseteq S /\ \A s \in S : Pointed({heap[s]}) \subseteq S
<1>1. Closed({Outer})
  BY DEF Pointed, Free
<1>2. {Outer} \in SUBSET DOMAIN heap
  OBVIOUS
<1>3. \A t \in DOMAIN heap : (\A S \in SUBSET DOMAIN heap : Closed(S) => t \in S) => t = Outer
  <2> HIDE DEF Closed
  <2> QED BY <1>1, <1>2
<1>4. Reach(given) = given \cup {heap[s] : s \in {t \in DOMAIN heap : \A S \in SUBSET DOMAIN heap : Closed(S) => t \in S}}
  BY DEF Reach
<1> HIDE DEF Closed
<1> QED BY <1>3, <1>4

\* The invariant: every closure of the execution is as free of the frame as
\* the set the checker carries for it says.
THEOREM ClosuresFit ==
  ASSUME ~Has("storedInArm"), ~Has("storedByCallee")
  PROVE  CapturesSpec => []EscapeInv
<1>1. CapturesInit => EscapeInv
  BY InitFits
<1>2. EscapeInv /\ [CapturesNext]_closures => EscapeInv'
  BY NextFits
<1> QED BY <1>1, <1>2, PTL DEF CapturesSpec

\* No closure that a word gives to its caller points into the frame: the
\* admission of literals and what is checked of the values that leave the word
\* (check_capture_admission, R18, R22, R24) are enough, whatever the body.
THEOREM NoCaptureEscapes ==
  ASSUME ~Has("storedInArm"), ~Has("storedByCallee")
  PROVE  CapturesSpec => []NothingEscapes
<1>1. EscapeInv => NothingEscapes
  <2> SUFFICES ASSUME EscapeInv, phase = "returned",
                      NEW c \in Reach({held[i] : i \in DOMAIN held} \cup {heap[Outer]})
               PROVE  Free(c)
    BY DEF NothingEscapes, Free
  <2>1. heap \in [Ids \cup {Outer} -> ClosureValues] /\ Free(heap[Outer]) /\ \A i \in DOMAIN held : Free(held[i])
    BY DEF EscapeInv, CapturesTypeOK, ExecutionTypesOK, FitInv
  <2>2. \A d \in {held[i] : i \in DOMAIN held} \cup {heap[Outer]} : Free(d)
    BY <2>1
  <2> QED BY <2>1, <2>2, ReachFree
<1> QED BY <1>1, ClosuresFit, PTL

-----------------------------------------------------------------------------
(* What a closure captured outlives the closure.  What is alive, given a     *)
(* stack, a scope and the names that are dead.                               *)

OnStack(s) == IF s.kind = "lit" THEN Captured(s.lit) ELSE MemberNames(s.surviving)
KeepsIn(sl, b, d, A) ==
  /\ InScope(b) \ d \subseteq A
  /\ \A i \in DOMAIN sl : OnStack(sl[i]) \cap InScope(b) \subseteq A
  /\ \A n \in A : MemberNames(b[n].surviving) \cap InScope(b) \subseteq A
Alive(sl, b, d) == {n \in InScope(b) : \A A \in SUBSET InScope(b) : KeepsIn(sl, b, d, A) => n \in A}

\* a reference of the caller there is at most one of
IsGiven(b, n) == n \in InScope(b) /\ b[n].kind = "ref" /\ b[n].root = Nothing
OneGiven(b) == \A m, n \in Locals : IsGiven(b, m) /\ IsGiven(b, n) => m = n /\ b[n].level = 0
\* what is captured is in scope, and is no reference to a carrier in the frame
MembersOK(b, names) ==
  \A n \in names : n \in InScope(b) /\ b[n].kind # "fn" /\ (b[n].kind = "ref" /\ b[n].of = "car" => b[n].root = Nothing)
SlotOK(b, x) == MembersOK(b, MemberNames(x.surviving)) /\ (x.kind = "lit" => x.surviving = NoSet)
SlotsOK(b, sl) == \A i \in DOMAIN sl : SlotOK(b, sl[i])
ScopeOK(b) == OneGiven(b) /\ \A n \in InScope(b) : MembersOK(b, MemberNames(b[n].surviving))

\* nothing that is captured is consumed, nor what a live reference is rooted in
Whole(sl, b, A, mv) ==
  /\ \A i \in DOMAIN sl : MemberNames(sl[i].surviving) \cap mv = {}
  /\ \A n \in A : MemberNames(b[n].surviving) \cap mv = {}
  /\ \A r \in A : b[r].kind = "ref" => b[r].root \notin mv
\* no two live references conflict
Exclusive(b, A) ==
  \A r, s \in A :
    r # s /\ b[r].kind = "ref" /\ b[s].kind = "ref" /\ b[r].root = b[s].root => ~b[r].mutable /\ ~b[s].mutable

BranchAlive ==
  LET f == branch[1]  dead == f.entryDone \cup granted  entry == Alive(f.entry, f.scope, f.entryDone) IN
  /\ SlotsOK(f.scope, f.entry) /\ ScopeOK(f.scope)
  /\ Whole(f.entry, f.scope, entry, f.entryMoved) /\ Exclusive(f.scope, entry)
  /\ dead \subseteq InScope(f.scope) /\ done \cap InScope(f.scope) \subseteq dead
  /\ Alive(slots, bound, done) \cap InScope(f.scope) \subseteq entry
  /\ f.arm = 2 =>
       /\ SlotsOK(f.scope, f.first) /\ Whole(f.first, f.scope, Alive(f.first, f.scope, dead), f.firstMoved)
       /\ Alive(f.first, f.scope, dead) \subseteq entry
AliveInv ==
  /\ SlotsOK(bound, slots) /\ ScopeOK(bound) /\ done \subseteq InScope(bound)
  /\ Exclusive(bound, Alive(slots, bound, done))
  /\ phase = "body" => Whole(slots, bound, Alive(slots, bound, done), moved)
  /\ Nesting = 0 => granted = {}
  /\ Nesting = 1 => BranchAlive
-----------------------------------------------------------------------------
(* What the closures of the execution point to.                              *)

\* the name by which a closure may point to a storage
Covers(n, p, b, e) ==
  /\ n \in InScope(b) /\ e[n].st = p.st
  /\ IF p.by = Nothing THEN b[n].kind \in {"lin", "car"} ELSE n = p.by /\ b[n].kind = "ref"
OfCaller(p, b) == p.st = Outer /\ IsGiven(b, p.by)
Covered(c, names, b, e) == \A p \in c.pts : OfCaller(p, b) \/ (p.st # Outer /\ \E n \in names : Covers(n, p, b, e))
\* an owning closure holds copies of the carriers it captured
Through(names, b) == names \cup UNION {MemberNames(b[n].surviving) : n \in {m \in names : b[m].kind = "car"}}
SlotCovered(x, v, b, e) ==
  LET names == MemberNames(x.surviving) IN
  /\ x.kind = "own" => Covered(v, Through(names, b), b, e)
  /\ x.kind \in {"fn", "car"} => Covered(v, names, b, e)
  /\ x.kind # "own" => v.owns = {}
  /\ x.kind = "lit" => v = NoClosure
SlotsCovered(sl, b, vs, e) == \A i \in DOMAIN sl : SlotCovered(sl[i], vs[i], b, e)
NameCovered(n, b, e, h) ==
  LET names == MemberNames(b[n].surviving) IN
  /\ b[n].kind = "fn" => Covered(e[n].clo, names, b, e) /\ e[n].clo.owns = {}
  /\ b[n].kind = "car" => Covered(h[e[n].st], names, b, e) /\ h[e[n].st].owns = {}
  /\ b[n].kind = "lin" => h[e[n].st] = NoClosure
NamesCovered(b, e, h) == \A n \in InScope(b) : NameCovered(n, b, e, h)
OuterCovered(b, h) == h[Outer].owns = {} /\ \A p \in h[Outer].pts : OfCaller(p, b)
Disposed(b, mv, e, g) == \A n \in Places(b) : e[n].st \in g => n \in mv
Owned(b, mv, vs, e, g) ==
  /\ \A i \in DOMAIN vs : vs[i].owns \cap g = {}
  /\ \A i \in DOMAIN vs : \A n \in Places(b) : e[n].st \in vs[i].owns => n \in mv
  /\ \A i, j \in DOMAIN vs : i # j => vs[i].owns \cap vs[j].owns = {}
Covering(sl, b, mv, vs, e, h, g) ==
  SlotsCovered(sl, b, vs, e) /\ NamesCovered(b, e, h) /\ OuterCovered(b, h) /\ Disposed(b, mv, e, g) /\ Owned(b, mv, vs, e, g)
SeenMoved == IF taken THEN moved ELSE IF branch[1].arm = 1 THEN branch[1].entryMoved ELSE branch[1].firstMoved
CoverInv ==
  /\ phase # "returned" => Covering(SeenSlots, SeenScope, SeenMoved, held, places, heap, gone)
  \* the join of two literals consumes, and nothing is disposed of after it
  /\ phase = "tail" => \E mv \in SUBSET Locals :
       Whole(slots, bound, Alive(slots, bound, done), mv) /\ Disposed(bound, mv, places, gone)
IntactInv == EscapeInv /\ AliveInv /\ CoverInv

-----------------------------------------------------------------------------
(* What is alive is the least set there is.                                  *)

LEMMA AliveLeast ==
  ASSUME NEW sl, NEW b, NEW d, NEW A \in SUBSET InScope(b), KeepsIn(sl, b, d, A)
  PROVE  Alive(sl, b, d) \subseteq A
BY DEF Alive

LEMMA AliveKeeps ==
  ASSUME NEW sl, NEW b, NEW d
  PROVE  KeepsIn(sl, b, d, Alive(sl, b, d)) /\ Alive(sl, b, d) \subseteq InScope(b)
<1> DEFINE A == Alive(sl, b, d)
<1>1. A \subseteq InScope(b)
  BY DEF Alive
<1>2. InScope(b) \ d \subseteq A
  BY DEF Alive, KeepsIn
<1>3. \A i \in DOMAIN sl : OnStack(sl[i]) \cap InScope(b) \subseteq A
  BY DEF Alive, KeepsIn
<1>4. ASSUME NEW n \in A, NEW m \in MemberNames(b[n].surviving) \cap InScope(b) PROVE m \in A
  <2>1. ASSUME NEW Y \in SUBSET InScope(b), KeepsIn(sl, b, d, Y) PROVE m \in Y
    <3>1. n \in Y
      BY <2>1, AliveLeast
    <3> QED BY <2>1, <3>1, <1>4 DEF KeepsIn
  <2> QED BY <1>4, <2>1 DEF Alive
<1> QED BY <1>1, <1>2, <1>3, <1>4 DEF KeepsIn

LEMMA NamesTyped ==
  ASSUME NEW s \in SurvivingSets
  PROVE  MemberNames(s) \subseteq Locals
BY DEF MemberNames, SurvivingSets

LEMMA NamesUnion ==
  ASSUME NEW s \in SurvivingSets, NEW t \in SurvivingSets
  PROVE  MemberNames(UnionSurviving(s, t)) = MemberNames(s) \cup MemberNames(t)
BY DEF MemberNames, UnionSurviving

LEMMA NoNames == MemberNames(NoSet) = {}
BY DEF MemberNames, NoSet

LEMMA NamesSurviving ==
  ASSUME NEW l, NEW owning
  PROVE  MemberNames(Surviving(l, owning)) = {n \in Captured(l) : ~Moves(n, owning)}
<1> DEFINE S == {n \in Captured(l) : ~Moves(n, owning)}
           members == {<<n, FrameRooted(n)>> : n \in S}
<1>1. MemberNames(Surviving(l, owning)) = {m[1] : m \in members}
  BY DEF Surviving, MemberNames
<1> HIDE DEF S
<1>2. \A m \in members : m[1] \in S
  OBVIOUS
<1>3. \A n \in S : <<n, FrameRooted(n)>> \in members /\ <<n, FrameRooted(n)>>[1] = n
  OBVIOUS
<1> HIDE DEF members
<1>4. MemberNames(Surviving(l, owning)) = S
  BY <1>1, <1>2, <1>3
<1> QED BY <1>4 DEF S

\* what the checker has for it
LEMMA AliveIs ==
  ASSUME WalkTypesOK, NEW d
  PROVE  Alive(slots, bound, d) = Scoped \cap ((Locals \ d) \cup CaptureAliveOf(d))
<1> DEFINE A == Alive(slots, bound, d)
           B == Scoped \cap ((Locals \ d) \cup CaptureAliveOf(d))
<1>1. Scoped = InScope(bound) /\ Scoped \subseteq Locals
  BY DEF Scoped, InScope
<1>2. AliveOnStack = UNION {OnStack(s) : s \in SlotsOf(slots)}
  BY DEF AliveOnStack, OnStack
<1>3. \A n : n \in AliveOnStack <=> \E i \in DOMAIN slots : n \in OnStack(slots[i])
  BY <1>2 DEF SlotsOf
<1>4. AliveOnStack \subseteq Locals
  <2>1. \A i \in DOMAIN slots : OnStack(slots[i]) \subseteq Locals
    <3> SUFFICES ASSUME NEW i \in DOMAIN slots PROVE OnStack(slots[i]) \subseteq Locals
      OBVIOUS
    <3>1. slots[i] \in SlotKinds
      BY DEF WalkTypesOK
    <3>2. slots[i].lit \in LiteralBodies /\ slots[i].surviving \in SurvivingSets
      BY <3>1 DEF SlotKinds
    <3>3. Captured(slots[i].lit) \subseteq Locals
      BY <3>2 DEF Captured, LiteralBodies
    <3> QED BY <3>2, <3>3, NamesTyped DEF OnStack
  <2> QED BY <1>3, <2>1
<1>5. \A n \in Scoped : MemberNames(bound[n].surviving) \subseteq Locals
  <2> SUFFICES ASSUME NEW n \in Scoped PROVE MemberNames(bound[n].surviving) \subseteq Locals
    OBVIOUS
  <2>1. bound[n] \in Bindings
    BY DEF Scoped, WalkTypesOK, Scopes
  <2>2. bound[n].surviving \in SurvivingSets
    BY <2>1 DEF Bindings
  <2> QED BY <2>2, NamesTyped
<1>6. A \subseteq B
  <2>1. Scoped \ d \subseteq B
    BY <1>1
  <2>2. AliveOnStack \cap Scoped \subseteq B
    BY <1>1, <1>4 DEF CaptureAliveOf, KeepsAlive
  <2>3. ASSUME NEW n \in B, NEW m \in MemberNames(bound[n].surviving), m \in Scoped PROVE m \in B
    <3>1. ASSUME NEW names \in SUBSET Locals, KeepsAlive(names, d) PROVE m \in names
      <4>1. n \in Scoped /\ (n \notin d \/ n \in names)
        BY <3>1 DEF CaptureAliveOf
      <4> QED BY <2>3, <3>1, <4>1 DEF KeepsAlive
    <3>2. m \in CaptureAliveOf(d)
      BY <2>3, <3>1, <1>1 DEF CaptureAliveOf
    <3> QED BY <2>3, <3>2
  <2>4. KeepsIn(slots, bound, d, B)
    <3> HIDE DEF B
    <3> QED BY <2>1, <2>2, <2>3, <1>1, <1>3 DEF KeepsIn
  <2>5. B \in SUBSET InScope(bound)
    BY <1>1
  <2> HIDE DEF B
  <2> QED BY <2>4, <2>5, AliveLeast
<1>7. B \subseteq A
  <2> DEFINE names == A \cup (Locals \ Scoped)
  <2>1. KeepsIn(slots, bound, d, A) /\ A \subseteq InScope(bound)
    BY AliveKeeps
  <2> HIDE DEF A
  <2>2. AliveOnStack \subseteq names
    BY <2>1, <1>1, <1>3, <1>4 DEF KeepsIn
  <2>3. \A n \in Scoped : n \notin d \/ n \in names => n \in A
    BY <2>1, <1>1 DEF KeepsIn
  <2>4. \A n \in Scoped : n \in A => MemberNames(bound[n].surviving) \subseteq names
    BY <2>1, <1>1, <1>5 DEF KeepsIn
  <2>5. KeepsAlive(names, d) /\ names \in SUBSET Locals
    <3>1. A \subseteq Locals
      BY <2>1, <1>1
    <3> QED BY <2>2, <2>3, <2>4, <3>1 DEF KeepsAlive
  <2>6. CaptureAliveOf(d) \subseteq names
    <3> HIDE DEF names
    <3> QED BY <2>5 DEF CaptureAliveOf
  <2> QED BY <2>3, <2>6
<1> QED BY <1>6, <1>7

LEMMA HeldByClosuresIs ==
  ASSUME WalkTypesOK, NEW d, NEW m
  PROVE  m \in HeldByClosures(d) <=>
           \/ \E i \in DOMAIN slots : m \in MemberNames(slots[i].surviving)
           \/ \E n \in Alive(slots, bound, d) : m \in MemberNames(bound[n].surviving)
<1>1. Alive(slots, bound, d) = Scoped \cap ((Locals \ d) \cup CaptureAliveOf(d))
  BY AliveIs
<1> HIDE DEF HeldByClosures
<1>2. HeldByClosures(d) = UNION ({MemberNames(s.surviving) : s \in SlotsOf(slots)}
                                  \cup {MemberNames(bound[n].surviving) : n \in Alive(slots, bound, d)})
  BY <1>1 DEF HeldByClosures
<1> QED BY <1>2 DEF SlotsOf

-----------------------------------------------------------------------------
(* A term makes nothing alive but what it binds.                             *)

\* names die: what of them was bound before the arm stays so after it
Died(d) ==
  /\ d \subseteq InScope(bound) /\ done' = done \cup d
  /\ granted' = IF Nesting = 1 THEN granted \cup {n \in d : bound[n].level = 0} ELSE granted

LEMMA NoneDied ==
  ASSUME AsAlive
  PROVE  Died({}) /\ done' = done
BY DEF AsAlive, Died

LEMMA DeadDied ==
  ASSUME NEW enough, Dead(enough), enough \subseteq SUBSET Holding
  PROVE  \E d \in enough : Died(d)
BY DEF Dead, Died, Holding, LiveNames, Scoped, InScope

\* the fewer slots, bindings and living names, the fewer are alive
LEMMA AliveFewer ==
  ASSUME NEW sl, NEW b, NEW d, NEW d2, d \subseteq d2
  PROVE  Alive(sl, b, d2) \subseteq Alive(sl, b, d)
<1>1. KeepsIn(sl, b, d, Alive(sl, b, d)) /\ Alive(sl, b, d) \subseteq InScope(b)
  BY AliveKeeps
<1>2. KeepsIn(sl, b, d2, Alive(sl, b, d))
  BY <1>1 DEF KeepsIn
<1> QED BY <1>1, <1>2, AliveLeast

LEMMA FewerWhole ==
  ASSUME NEW sl, NEW b, NEW A, NEW mv, Whole(sl, b, A, mv), Exclusive(b, A), NEW A2 \in SUBSET A
  PROVE  Whole(sl, b, A2, mv) /\ Exclusive(b, A2)
BY DEF Whole, Exclusive

\* what is outside the arm
LEMMA OutsideIs ==
  ASSUME EscapeInv, Nesting = 1
  PROVE  /\ \A n \in InScope(branch[1].scope) : n \in InScope(bound) /\ bound[n] = branch[1].scope[n] /\ bound[n].level = 0
         /\ \A n \in InScope(bound) : bound[n].level = 0 <=> n \in InScope(branch[1].scope)
         /\ \A n \in InScope(bound) : n \in Inner <=> n \notin InScope(branch[1].scope)
<1>1. ScopeKept
  BY BranchIs
<1>2. \A n \in Locals : IF branch[1].scope[n] # Nothing THEN branch[1].scope[n].level = 0 /\ bound[n] = branch[1].scope[n]
                        ELSE bound[n] # Nothing => bound[n].level = 1
  BY <1>1 DEF ScopeKept
<1> QED BY <1>2 DEF InScope, Inner, Scoped

LEMMA TermAlive ==
  ASSUME EscapeInv, AliveInv, phase = "body", phase' = phase, branch' = branch,
         SlotsOK(bound', slots'), ScopeOK(bound'), InScope(bound) \subseteq InScope(bound'),
         NEW d, Died(d),
         Whole(slots', bound', Alive(slots', bound', done'), moved'), Exclusive(bound', Alive(slots', bound', done')),
         Alive(slots', bound', done') \cap InScope(bound) \subseteq Alive(slots, bound, done)
  PROVE  AliveInv'
<1> DEFINE f == branch[1]
           dead == f.entryDone \cup granted
           dead2 == f.entryDone \cup granted'
<1>1. done \subseteq InScope(bound) /\ (Nesting = 0 => granted = {}) /\ Nesting' = Nesting
  BY DEF AliveInv, Nesting
<1>2. done' \subseteq InScope(bound')
  BY <1>1 DEF Died
<1>3. Nesting = 0 => granted' = {}
  BY <1>1 DEF Died
<1>4. ASSUME Nesting = 1 PROVE BranchAlive'
  <2>1. BranchAlive
    BY <1>4 DEF AliveInv
  <2>2. /\ SlotsOK(f.scope, f.entry) /\ ScopeOK(f.scope)
        /\ Whole(f.entry, f.scope, Alive(f.entry, f.scope, f.entryDone), f.entryMoved)
        /\ Exclusive(f.scope, Alive(f.entry, f.scope, f.entryDone))
        /\ dead \subseteq InScope(f.scope) /\ done \cap InScope(f.scope) \subseteq dead
        /\ Alive(slots, bound, done) \cap InScope(f.scope) \subseteq Alive(f.entry, f.scope, f.entryDone)
        /\ f.arm = 2 =>
            /\ SlotsOK(f.scope, f.first) /\ Whole(f.first, f.scope, Alive(f.first, f.scope, dead), f.firstMoved)
            /\ Alive(f.first, f.scope, dead) \subseteq Alive(f.entry, f.scope, f.entryDone)
    BY <2>1 DEF BranchAlive
  <2>3. \A n \in InScope(f.scope) : n \in InScope(bound) /\ bound[n].level = 0
    BY <1>4, OutsideIs
  <2>4. \A n \in InScope(bound) : bound[n].level = 0 => n \in InScope(f.scope)
    BY <1>4, OutsideIs
  <2>5. granted' = granted \cup {n \in d : bound[n].level = 0} /\ d \subseteq InScope(bound) /\ done' = done \cup d
    BY <1>4 DEF Died
  <2> HIDE DEF f
  <2>6. dead \subseteq dead2 /\ dead2 \subseteq InScope(f.scope) /\ done' \cap InScope(f.scope) \subseteq dead2
    BY <2>2, <2>3, <2>4, <2>5
  <2> HIDE DEF dead, dead2
  <2>7. Alive(f.first, f.scope, dead2) \subseteq Alive(f.first, f.scope, dead)
    BY <2>6, AliveFewer
  <2>8. f.arm = 2 => Whole(f.first, f.scope, Alive(f.first, f.scope, dead2), f.firstMoved)
    BY <2>2, <2>7 DEF Whole
  <2>9. Alive(slots', bound', done') \cap InScope(f.scope) \subseteq Alive(f.entry, f.scope, f.entryDone)
    BY <2>2, <2>3
  <2>10. /\ SlotsOK(f.scope, f.entry) /\ ScopeOK(f.scope)
         /\ Whole(f.entry, f.scope, Alive(f.entry, f.scope, f.entryDone), f.entryMoved)
         /\ Exclusive(f.scope, Alive(f.entry, f.scope, f.entryDone))
         /\ dead2 \subseteq InScope(f.scope) /\ done' \cap InScope(f.scope) \subseteq dead2
         /\ Alive(slots', bound', done') \cap InScope(f.scope) \subseteq Alive(f.entry, f.scope, f.entryDone)
         /\ f.arm = 2 =>
             /\ SlotsOK(f.scope, f.first) /\ Whole(f.first, f.scope, Alive(f.first, f.scope, dead2), f.firstMoved)
             /\ Alive(f.first, f.scope, dead2) \subseteq Alive(f.entry, f.scope, f.entryDone)
    BY <2>2, <2>6, <2>7, <2>8, <2>9
  <2> QED BY <2>10 DEF BranchAlive, f, dead2
<1> HIDE DEF f, dead, dead2
<1> QED BY <1>1, <1>2, <1>3, <1>4 DEF AliveInv

LEMMA TermKeeps ==
  ASSUME EscapeInv, AliveInv, phase = "body", phase' = phase, branch' = branch,
         SlotsOK(bound', slots'), ScopeOK(bound'), InScope(bound) \subseteq InScope(bound'),
         NEW d, Died(d), NEW X \in SUBSET InScope(bound'), KeepsIn(slots', bound', done', X),
         Whole(slots', bound', X, moved'), Exclusive(bound', X),
         X \cap InScope(bound) \subseteq Alive(slots, bound, done)
  PROVE  AliveInv'
<1>1. Alive(slots', bound', done') \subseteq X
  BY AliveLeast
<1>2. Whole(slots', bound', Alive(slots', bound', done'), moved') /\ Exclusive(bound', Alive(slots', bound', done'))
  BY <1>1, FewerWhole
<1>3. Alive(slots', bound', done') \cap InScope(bound) \subseteq Alive(slots, bound, done)
  BY <1>1
<1> QED BY <1>2, <1>3, TermAlive

\* what is known of a body while it is walked
LEMMA AliveFacts ==
  ASSUME EscapeInv, AliveInv, phase = "body", NEW d, Died(d)
  PROVE  /\ Alive(slots, bound, done') \subseteq Alive(slots, bound, done) /\ Alive(slots, bound, done) \subseteq InScope(bound)
         /\ KeepsIn(slots, bound, done, Alive(slots, bound, done)) /\ KeepsIn(slots, bound, done', Alive(slots, bound, done'))
         /\ Whole(slots, bound, Alive(slots, bound, done), moved) /\ Exclusive(bound, Alive(slots, bound, done))
         /\ SlotsOK(bound, slots) /\ ScopeOK(bound) /\ done' \subseteq InScope(bound)
         /\ \A i \in DOMAIN slots : slots[i] \in SlotKinds
         /\ \A n \in InScope(bound) : bound[n] \in Bindings
         /\ RootsOK(bound)
<1>1. WalkTypesOK /\ RootsOK(bound)
  BY LevelsOK DEF EscapeInv, CapturesTypeOK
<1>2. done' = done \cup d /\ d \subseteq InScope(bound) /\ done \subseteq InScope(bound)
  BY DEF Died, AliveInv
<1>3. KeepsIn(slots, bound, done, Alive(slots, bound, done)) /\ KeepsIn(slots, bound, done', Alive(slots, bound, done'))
      /\ Alive(slots, bound, done) \subseteq InScope(bound)
  BY AliveKeeps
<1>4. Alive(slots, bound, done') \subseteq Alive(slots, bound, done)
  BY <1>2, AliveFewer
<1>5. Whole(slots, bound, Alive(slots, bound, done), moved) /\ Exclusive(bound, Alive(slots, bound, done))
      /\ SlotsOK(bound, slots) /\ ScopeOK(bound)
  BY DEF AliveInv
<1>6. (\A i \in DOMAIN slots : slots[i] \in SlotKinds) /\ \A n \in InScope(bound) : bound[n] \in Bindings
  BY <1>1 DEF WalkTypesOK, InScope, Scopes
<1> QED BY <1>1, <1>2, <1>3, <1>4, <1>5, <1>6

\* a name is bound to what is new, or to what was on the stack
FromStack(set) == set = NoSet \/ \E i \in DOMAIN slots : slots[i].kind # "lit" /\ set = slots[i].surviving
LEMMA BoundAlive ==
  ASSUME EscapeInv, AliveInv, phase = "body", phase' = phase, branch' = branch, moved' = moved, NEW d, Died(d),
         NEW n \in Locals, bound[n] = Nothing, NEW v \in Bindings, bound' = [bound EXCEPT ![n] = v], FromStack(v.surviving),
         v.kind = "ref" => /\ v.root \in Places(bound) /\ v.root \notin moved
                           /\ \A s \in Alive(slots, bound, done') : bound[s].kind = "ref" /\ bound[s].root = v.root =>
                                ~bound[s].mutable /\ ~v.mutable,
         \A i \in DOMAIN slots' : i \in DOMAIN slots /\ slots'[i] = slots[i]
  PROVE  AliveInv'
<1> DEFINE A == Alive(slots, bound, done')
           X == A \cup {n}
<1>1. /\ A \subseteq Alive(slots, bound, done) /\ Alive(slots, bound, done) \subseteq InScope(bound) /\ KeepsIn(slots, bound, done', A)
      /\ Whole(slots, bound, Alive(slots, bound, done), moved) /\ Exclusive(bound, Alive(slots, bound, done))
      /\ SlotsOK(bound, slots) /\ ScopeOK(bound) /\ done' \subseteq InScope(bound) /\ RootsOK(bound)
  BY AliveFacts
<1>2. bound \in Scopes /\ v # Nothing /\ Nothing \notin Locals
  BY CapturesAssumption DEF EscapeInv, CapturesTypeOK, WalkTypesOK
<1>3. bound'[n] = v /\ \A m \in Locals : m # n => bound'[m] = bound[m]
  BY <1>2 DEF Scopes
<1>4. InScope(bound') = InScope(bound) \cup {n} /\ n \notin InScope(bound) /\ InScope(bound) \subseteq Locals
  BY <1>2, <1>3 DEF InScope
<1>5. Whole(slots, bound, A, moved) /\ Exclusive(bound, A)
  BY <1>1, FewerWhole
<1> HIDE DEF A
<1>6. \A m \in InScope(bound) : bound'[m] = bound[m] /\ m # n
  BY <1>3, <1>4
<1>7. \A names : MembersOK(bound, names) => MembersOK(bound', names) /\ names \subseteq InScope(bound)
  BY <1>4, <1>6 DEF MembersOK
<1>8. MembersOK(bound, MemberNames(v.surviving)) /\ MemberNames(v.surviving) \cap moved = {}
      /\ MemberNames(v.surviving) \subseteq A
  <2>1. CASE v.surviving = NoSet
    BY <2>1, NoNames DEF MembersOK
  <2>2. CASE v.surviving # NoSet
    <3>1. PICK i \in DOMAIN slots : slots[i].kind # "lit" /\ v.surviving = slots[i].surviving
      BY <2>2 DEF FromStack
    <3>2. MembersOK(bound, MemberNames(v.surviving))
      BY <1>1, <3>1 DEF SlotsOK, SlotOK
    <3>3. MemberNames(v.surviving) \cap moved = {}
      BY <1>5, <3>1 DEF Whole
    <3>4. OnStack(slots[i]) \cap InScope(bound) \subseteq A
      BY <1>1, <3>1 DEF KeepsIn
    <3>5. MemberNames(v.surviving) \cap InScope(bound) \subseteq A
      BY <3>1, <3>4 DEF OnStack
    <3> QED BY <1>7, <3>2, <3>3, <3>5
  <2> QED BY <2>1, <2>2
<1>9. SlotsOK(bound', slots')
  BY <1>1, <1>7 DEF SlotsOK, SlotOK
<1>10. ScopeOK(bound')
  <2>1. \A m \in InScope(bound') : MembersOK(bound', MemberNames(bound'[m].surviving))
    BY <1>1, <1>3, <1>4, <1>6, <1>7, <1>8 DEF ScopeOK
  <2>2. ~IsGiven(bound', n) /\ \A m \in Locals : IsGiven(bound', m) => IsGiven(bound, m) /\ bound'[m] = bound[m]
    <3>1. v.kind = "ref" => v.root # Nothing
      BY <1>2 DEF Places, InScope
    <3>2. ~IsGiven(bound', n)
      BY <1>3, <3>1 DEF IsGiven
    <3>3. ASSUME NEW m \in Locals, IsGiven(bound', m) PROVE IsGiven(bound, m) /\ bound'[m] = bound[m]
      <4>1. m # n /\ m \in InScope(bound')
        BY <3>2, <3>3 DEF IsGiven
      <4>2. m \in InScope(bound) /\ bound'[m] = bound[m]
        BY <1>4, <1>6, <4>1
      <4> QED BY <3>3, <4>2 DEF IsGiven
    <3> QED BY <3>2, <3>3
  <2>3. OneGiven(bound')
    BY <1>1, <2>2 DEF ScopeOK, OneGiven
  <2> QED BY <2>1, <2>3 DEF ScopeOK
<1>11. KeepsIn(slots', bound', done', X)
  <2>1. \A i \in DOMAIN slots' : OnStack(slots'[i]) \cap InScope(bound') \subseteq X
    BY <1>1, <1>4 DEF KeepsIn
  <2>2. InScope(bound') \ done' \subseteq X
    BY <1>1, <1>4 DEF KeepsIn
  <2>3. \A m \in X : MemberNames(bound'[m].surviving) \cap InScope(bound') \subseteq X
    BY <1>1, <1>3, <1>4, <1>6, <1>8 DEF KeepsIn
  <2> HIDE DEF X
  <2> QED BY <2>1, <2>2, <2>3 DEF KeepsIn
<1>12. Whole(slots', bound', X, moved')
  <2>1. \A i \in DOMAIN slots' : MemberNames(slots'[i].surviving) \cap moved = {}
    BY <1>5 DEF Whole
  <2>2. \A m \in X : MemberNames(bound'[m].surviving) \cap moved = {}
    BY <1>1, <1>3, <1>5, <1>6, <1>8 DEF Whole
  <2>3. \A m \in X : bound'[m].kind = "ref" => bound'[m].root \notin moved
    BY <1>1, <1>3, <1>5, <1>6 DEF Whole
  <2> QED BY <2>1, <2>2, <2>3 DEF Whole
<1>13. Exclusive(bound', X)
  <2> SUFFICES ASSUME NEW r \in X, NEW s \in X, r # s, bound'[r].kind = "ref", bound'[s].kind = "ref",
                      bound'[r].root = bound'[s].root
               PROVE  ~bound'[r].mutable /\ ~bound'[s].mutable
    BY DEF Exclusive
  <2>0. \A m \in A : m \in InScope(bound) /\ bound'[m] = bound[m] /\ m # n
    BY <1>1, <1>6
  <2>1. CASE r = n
    <3>1. s \in A /\ bound'[s] = bound[s]
      BY <2>0, <2>1
    <3> QED BY <2>1, <3>1, <1>3 DEF A
  <2>2. CASE s = n
    <3>1. r \in A /\ bound'[r] = bound[r]
      BY <2>0, <2>2
    <3> QED BY <2>2, <3>1, <1>3 DEF A
  <2>3. CASE r # n /\ s # n
    <3>1. r \in A /\ s \in A /\ bound'[r] = bound[r] /\ bound'[s] = bound[s]
      BY <2>0, <2>3
    <3> QED BY <1>5, <3>1 DEF Exclusive
  <2> QED BY <2>1, <2>2, <2>3
<1>14. X \in SUBSET InScope(bound') /\ X \cap InScope(bound) \subseteq Alive(slots, bound, done)
  BY <1>1, <1>4
<1>15. InScope(bound) \subseteq InScope(bound')
  BY <1>4
<1> HIDE DEF X
<1> QED BY <1>9, <1>10, <1>11, <1>12, <1>13, <1>14, <1>15, TermKeeps

\* a slot is pushed, replaced or popped
Fine(x, X) ==
  /\ OnStack(x) \cap InScope(bound) \subseteq X /\ MembersOK(bound, MemberNames(x.surviving))
  /\ x.kind = "lit" => x.surviving = NoSet
  /\ MemberNames(x.surviving) \cap moved' = {}
LEMMA SlotsAlive ==
  ASSUME EscapeInv, AliveInv, phase = "body", phase' = phase, branch' = branch, bound' = bound, NEW d, Died(d),
         NEW X \in SUBSET Alive(slots, bound, done), KeepsIn(slots, bound, done', X), Whole(slots, bound, X, moved'),
         \A i \in DOMAIN slots' : (i \in DOMAIN slots /\ slots'[i] = slots[i]) \/ Fine(slots'[i], X)
  PROVE  AliveInv'
<1>1. /\ Alive(slots, bound, done) \subseteq InScope(bound) /\ Exclusive(bound, Alive(slots, bound, done))
      /\ SlotsOK(bound, slots) /\ ScopeOK(bound)
  BY AliveFacts
<1>2. SlotsOK(bound', slots')
  BY <1>1 DEF SlotsOK, SlotOK, Fine
<1>3. KeepsIn(slots', bound', done', X)
  BY DEF KeepsIn, Fine
<1>4. Whole(slots', bound', X, moved')
  BY DEF Whole, Fine
<1>5. Exclusive(bound', X)
  BY <1>1 DEF Exclusive
<1> QED BY <1>1, <1>2, <1>3, <1>4, <1>5, TermKeeps

LEMMA PushAlive ==
  ASSUME EscapeInv, AliveInv, phase = "body", phase' = phase, branch' = branch, bound' = bound, moved' = moved, NEW d, Died(d),
         NEW x \in SlotKinds, slots' = Append(slots, x), Fine(x, Alive(slots, bound, done))
  PROVE  AliveInv'
<1>1. /\ KeepsIn(slots, bound, done, Alive(slots, bound, done)) /\ Whole(slots, bound, Alive(slots, bound, done), moved)
  BY AliveFacts
<1>2. done \subseteq done'
  BY DEF Died
<1>3. KeepsIn(slots, bound, done', Alive(slots, bound, done))
  BY <1>1, <1>2 DEF KeepsIn
<1>4. \A i \in DOMAIN slots' : (i \in DOMAIN slots /\ slots'[i] = slots[i]) \/ Fine(slots'[i], Alive(slots, bound, done))
  <2>1. slots \in Seq(SlotKinds)
    BY DEF EscapeInv, CapturesTypeOK, WalkTypesOK
  <2>2. /\ DOMAIN slots' = DOMAIN slots \cup {Len(slots) + 1} /\ slots'[Len(slots) + 1] = x
        /\ \A i \in DOMAIN slots : slots'[i] = slots[i]
    BY <2>1, PushedIs
  <2> QED BY <2>2
<1> QED BY <1>1, <1>3, <1>4, SlotsAlive

LEMMA PopAlive ==
  ASSUME EscapeInv, AliveInv, phase = "body", phase' = phase, branch' = branch, bound' = bound, moved' = moved, NEW d, Died(d),
         slots # <<>>, slots' = Popped(slots)
  PROVE  AliveInv'
<1>1. /\ KeepsIn(slots, bound, done, Alive(slots, bound, done)) /\ Whole(slots, bound, Alive(slots, bound, done), moved)
  BY AliveFacts
<1>2. done \subseteq done'
  BY DEF Died
<1>3. KeepsIn(slots, bound, done', Alive(slots, bound, done))
  BY <1>1, <1>2 DEF KeepsIn
<1>4. \A i \in DOMAIN slots' : i \in DOMAIN slots /\ slots'[i] = slots[i]
  <2>1. slots \in Seq(SlotKinds)
    BY DEF EscapeInv, CapturesTypeOK, WalkTypesOK
  <2> QED BY <2>1, PoppedIs
<1> QED BY <1>1, <1>3, <1>4, SlotsAlive

-----------------------------------------------------------------------------
(* The terms, one by one.                                                    *)

LEMMA MakeAlive ==
  ASSUME EscapeInv, AliveInv, phase = "body", NEW n \in Locals, NEW kind \in {"lin", "car"}, Make(n, kind)
  PROVE  AliveInv'
<1> DEFINE v == Binding(kind, kind, FALSE, Nothing, NoSet)
<1>1. /\ bound[n] = Nothing /\ bound' = [bound EXCEPT ![n] = v] /\ slots' = slots /\ AsAlive
      /\ moved' = moved /\ branch' = branch /\ phase' = phase
  BY DEF Make, IsFresh, Unchanged
<1>2. v \in Bindings /\ v.kind # "ref" /\ v.surviving = NoSet
  BY LevelsOK, NoSetIs DEF Binding, Bindings, Nesting
<1>3. FromStack(v.surviving)
  BY <1>2 DEF FromStack
<1> HIDE DEF v
<1> QED BY <1>1, <1>2, <1>3, NoneDied, BoundAlive

LEMMA BorrowAlive ==
  ASSUME EscapeInv, AliveInv, phase = "body", NEW n \in Locals, NEW r \in Locals, NEW mutable \in BOOLEAN, Borrow(n, r, mutable)
  PROVE  AliveInv'
<1> DEFINE v == Binding("ref", bound[n].kind, mutable, n, NoSet)
           enough == {d \in SUBSET Holding : ~Conflicts(n, mutable, done \cup d)}
<1>1. /\ n \in LiveNames \ moved /\ bound[n].kind \in {"lin", "car"} /\ bound[r] = Nothing /\ Dead(enough)
      /\ bound' = [bound EXCEPT ![r] = v] /\ slots' = slots /\ moved' = moved /\ branch' = branch /\ phase' = phase
  BY DEF Borrow, IsFresh, Unchanged
<1>2. PICK d \in SUBSET Holding : ~Conflicts(n, mutable, done \cup d) /\ Died(d)
  <2>1. enough \subseteq SUBSET Holding
    OBVIOUS
  <2> HIDE DEF enough
  <2>2. \E d \in enough : Died(d)
    BY <1>1, <2>1, DeadDied
  <2> QED BY <2>2 DEF enough
<1>3. WalkTypesOK
  BY DEF EscapeInv, CapturesTypeOK
<1>4. v \in Bindings /\ v.kind = "ref" /\ v.surviving = NoSet /\ v.root = n /\ v.mutable = mutable
  BY <1>1, LevelsOK, NoSetIs DEF Binding, Bindings, Nesting
<1>5. n \in Places(bound)
  BY <1>1 DEF Places, LiveNames, Scoped, InScope
<1>6. done' = done \cup d
  BY <1>2 DEF Died
<1>7. \A s \in Alive(slots, bound, done') : bound[s].kind = "ref" /\ bound[s].root = n => ~bound[s].mutable /\ ~mutable
  <2>1. Alive(slots, bound, done') = Scoped \cap ((Locals \ done') \cup CaptureAliveOf(done'))
    BY <1>3, AliveIs
  <2>2. \A s \in Alive(slots, bound, done') : bound[s].kind = "ref" => s \in LiveReferences(done')
    BY <2>1 DEF LiveReferences
  <2>3. ~Conflicts(n, mutable, done')
    BY <1>2, <1>6
  <2> QED BY <2>2, <2>3 DEF Conflicts, LiveBorrowOf, LiveMutableBorrowOf
<1>8. FromStack(v.surviving)
  BY <1>4 DEF FromStack
<1> HIDE DEF v
<1> QED BY <1>1, <1>2, <1>4, <1>5, <1>7, <1>8, BoundAlive

LEMMA DropLocalAlive ==
  ASSUME EscapeInv, AliveInv, phase = "body", NEW n \in Locals, DropLocal(n), ~Has("readThenConsumed")
  PROVE  AliveInv'
<1> DEFINE enough == {d \in SUBSET Holding : /\ ~LiveBorrowOf(n, done \cup d)
                                             /\ ~Has("readThenConsumed") => n \notin HeldByClosures(done \cup d)}
           A == Alive(slots, bound, done')
<1>1. /\ n \in LiveNames \ moved /\ Dead(enough) /\ moved' = moved \cup {n}
      /\ bound' = bound /\ slots' = slots /\ branch' = branch /\ phase' = phase
  BY DEF DropLocal
<1>2. PICK d \in SUBSET Holding : ~LiveBorrowOf(n, done \cup d) /\ n \notin HeldByClosures(done \cup d) /\ Died(d)
  <2>1. enough \subseteq SUBSET Holding
    OBVIOUS
  <2> HIDE DEF enough
  <2>2. \E d \in enough : Died(d)
    BY <1>1, <2>1, DeadDied
  <2> QED BY <2>2 DEF enough
<1>3. WalkTypesOK
  BY DEF EscapeInv, CapturesTypeOK
<1>4. done' = done \cup d
  BY <1>2 DEF Died
<1>5. /\ A \subseteq Alive(slots, bound, done) /\ KeepsIn(slots, bound, done', A)
      /\ Whole(slots, bound, Alive(slots, bound, done), moved) /\ Exclusive(bound, Alive(slots, bound, done))
  BY <1>2, AliveFacts
<1>6. Whole(slots, bound, A, moved)
  BY <1>5, FewerWhole
<1>7. \A s \in A : bound[s].kind = "ref" => bound[s].root # n
  <2>1. A = Scoped \cap ((Locals \ done') \cup CaptureAliveOf(done'))
    BY <1>3, AliveIs
  <2>2. \A s \in A : bound[s].kind = "ref" => s \in LiveReferences(done')
    BY <2>1 DEF LiveReferences
  <2>3. ~LiveBorrowOf(n, done')
    BY <1>2, <1>4
  <2> QED BY <2>2, <2>3 DEF LiveBorrowOf
<1>8. /\ \A i \in DOMAIN slots : n \notin MemberNames(slots[i].surviving)
      /\ \A m \in A : n \notin MemberNames(bound[m].surviving)
  <2>1. n \notin HeldByClosures(done')
    BY <1>2, <1>4
  <2> QED BY <1>3, <2>1, HeldByClosuresIs
<1>9. Whole(slots, bound, A, moved')
  BY <1>1, <1>6, <1>7, <1>8 DEF Whole
<1> HIDE DEF A, enough
<1> QED BY <1>1, <1>2, <1>5, <1>9, SlotsAlive

LEMMA PushLiteralAlive ==
  ASSUME EscapeInv, AliveInv, phase = "body", NEW l \in Literals, PushLiteral(l)
  PROVE  AliveInv'
<1>1. /\ slots' = Append(slots, Lit(l)) /\ Captured(l) \subseteq LiveNames
      /\ bound' = bound /\ AsAlive /\ moved' = moved /\ branch' = branch /\ phase' = phase
  BY DEF PushLiteral, Unchanged
<1>2. Lit(l) \in SlotKinds /\ Lit(l).kind = "lit" /\ Lit(l).lit = l /\ Lit(l).surviving = NoSet
  BY CapturesAssumption, NoSetIs, LevelsOK DEF Lit, SlotKinds
<1>3. KeepsIn(slots, bound, done, Alive(slots, bound, done))
  BY AliveKeeps
<1>4. LiveNames \subseteq Alive(slots, bound, done)
  BY <1>3 DEF KeepsIn, LiveNames, Scoped, InScope
<1>5. Fine(Lit(l), Alive(slots, bound, done))
  BY <1>1, <1>2, <1>4, NoNames DEF Fine, OnStack, MembersOK
<1> QED BY <1>1, <1>2, <1>5, NoneDied, PushAlive

\* what a binding carries, when it is named
LEMMA CarriedAlive ==
  ASSUME EscapeInv, AliveInv, phase = "body", moved' = moved, NEW n \in Alive(slots, bound, done),
         NEW x \in SlotKinds, x.kind # "lit", x.surviving = bound[n].surviving
  PROVE  Fine(x, Alive(slots, bound, done))
<1>1. /\ KeepsIn(slots, bound, done, Alive(slots, bound, done)) /\ Alive(slots, bound, done) \subseteq InScope(bound)
      /\ Whole(slots, bound, Alive(slots, bound, done), moved) /\ ScopeOK(bound)
  BY AliveKeeps DEF AliveInv
<1>2. MembersOK(bound, MemberNames(bound[n].surviving))
  BY <1>1 DEF ScopeOK
<1>3. MemberNames(bound[n].surviving) \cap moved = {}
  BY <1>1 DEF Whole
<1>4. MemberNames(bound[n].surviving) \cap InScope(bound) \subseteq Alive(slots, bound, done)
  BY <1>1 DEF KeepsIn
<1> QED BY <1>2, <1>3, <1>4 DEF Fine, OnStack

LEMMA PushLocalAlive ==
  ASSUME EscapeInv, AliveInv, phase = "body", NEW n \in Locals, PushLocal(n)
  PROVE  AliveInv'
<1> DEFINE x == Slot(bound[n].kind, bound[n].surviving, IF bound[n].kind = "car" THEN {n} ELSE {})
           enough == {d \in SUBSET Holding : bound[n].kind = "car" => ~LiveMutableBorrowOf(n, done \cup d)}
<1>1. /\ n \in LiveNames /\ bound[n].kind \in {"car", "fn"} /\ Dead(enough) /\ slots' = Append(slots, x)
      /\ bound' = bound /\ moved' = moved /\ branch' = branch /\ phase' = phase
  BY DEF PushLocal, Unchanged
<1>2. PICK d \in SUBSET Holding : Died(d)
  <2>1. enough \subseteq SUBSET Holding
    OBVIOUS
  <2> HIDE DEF enough
  <2> QED BY <1>1, <2>1, DeadDied
<1>3. bound[n] \in Bindings /\ n \in InScope(bound)
  BY <1>1 DEF EscapeInv, CapturesTypeOK, WalkTypesOK, Scopes, LiveNames, Scoped, InScope
<1>4. x \in SlotKinds /\ x.kind # "lit" /\ x.surviving = bound[n].surviving
  <2>1. bound[n].surviving \in SurvivingSets /\ bound[n].kind \in {"lit", "fn", "own", "car"} /\ bound[n].kind # "lit"
    BY <1>1, <1>3 DEF Bindings
  <2>2. (IF bound[n].kind = "car" THEN {n} ELSE {}) \in SUBSET Locals
    OBVIOUS
  <2> QED BY <2>1, <2>2, SlotIs
<1>5. n \in Alive(slots, bound, done)
  <2>1. KeepsIn(slots, bound, done, Alive(slots, bound, done))
    BY AliveKeeps
  <2> QED BY <1>1, <1>3, <2>1 DEF KeepsIn, LiveNames
<1> HIDE DEF x, enough
<1>6. Fine(x, Alive(slots, bound, done))
  BY <1>1, <1>4, <1>5, CarriedAlive
<1> QED BY <1>1, <1>2, <1>4, <1>6, PushAlive

LEMMA FetchAlive ==
  ASSUME EscapeInv, AliveInv, phase = "body", NEW r \in Locals, Fetch(r), ~Has("fetchedLate")
  PROVE  AliveInv'
<1> DEFINE x == Slot("fn", RootSet(r), {})
           root == bound[r].root
<1>1. /\ root \in LiveNames \cup CaptureAliveOf(done) \cup {Nothing} /\ slots' = Append(slots, x)
      /\ bound' = bound /\ AsAlive /\ moved' = moved /\ branch' = branch /\ phase' = phase
  BY DEF Fetch, Unchanged
<1>2. WalkTypesOK
  BY DEF EscapeInv, CapturesTypeOK
<1>3. Alive(slots, bound, done) = Scoped \cap ((Locals \ done) \cup CaptureAliveOf(done))
  BY <1>2, AliveIs
<1>4. CASE root \in Scoped
  <2>1. root \in Alive(slots, bound, done) /\ root \in Locals /\ RootSet(r) = bound[root].surviving
    <3>1. Nothing \notin Scoped /\ Scoped \subseteq Locals
      BY CapturesAssumption DEF Scoped
    <3> QED BY <1>1, <1>3, <1>4, <3>1 DEF LiveNames, RootSet, InFrame
  <2>2. bound[root].surviving \in SurvivingSets
    <3>1. bound[root] \in Bindings
      BY <1>2, <1>4 DEF WalkTypesOK, Scopes, Scoped
    <3> QED BY <3>1 DEF Bindings
  <2>3. x \in SlotKinds /\ x.kind # "lit" /\ x.surviving = bound[root].surviving
    BY <2>1, <2>2, SlotIs
  <2> HIDE DEF x, root
  <2>4. Fine(x, Alive(slots, bound, done))
    BY <1>1, <2>1, <2>3, CarriedAlive
  <2> QED BY <1>1, <2>3, <2>4, NoneDied, PushAlive
<1>5. CASE root \notin Scoped
  <2>1. RootSet(r) = NoSet
    BY <1>5 DEF RootSet, InFrame
  <2>2. x \in SlotKinds /\ x.kind # "lit" /\ x.surviving = NoSet
    BY <2>1, NoSetIs, SlotIs
  <2> HIDE DEF x, root
  <2>3. Fine(x, Alive(slots, bound, done))
    BY <2>2, NoNames DEF Fine, OnStack, MembersOK
  <2> QED BY <1>1, <2>2, <2>3, NoneDied, PushAlive
<1> QED BY <1>4, <1>5

LEMMA BindTopAlive ==
  ASSUME EscapeInv, AliveInv, phase = "body", NEW n \in Locals, BindTop(n)
  PROVE  AliveInv'
<1> DEFINE v == Binding(TopSlot.kind, TopSlot.kind, FALSE, Nothing, TopSlot.surviving)
<1>1. /\ slots # <<>> /\ TopSlot.kind \in {"car", "fn"} /\ bound[n] = Nothing
      /\ slots' = Popped(slots) /\ bound' = [bound EXCEPT ![n] = v]
      /\ AsAlive /\ moved' = moved /\ branch' = branch /\ phase' = phase
  BY DEF BindTop, IsFresh, Unchanged
<1>2. slots \in Seq(SlotKinds)
  BY DEF EscapeInv, CapturesTypeOK, WalkTypesOK
<1>3. /\ \A i \in DOMAIN slots' : i \in DOMAIN slots /\ slots'[i] = slots[i]
      /\ Len(slots) \in DOMAIN slots /\ TopSlot \in SlotKinds
  BY <1>1, <1>2, PoppedIs DEF TopSlot
<1>4. v \in Bindings /\ v.kind # "ref" /\ v.surviving = TopSlot.surviving
  <2>1. TopSlot.surviving \in SurvivingSets
    BY <1>3 DEF SlotKinds
  <2> QED BY <1>1, <2>1, LevelsOK DEF Binding, Bindings, Nesting
<1>5. FromStack(v.surviving)
  BY <1>1, <1>3, <1>4 DEF FromStack, TopSlot
<1> HIDE DEF v
<1> QED BY <1>1, <1>3, <1>4, <1>5, NoneDied, BoundAlive

LEMMA CallAlive ==
  ASSUME EscapeInv, AliveInv, phase = "body", Call
  PROVE  AliveInv'
<1>1. /\ slots # <<>> /\ slots' = Popped(slots) /\ bound' = bound /\ AsAlive /\ moved' = moved
      /\ branch' = branch /\ phase' = phase
  BY DEF Call, Unchanged
<1> QED BY <1>1, NoneDied, PopAlive

\* what a literal captured, when it becomes a value
LEMMA LiteralAlive ==
  ASSUME WalkTypesOK, NEW l \in LiteralBodies, NEW owning \in BOOLEAN, NEW escaping, Materializes(l, escaping, owning),
         ~Has("readThenConsumed"), ~Has("fetchedLate")
  PROVE  LET names == MemberNames(Surviving(l, owning)) IN
         /\ MembersOK(bound, names) /\ names \subseteq Captured(l) /\ names \cap moved = {} /\ names \cap l.eats = {}
         /\ l.eats \subseteq Captured(l) /\ (~owning => l.eats = {})
         /\ Captured(l) \subseteq InScope(bound) /\ Captured(l) \cap moved = {}
         /\ \A n \in l.eats : bound[n].kind = "lin" /\ \A r \in InScope(bound) : bound[r].root # n
         /\ \A n \in l.eats : /\ \A i \in DOMAIN slots : n \notin MemberNames(slots[i].surviving)
                              /\ \A m \in Alive(slots, bound, done) : n \notin MemberNames(bound[m].surviving)
<1> DEFINE names == MemberNames(Surviving(l, owning))
<1>1. names = {n \in Captured(l) : ~Moves(n, owning)}
  BY NamesSurviving
<1>2. /\ Captured(l) \subseteq Scoped /\ \A n \in Captured(l) : bound[n].kind # "fn"
      /\ Captured(l) \cap moved = {}
      /\ \A n \in l.eats : bound[n].kind = "lin" /\ ~ReferenceInScope(n, FALSE)
      /\ (l.eats # {} => owning) /\ l.eats \cap HeldByClosures(done) = {}
      /\ \A n \in Captured(l) : bound[n].kind = "ref" /\ bound[n].of = "car" => bound[n].root = Nothing
  BY DEF Materializes, Admitted, WalksBody
<1>3. Scoped = InScope(bound) /\ l.eats \subseteq Captured(l)
  BY DEF Scoped, InScope, Captured
<1>4. MembersOK(bound, names)
  BY <1>1, <1>2, <1>3 DEF MembersOK
<1>5. names \cap l.eats = {}
  BY <1>1, <1>2 DEF Moves
<1>6. \A n \in l.eats : \A r \in InScope(bound) : bound[r].root # n
  BY <1>2, <1>3 DEF ReferenceInScope
<1>7. \A n \in l.eats : /\ \A i \in DOMAIN slots : n \notin MemberNames(slots[i].surviving)
                        /\ \A m \in Alive(slots, bound, done) : n \notin MemberNames(bound[m].surviving)
  BY <1>2, HeldByClosuresIs
<1> QED BY <1>1, <1>2, <1>3, <1>4, <1>5, <1>6, <1>7

LEMMA PassOnAlive ==
  ASSUME EscapeInv, AliveInv, phase = "body", NEW to \in {"fn", "own", "car"}, PassOn(to),
         ~Has("readThenConsumed"), ~Has("fetchedLate")
  PROVE  AliveInv'
<1> DEFINE literal == TopSlot.kind = "lit"
           owning == to = "own"
           set == IF literal THEN Surviving(TopSlot.lit, owning) ELSE TopSlot.surviving
           x == Slot(to, set, {})
           l == TopSlot.lit
           A == Alive(slots, bound, done)
<1>1. /\ slots # <<>> /\ (literal => Materializes(l, FALSE, owning))
      /\ slots' = [slots EXCEPT ![Len(slots)] = x]
      /\ moved' = (IF literal THEN moved \cup l.eats ELSE moved)
      /\ bound' = bound /\ branch' = branch /\ phase' = phase /\ AsAlive
  BY DEF PassOn, CarriedSet
<1>2. WalkTypesOK /\ slots \in Seq(SlotKinds)
  BY DEF EscapeInv, CapturesTypeOK, WalkTypesOK
<1>3. Len(slots) \in DOMAIN slots /\ TopSlot = slots[Len(slots)] /\ TopSlot \in SlotKinds
  BY <1>1, <1>2, PoppedIs DEF TopSlot
<1>4. l \in LiteralBodies /\ TopSlot.surviving \in SurvivingSets
  BY <1>3 DEF SlotKinds
<1>5. set \in SurvivingSets
  BY <1>4, SurvivingTyped
<1>6. x \in SlotKinds /\ x.kind # "lit" /\ x.surviving = set
  <2> HIDE DEF set
  <2> QED BY <1>5, SlotIs
<1>7. /\ slots'[Len(slots)] = x /\ DOMAIN slots' = DOMAIN slots
      /\ \A i \in DOMAIN slots : i # Len(slots) => slots'[i] = slots[i]
  <2> HIDE DEF x
  <2> QED BY <1>1, <1>2, <1>3, <1>6, ReplacedIs
<1>8. /\ KeepsIn(slots, bound, done, A) /\ A \subseteq InScope(bound)
      /\ Whole(slots, bound, A, moved) /\ SlotsOK(bound, slots) /\ RootsOK(bound)
  BY NoneDied, AliveFacts, <1>1
<1>9. OnStack(TopSlot) \cap InScope(bound) \subseteq A
  BY <1>3, <1>8 DEF KeepsIn
<1>10. Fine(x, A) /\ Whole(slots, bound, A, moved')
  <2>1. CASE literal
    <3>1. owning \in BOOLEAN /\ Materializes(l, FALSE, owning) /\ moved' = moved \cup l.eats /\ set = Surviving(l, owning)
      BY <1>1, <2>1
    <3> HIDE DEF owning, l
    <3>2. LET names == MemberNames(Surviving(l, owning)) IN
          /\ MembersOK(bound, names) /\ names \subseteq Captured(l) /\ names \cap moved = {} /\ names \cap l.eats = {}
          /\ Captured(l) \subseteq InScope(bound)
          /\ \A n \in l.eats : \A r \in InScope(bound) : bound[r].root # n
          /\ \A n \in l.eats : /\ \A i \in DOMAIN slots : n \notin MemberNames(slots[i].surviving)
                               /\ \A m \in A : n \notin MemberNames(bound[m].surviving)
      BY <1>2, <1>4, <3>1, LiteralAlive
    <3>3. Captured(l) = OnStack(TopSlot)
      BY <2>1 DEF OnStack, l
    <3> HIDE DEF set, A
    <3>4. Fine(x, A)
      BY <1>6, <1>9, <3>1, <3>2, <3>3 DEF Fine, OnStack
    <3>5. Whole(slots, bound, A, moved')
      BY <1>8, <3>1, <3>2 DEF Whole
    <3> QED BY <3>4, <3>5
  <2>2. CASE ~literal
    <3>1. moved' = moved /\ set = TopSlot.surviving
      BY <1>1, <2>2
    <3>2. MembersOK(bound, MemberNames(TopSlot.surviving)) /\ MemberNames(TopSlot.surviving) \cap moved = {}
      BY <1>3, <1>8 DEF SlotsOK, SlotOK, Whole
    <3>3. OnStack(x) = OnStack(TopSlot)
      BY <1>6, <2>2, <3>1 DEF OnStack
    <3> HIDE DEF set, A, x
    <3> QED BY <1>6, <1>8, <1>9, <3>1, <3>2, <3>3 DEF Fine
  <2> QED BY <2>1, <2>2
<1> HIDE DEF x, set, A, l
<1>11. \A i \in DOMAIN slots' : (i \in DOMAIN slots /\ slots'[i] = slots[i]) \/ Fine(slots'[i], A)
  BY <1>7, <1>10
<1>12. done' = done /\ Died({})
  BY <1>1, NoneDied
<1> QED BY <1>1, <1>8, <1>10, <1>11, <1>12, SlotsAlive DEF A

\* a store changes only the set of a place
WithSet(b, n, set) == [b EXCEPT ![n].surviving = UnionSurviving(@, set)]
LEMMA StoredIs ==
  ASSUME NEW b \in Scopes, NEW n \in InScope(b), NEW set \in SurvivingSets, NEW b2, b2 = WithSet(b, n, set)
  PROVE  /\ InScope(b2) = InScope(b)
         /\ \A m \in InScope(b) : /\ b2[m].kind = b[m].kind /\ b2[m].root = b[m].root /\ b2[m].of = b[m].of
                                  /\ b2[m].mutable = b[m].mutable /\ b2[m].level = b[m].level
         /\ \A m \in InScope(b) : m # n => b2[m] = b[m]
         /\ MemberNames(b2[n].surviving) = MemberNames(b[n].surviving) \cup MemberNames(set)
         /\ \A m : IsGiven(b2, m) <=> IsGiven(b, m)
         /\ \A names : MembersOK(b, names) => MembersOK(b2, names)
         /\ Places(b2) = Places(b)
<1>1. n \in Locals /\ b[n] \in Bindings /\ b[n].surviving \in SurvivingSets
  BY DEF InScope, Scopes, Bindings
<1>2. b2[n] = [b[n] EXCEPT !.surviving = UnionSurviving(b[n].surviving, set)] /\ \A m \in Locals : m # n => b2[m] = b[m]
  BY <1>1 DEF Scopes, WithSet
<1>3. b2[n].surviving = UnionSurviving(b[n].surviving, set) /\ b2[n] \in Bindings
      /\ b2[n].kind = b[n].kind /\ b2[n].root = b[n].root /\ b2[n].of = b[n].of
      /\ b2[n].mutable = b[n].mutable /\ b2[n].level = b[n].level
  BY <1>1, <1>2, EscapableUnion DEF Bindings
<1>4. InScope(b2) = InScope(b)
  BY <1>1, <1>2, <1>3, CapturesAssumption DEF InScope
<1>5. MemberNames(b2[n].surviving) = MemberNames(b[n].surviving) \cup MemberNames(set)
  BY <1>1, <1>3, NamesUnion
<1>6. \A m \in InScope(b) : m # n => b2[m] = b[m]
  BY <1>2 DEF InScope
<1>7. \A m \in InScope(b) : /\ b2[m].kind = b[m].kind /\ b2[m].root = b[m].root /\ b2[m].of = b[m].of
                            /\ b2[m].mutable = b[m].mutable /\ b2[m].level = b[m].level
  BY <1>3, <1>6
<1>8. \A m : IsGiven(b2, m) <=> IsGiven(b, m)
  BY <1>4, <1>7 DEF IsGiven
<1>9. \A names : MembersOK(b, names) => MembersOK(b2, names)
  BY <1>4, <1>7 DEF MembersOK
<1>10. Places(b2) = Places(b)
  BY <1>4, <1>7 DEF Places
<1> QED BY <1>4, <1>5, <1>6, <1>7, <1>8, <1>9, <1>10

LEMMA StoreAlive ==
  ASSUME EscapeInv, AliveInv, phase = "body", NEW r \in Locals, Store(r),
         ~Has("storedInArm"), ~Has("readThenConsumed"), ~Has("fetchedLate")
  PROVE  AliveInv'
<1> DEFINE root == bound[r].root
           literal == TopSlot.kind = "lit"
           l == TopSlot.lit
           set == IF literal THEN Surviving(l, FALSE) ELSE TopSlot.surviving
           A == Alive(slots, bound, done)
<1>1. /\ slots # <<>> /\ (literal => Materializes(l, ~InFrame(root), FALSE))
      /\ slots' = Popped(slots) /\ bound' = Stored(root, set)
      /\ AsAlive /\ moved' = moved /\ branch' = branch /\ phase' = phase
  BY DEF Store, Unchanged
<1>2. WalkTypesOK /\ slots \in Seq(SlotKinds) /\ bound \in Scopes
  BY DEF EscapeInv, CapturesTypeOK, WalkTypesOK
<1>3. Len(slots) \in DOMAIN slots /\ TopSlot = slots[Len(slots)] /\ TopSlot \in SlotKinds
      /\ \A i \in DOMAIN slots' : i \in DOMAIN slots /\ slots'[i] = slots[i]
  BY <1>1, <1>2, PoppedIs DEF TopSlot
<1>4. l \in LiteralBodies /\ TopSlot.surviving \in SurvivingSets
  BY <1>3 DEF SlotKinds
<1>5. set \in SurvivingSets
  BY <1>4, SurvivingTyped
<1>6. /\ KeepsIn(slots, bound, done, A) /\ A \subseteq InScope(bound)
      /\ Whole(slots, bound, A, moved) /\ SlotsOK(bound, slots) /\ ScopeOK(bound) /\ Exclusive(bound, A)
  BY NoneDied, AliveFacts, <1>1
<1>7. OnStack(TopSlot) \cap InScope(bound) \subseteq A
  BY <1>3, <1>6 DEF KeepsIn
<1>8. MembersOK(bound, MemberNames(set)) /\ MemberNames(set) \cap moved = {} /\ MemberNames(set) \subseteq A
  <2>1. CASE literal
    <3>1. Materializes(l, ~InFrame(root), FALSE) /\ set = Surviving(l, FALSE)
      BY <1>1, <2>1
    <3>2. LET names == MemberNames(Surviving(l, FALSE)) IN
          MembersOK(bound, names) /\ names \subseteq Captured(l) /\ names \cap moved = {} /\ Captured(l) \subseteq InScope(bound)
      <4> DEFINE escaping == ~InFrame(root)
      <4>1. Materializes(l, escaping, FALSE) /\ FALSE \in BOOLEAN
        BY <3>1
      <4> HIDE DEF escaping, l
      <4> QED BY <1>2, <1>4, <4>1, LiteralAlive
    <3>3. Captured(l) = OnStack(TopSlot)
      BY <2>1 DEF OnStack
    <3> HIDE DEF l, set, A
    <3> QED BY <1>7, <3>1, <3>2, <3>3
  <2>2. CASE ~literal
    <3>1. set = TopSlot.surviving
      BY <2>2
    <3>2. MembersOK(bound, MemberNames(TopSlot.surviving)) /\ MemberNames(TopSlot.surviving) \cap moved = {}
      BY <1>3, <1>6 DEF SlotsOK, SlotOK, Whole
    <3>3. MemberNames(TopSlot.surviving) \subseteq InScope(bound)
      BY <3>2 DEF MembersOK
    <3> QED BY <1>7, <2>2, <3>1, <3>2, <3>3 DEF OnStack
  <2> QED BY <2>1, <2>2
<1> HIDE DEF set, l, A
<1>9. CASE root \notin Scoped
  <2>1. bound' = bound
    BY <1>1, <1>9 DEF Stored, InFrame
  <2> QED BY <1>1, <2>1, NoneDied, PopAlive
<1>10. CASE root \in Scoped
  <2>1. root \in InScope(bound) /\ bound' = WithSet(bound, root, set)
    BY <1>1, <1>10 DEF Stored, InFrame, Scoped, InScope, WithSet
  <2> HIDE DEF root
  <2>2. /\ InScope(bound') = InScope(bound)
        /\ \A m \in InScope(bound) : /\ bound'[m].kind = bound[m].kind /\ bound'[m].root = bound[m].root
                                     /\ bound'[m].mutable = bound[m].mutable /\ bound'[m].level = bound[m].level
        /\ \A m \in InScope(bound) : m # root => bound'[m] = bound[m]
        /\ MemberNames(bound'[root].surviving) = MemberNames(bound[root].surviving) \cup MemberNames(set)
        /\ \A m : IsGiven(bound', m) <=> IsGiven(bound, m)
        /\ \A names : MembersOK(bound, names) => MembersOK(bound', names)
    BY <1>2, <1>5, <2>1, StoredIs
  <2>3. SlotsOK(bound', slots')
    BY <1>3, <1>6, <2>2 DEF SlotsOK, SlotOK
  <2>4. ScopeOK(bound')
    <3>1. \A m \in InScope(bound) : MembersOK(bound, MemberNames(bound[m].surviving))
      BY <1>6 DEF ScopeOK
    <3>2. MembersOK(bound, MemberNames(bound'[root].surviving))
      BY <1>8, <2>1, <2>2, <3>1 DEF MembersOK
    <3>3. \A m \in InScope(bound') : MembersOK(bound', MemberNames(bound'[m].surviving))
      BY <2>2, <3>1, <3>2
    <3>4. OneGiven(bound')
      BY <1>6, <2>2 DEF ScopeOK, OneGiven, IsGiven
    <3> QED BY <3>3, <3>4 DEF ScopeOK
  <2>5. KeepsIn(slots', bound', done', A)
    <3>1. done' = done
      BY <1>1, NoneDied
    <3>2. InScope(bound') \ done' \subseteq A
      BY <1>6, <2>2, <3>1 DEF KeepsIn
    <3>3. \A i \in DOMAIN slots' : OnStack(slots'[i]) \cap InScope(bound') \subseteq A
      BY <1>3, <1>6, <2>2 DEF KeepsIn
    <3>4. ASSUME NEW m \in A PROVE MemberNames(bound'[m].surviving) \cap InScope(bound') \subseteq A
      <4>1. MemberNames(bound[m].surviving) \cap InScope(bound) \subseteq A /\ m \in InScope(bound)
        BY <1>6, <3>4 DEF KeepsIn
      <4>2. CASE m = root
        BY <1>8, <2>2, <4>1, <4>2
      <4>3. CASE m # root
        BY <2>2, <4>1, <4>3
      <4> QED BY <4>2, <4>3
    <3> QED BY <3>2, <3>3, <3>4 DEF KeepsIn
  <2>6. Whole(slots', bound', A, moved')
    <3>1. \A i \in DOMAIN slots' : MemberNames(slots'[i].surviving) \cap moved = {}
      BY <1>3, <1>6 DEF Whole
    <3>2. ASSUME NEW m \in A PROVE MemberNames(bound'[m].surviving) \cap moved = {}
      <4>1. MemberNames(bound[m].surviving) \cap moved = {} /\ m \in InScope(bound)
        BY <1>6, <3>2 DEF Whole
      <4>2. CASE m = root
        BY <1>8, <2>2, <4>1, <4>2
      <4>3. CASE m # root
        BY <2>2, <4>1, <4>3
      <4> QED BY <4>2, <4>3
    <3>3. \A m \in A : bound'[m].kind = "ref" => bound'[m].root \notin moved
      BY <1>6, <2>2 DEF Whole
    <3> QED BY <1>1, <3>1, <3>2, <3>3 DEF Whole
  <2>7. Exclusive(bound', A)
    <3>1. \A m \in A : bound'[m].kind = bound[m].kind /\ bound'[m].root = bound[m].root /\ bound'[m].mutable = bound[m].mutable
      BY <1>6, <2>2
    <3> QED BY <1>6, <3>1 DEF Exclusive
  <2>8. A \in SUBSET InScope(bound') /\ A \cap InScope(bound) \subseteq Alive(slots, bound, done)
    BY <1>6, <2>2 DEF A
  <2>9. Died({}) /\ InScope(bound) \subseteq InScope(bound')
    BY <1>1, <2>2, NoneDied
  <2> QED BY <1>1, <2>3, <2>4, <2>5, <2>6, <2>7, <2>8, <2>9, TermKeeps
<1> QED BY <1>9, <1>10

-----------------------------------------------------------------------------
(* The branch, and the return.                                               *)

LEMMA OpenBranchAlive ==
  ASSUME EscapeInv, AliveInv, NEW pick \in 1..2, OpenBranch(pick)
  PROVE  AliveInv'
<1> DEFINE f == [entry |-> slots, scope |-> bound, entryMoved |-> moved, entryDone |-> done,
                 arm |-> 1, first |-> <<>>, firstMoved |-> {}, pick |-> pick]
<1>1. /\ phase = "body" /\ Nesting = 0 /\ branch' = <<f>>
      /\ slots' = slots /\ bound' = bound /\ moved' = moved /\ done' = done /\ granted' = granted /\ phase' = phase
  BY DEF OpenBranch
<1>2. f.entry = slots /\ f.scope = bound /\ f.entryMoved = moved /\ f.entryDone = done /\ f.arm = 1
  OBVIOUS
<1> HIDE DEF f
<1>3. branch'[1] = f /\ Nesting' = 1
  BY <1>1 DEF Nesting
<1>4. /\ SlotsOK(bound, slots) /\ ScopeOK(bound) /\ done \subseteq InScope(bound) /\ granted = {}
      /\ Exclusive(bound, Alive(slots, bound, done)) /\ Whole(slots, bound, Alive(slots, bound, done), moved)
  BY <1>1 DEF AliveInv
<1>5. Alive(slots, bound, done) \subseteq InScope(bound)
  BY AliveKeeps
<1>6. LET dead == f.entryDone \cup granted  entry == Alive(f.entry, f.scope, f.entryDone) IN
      /\ SlotsOK(f.scope, f.entry) /\ ScopeOK(f.scope)
      /\ Whole(f.entry, f.scope, entry, f.entryMoved) /\ Exclusive(f.scope, entry)
      /\ dead \subseteq InScope(f.scope) /\ done \cap InScope(f.scope) \subseteq dead
      /\ Alive(slots, bound, done) \cap InScope(f.scope) \subseteq entry
      /\ f.arm # 2
  BY <1>2, <1>4, <1>5
<1>7. BranchAlive'
  BY <1>1, <1>3, <1>6 DEF BranchAlive
<1>8. SlotsOK(bound', slots') /\ ScopeOK(bound') /\ done' \subseteq InScope(bound')
      /\ Exclusive(bound', Alive(slots', bound', done')) /\ Whole(slots', bound', Alive(slots', bound', done'), moved')
  BY <1>1, <1>4
<1> QED BY <1>3, <1>7, <1>8 DEF AliveInv

\* what the arm leaves is outside it
LEMMA ArmAlive ==
  ASSUME EscapeInv, AliveInv, Nesting = 1, ArmEnds, ~Has("capturedInArm")
  PROVE  LET f == branch[1]  dead == f.entryDone \cup granted  left == Alive(slots, f.scope, dead) IN
         /\ SlotsOK(f.scope, slots) /\ Whole(slots, f.scope, left, moved \ Inner)
         /\ left \subseteq Alive(slots, bound, done) /\ left \subseteq Alive(f.entry, f.scope, f.entryDone)
<1> DEFINE f == branch[1]
           dead == f.entryDone \cup granted
           left == Alive(slots, f.scope, dead)
           A == Alive(slots, bound, done)
           Y == A \cap InScope(f.scope)
<1>1. /\ \A n \in InScope(f.scope) : n \in InScope(bound) /\ bound[n] = f.scope[n]
      /\ \A n \in InScope(bound) : n \notin Inner => n \in InScope(f.scope)
  BY OutsideIs
<1>2. /\ SlotsOK(bound, slots) /\ phase = "body" /\ Whole(slots, bound, A, moved)
      /\ done \cap InScope(f.scope) \subseteq dead /\ Y \subseteq Alive(f.entry, f.scope, f.entryDone)
  BY BranchIs DEF AliveInv, BranchAlive
<1>3. \A i \in DOMAIN slots : MemberNames(slots[i].surviving) \cap Inner = {}
  BY DEF ArmEnds, SlotsOf
<1>4. KeepsIn(slots, bound, done, A) /\ A \subseteq InScope(bound)
  BY AliveKeeps
<1> HIDE DEF f, A, dead
<1>5. SlotsOK(f.scope, slots)
  <2> SUFFICES ASSUME NEW i \in DOMAIN slots PROVE MembersOK(f.scope, MemberNames(slots[i].surviving))
    BY <1>2 DEF SlotsOK, SlotOK
  <2>1. MembersOK(bound, MemberNames(slots[i].surviving)) /\ MemberNames(slots[i].surviving) \cap Inner = {}
    BY <1>2, <1>3 DEF SlotsOK, SlotOK
  <2> QED BY <1>1, <2>1 DEF MembersOK
<1>6. KeepsIn(slots, f.scope, dead, Y)
  BY <1>1, <1>2, <1>4 DEF KeepsIn
<1>7. left \subseteq Y
  BY <1>6, AliveLeast
<1> HIDE DEF left
<1>8. Whole(slots, f.scope, left, moved \ Inner)
  BY <1>1, <1>2, <1>7 DEF Whole
<1> QED BY <1>2, <1>5, <1>7, <1>8 DEF f, dead, left, A

LEMMA OtherArmAlive ==
  ASSUME EscapeInv, AliveInv, OtherArm, ~Has("capturedInArm")
  PROVE  AliveInv'
<1> DEFINE f == branch[1]
           mv == moved \ Inner
           g == Second(f, slots, mv)
           dead == f.entryDone \cup granted
           left == Alive(slots, f.scope, dead)
           entry == Alive(f.entry, f.scope, f.entryDone)
<1>1. /\ Nesting = 1 /\ ArmEnds /\ branch' = <<g>>
      /\ slots' = f.entry /\ bound' = f.scope /\ moved' = f.entryMoved /\ done' = f.entryDone
      /\ granted' = granted /\ phase' = phase
  BY DEF OtherArm, Second
<1>2. f \in BranchesOpen /\ phase = "body"
  BY <1>1, BranchIs
<1>3. slots \in Seq(SlotKinds) /\ mv \in SUBSET Locals
  BY DEF EscapeInv, CapturesTypeOK, WalkTypesOK
<1>4. /\ SlotsOK(f.scope, slots) /\ Whole(slots, f.scope, left, mv) /\ left \subseteq entry
  BY <1>1, ArmAlive
<1>5. /\ SlotsOK(f.scope, f.entry) /\ ScopeOK(f.scope) /\ Whole(f.entry, f.scope, entry, f.entryMoved)
      /\ Exclusive(f.scope, entry) /\ dead \subseteq InScope(f.scope)
  BY <1>1 DEF AliveInv, BranchAlive
<1> HIDE DEF f, mv
<1>6. /\ g.arm = 2 /\ g.first = slots /\ g.firstMoved = mv /\ g.entry = f.entry
      /\ g.scope = f.scope /\ g.entryMoved = f.entryMoved /\ g.entryDone = f.entryDone
  BY <1>2, <1>3, SecondArm
<1> HIDE DEF g
<1>7. branch'[1] = g /\ Nesting' = 1
  BY <1>1 DEF Nesting
<1>8. LET dead2 == g.entryDone \cup granted'  entry2 == Alive(g.entry, g.scope, g.entryDone) IN
      /\ SlotsOK(g.scope, g.entry) /\ ScopeOK(g.scope)
      /\ Whole(g.entry, g.scope, entry2, g.entryMoved) /\ Exclusive(g.scope, entry2)
      /\ dead2 \subseteq InScope(g.scope) /\ done' \cap InScope(g.scope) \subseteq dead2
      /\ Alive(slots', bound', done') \cap InScope(g.scope) \subseteq entry2
      /\ SlotsOK(g.scope, g.first) /\ Whole(g.first, g.scope, Alive(g.first, g.scope, dead2), g.firstMoved)
      /\ Alive(g.first, g.scope, dead2) \subseteq entry2
  BY <1>1, <1>4, <1>5, <1>6
<1>9. BranchAlive'
  BY <1>7, <1>8 DEF BranchAlive
<1>10. /\ SlotsOK(bound', slots') /\ ScopeOK(bound') /\ done' \subseteq InScope(bound')
       /\ Exclusive(bound', Alive(slots', bound', done')) /\ Whole(slots', bound', Alive(slots', bound', done'), moved')
  BY <1>1, <1>5
<1> QED BY <1>7, <1>9, <1>10 DEF AliveInv

\* a slot of the join holds what the two arms left there
Joining(s, t, owning, b, mv) ==
  /\ s.kind = t.kind /\ mv \subseteq moved /\ SlotOK(b, s) /\ SlotOK(b, t)
  /\ MemberNames(s.surviving) \cap mv = {} /\ MemberNames(t.surviving) \cap mv = {}
  /\ s.kind = "lit" /\ ~SameLiteral(s, t) =>
       bound = b /\ Materializes(s.lit, TRUE, owning) /\ Materializes(t.lit, TRUE, owning)
LEMMA MergeAlive ==
  ASSUME EscapeInv, ~Has("readThenConsumed"), ~Has("fetchedLate"), NEW s \in SlotKinds, NEW t \in SlotKinds,
         NEW owning \in BOOLEAN, NEW b, NEW mv, Joining(s, t, owning, b, mv)
  PROVE  LET u == Merge(s, t, owning) IN
         /\ SlotOK(b, u) /\ MemberNames(u.surviving) \cap mv = {}
         /\ OnStack(u) \subseteq OnStack(s) \cup OnStack(t)
<1> DEFINE u == Merge(s, t, owning)
           kind == IF s.kind # "lit" THEN s.kind ELSE IF owning THEN "own" ELSE "fn"
           from == s.from \cup t.from
<1>1. /\ MembersOK(b, MemberNames(s.surviving)) /\ MembersOK(b, MemberNames(t.surviving))
      /\ s.kind = "lit" => s.surviving = NoSet
  BY DEF SlotOK, Joining
<1>2. s.lit \in LiteralBodies /\ t.lit \in LiteralBodies /\ s.surviving \in SurvivingSets /\ t.surviving \in SurvivingSets
      /\ kind \in {"lit", "fn", "own", "car"} /\ from \in SUBSET Locals
  BY DEF SlotKinds
<1>3. /\ s.kind = t.kind /\ mv \subseteq moved /\ MemberNames(s.surviving) \cap mv = {} /\ MemberNames(t.surviving) \cap mv = {}
      /\ s.kind = "lit" /\ ~SameLiteral(s, t) =>
           bound = b /\ Materializes(s.lit, TRUE, owning) /\ Materializes(t.lit, TRUE, owning)
      /\ SlotOK(b, s)
  BY DEF Joining
<1>4. CASE s.kind = "lit" /\ SameLiteral(s, t)
  <2>1. Merge(s, t, owning) = s
    BY <1>4 DEF Merge
  <2> QED BY <1>3, <2>1
<1>5. CASE s.kind = "lit" /\ ~SameLiteral(s, t)
  <2> DEFINE p == Surviving(s.lit, owning)
             q == Surviving(t.lit, owning)
  <2>1. p \in SurvivingSets /\ q \in SurvivingSets
    BY <1>2, SurvivingTyped
  <2>2. WalkTypesOK /\ bound = b
    BY <1>3, <1>5 DEF EscapeInv, CapturesTypeOK
  <2>3. MembersOK(b, MemberNames(p)) /\ MemberNames(p) \subseteq Captured(s.lit) /\ MemberNames(p) \cap moved = {}
    <3> DEFINE l == s.lit
    <3>1. l \in LiteralBodies /\ Materializes(l, TRUE, owning)
      BY <1>2, <1>3, <1>5
    <3> HIDE DEF l
    <3>2. /\ MembersOK(bound, MemberNames(Surviving(l, owning))) /\ MemberNames(Surviving(l, owning)) \subseteq Captured(l)
          /\ MemberNames(Surviving(l, owning)) \cap moved = {}
      BY <2>2, <3>1, LiteralAlive
    <3> QED BY <2>2, <3>2 DEF l
  <2>4. MembersOK(b, MemberNames(q)) /\ MemberNames(q) \subseteq Captured(t.lit) /\ MemberNames(q) \cap moved = {}
    <3> DEFINE l == t.lit
    <3>1. l \in LiteralBodies /\ Materializes(l, TRUE, owning)
      BY <1>2, <1>3, <1>5
    <3> HIDE DEF l
    <3>2. /\ MembersOK(bound, MemberNames(Surviving(l, owning))) /\ MemberNames(Surviving(l, owning)) \subseteq Captured(l)
          /\ MemberNames(Surviving(l, owning)) \cap moved = {}
      BY <2>2, <3>1, LiteralAlive
    <3> QED BY <2>2, <3>2 DEF l
  <2> DEFINE w == UnionSurviving(p, q)
  <2>5. w \in SurvivingSets /\ MemberNames(w) = MemberNames(p) \cup MemberNames(q)
    <3> HIDE DEF p, q
    <3> QED BY <2>1, EscapableUnion, NamesUnion
  <2>6. u = Slot(kind, w, from) /\ kind # "lit"
    BY <1>5 DEF Merge, JoinedSet
  <2> HIDE DEF p, q, w, kind, from
  <2>7. Slot(kind, w, from).kind = kind /\ Slot(kind, w, from).surviving = w
    BY <1>2, <2>5, SlotIs
  <2> HIDE DEF u
  <2>8. u.kind # "lit" /\ u.surviving = w
    BY <2>6, <2>7
  <2>9. MembersOK(b, MemberNames(w)) /\ MemberNames(w) \cap mv = {} /\ MemberNames(w) \subseteq Captured(s.lit) \cup Captured(t.lit)
    BY <1>3, <2>3, <2>4, <2>5 DEF MembersOK
  <2>10. OnStack(u) = MemberNames(w) /\ OnStack(s) = Captured(s.lit) /\ OnStack(t) = Captured(t.lit)
    BY <1>3, <1>5, <2>8 DEF OnStack
  <2> QED BY <2>8, <2>9, <2>10 DEF u, SlotOK
<1>6. CASE s.kind # "lit"
  <2> DEFINE w == UnionSurviving(s.surviving, t.surviving)
  <2>1. w \in SurvivingSets /\ MemberNames(w) = MemberNames(s.surviving) \cup MemberNames(t.surviving)
    BY <1>2, EscapableUnion, NamesUnion
  <2>2. u = Slot(kind, w, from) /\ kind # "lit"
    BY <1>6 DEF Merge, JoinedSet
  <2> HIDE DEF w, kind, from
  <2>3. Slot(kind, w, from).kind = kind /\ Slot(kind, w, from).surviving = w
    BY <1>2, <2>1, SlotIs
  <2> HIDE DEF u
  <2>4. u.kind # "lit" /\ u.surviving = w
    BY <2>2, <2>3
  <2>5. MembersOK(b, MemberNames(w)) /\ MemberNames(w) \cap mv = {}
    BY <1>1, <1>3, <2>1 DEF MembersOK
  <2>6. OnStack(u) = MemberNames(w) /\ OnStack(s) = MemberNames(s.surviving) /\ OnStack(t) = MemberNames(t.surviving)
    BY <1>3, <1>6, <2>4 DEF OnStack
  <2> QED BY <2>1, <2>4, <2>5, <2>6 DEF u, SlotOK
<1> QED BY <1>4, <1>5, <1>6

\* besides, what the join leaves alive is whole but for what it consumes itself
LEMMA CloseBranchAlive ==
  ASSUME EscapeInv, AliveInv, NEW tail \in BOOLEAN, NEW owning \in BOOLEAN, CloseBranch(tail, owning),
         ~Has("capturedInArm"), ~Has("readThenConsumed"), ~Has("fetchedLate")
  PROVE  AliveInv' /\ Whole(slots', bound', Alive(slots', bound', done'), branch[1].firstMoved)
<1> DEFINE f == branch[1]
           first == f.first
           made == {i \in DOMAIN slots : slots[i].kind = "lit" /\ ~SameLiteral(first[i], slots[i])}
           literals == {first[i].lit : i \in made} \cup {slots[i].lit : i \in made}
           joined == [i \in DOMAIN slots |-> Merge(first[i], slots[i], owning)]
           dead == f.entryDone \cup granted
           entry == Alive(f.entry, f.scope, f.entryDone)
           one == Alive(first, f.scope, dead)
           two == Alive(slots, f.scope, dead)
<1>1. /\ Nesting = 1 /\ f.arm = 2 /\ Len(first) = Len(slots) /\ ArmEnds /\ f.firstMoved = moved \ Inner
      /\ \A i \in DOMAIN slots : first[i].kind = slots[i].kind
      /\ tail = (made # {}) /\ (tail => bound = f.scope)
      /\ \A l \in literals : Materializes(l, TRUE, owning)
      /\ slots' = joined /\ bound' = f.scope /\ moved' = f.firstMoved \cup UNION {l.eats : l \in literals}
      /\ done' = dead /\ granted' = {} /\ branch' = <<>>
      /\ phase' = IF tail THEN "tail" ELSE phase
  BY DEF CloseBranch
<1>2. WalkTypesOK /\ f \in BranchesOpen /\ phase = "body"
  BY <1>1, BranchIs DEF EscapeInv, CapturesTypeOK
<1>3. first \in Seq(SlotKinds) /\ slots \in Seq(SlotKinds) /\ DOMAIN first = DOMAIN slots
      /\ \A i \in DOMAIN slots : slots[i] \in SlotKinds /\ first[i] \in SlotKinds
  BY <1>1, <1>2 DEF BranchesOpen, WalkTypesOK
<1>4. /\ SlotsOK(f.scope, slots) /\ Whole(slots, f.scope, two, f.firstMoved) /\ two \subseteq entry
  BY <1>1, ArmAlive
<1>5. /\ ScopeOK(f.scope) /\ Exclusive(f.scope, entry) /\ dead \subseteq InScope(f.scope)
      /\ SlotsOK(f.scope, first) /\ Whole(first, f.scope, one, f.firstMoved) /\ one \subseteq entry
  BY <1>1 DEF AliveInv, BranchAlive
<1>6. KeepsIn(first, f.scope, dead, one) /\ KeepsIn(slots, f.scope, dead, two)
      /\ one \subseteq InScope(f.scope) /\ two \subseteq InScope(f.scope)
  BY AliveKeeps
<1>7. f.firstMoved \subseteq moved
  BY <1>1
<1>8. \A i \in made : first[i].lit \in literals /\ slots[i].lit \in literals
  OBVIOUS
<1> HIDE DEF entry, one, two, dead, f, first
<1>9. ASSUME NEW i \in DOMAIN slots
      PROVE  LET u == Merge(first[i], slots[i], owning) IN
             /\ SlotOK(f.scope, u) /\ MemberNames(u.surviving) \cap f.firstMoved = {}
             /\ OnStack(u) \subseteq OnStack(first[i]) \cup OnStack(slots[i])
  <2> DEFINE s == first[i]
             t == slots[i]
             b == f.scope
             mv == f.firstMoved
  <2>1. SlotOK(b, s) /\ SlotOK(b, t)
    BY <1>3, <1>4, <1>5 DEF SlotsOK
  <2>2. MemberNames(s.surviving) \cap mv = {} /\ MemberNames(t.surviving) \cap mv = {}
    BY <1>3, <1>4, <1>5 DEF Whole
  <2>3. s.kind = "lit" /\ ~SameLiteral(s, t) =>
          bound = b /\ Materializes(s.lit, TRUE, owning) /\ Materializes(t.lit, TRUE, owning)
    <3>1. s.kind = "lit" /\ ~SameLiteral(s, t) => i \in made
      BY <1>1
    <3>2. i \in made => tail
      BY <1>1
    <3> HIDE DEF made, literals
    <3> QED BY <1>1, <1>8, <3>1, <3>2
  <2>4. s \in SlotKinds /\ t \in SlotKinds /\ s.kind = t.kind /\ mv \in SUBSET moved
    BY <1>1, <1>3, <1>7
  <2> HIDE DEF s, t, b, mv
  <2>5. LET u == Merge(s, t, owning) IN
        /\ SlotOK(b, u) /\ MemberNames(u.surviving) \cap mv = {}
        /\ OnStack(u) \subseteq OnStack(s) \cup OnStack(t)
    <3>1. Joining(s, t, owning, b, mv)
      BY <2>1, <2>2, <2>3, <2>4 DEF Joining
    <3> QED BY <2>4, <3>1, MergeAlive
  <2> QED BY <2>5 DEF s, t, b, mv
<1>10. /\ DOMAIN joined = DOMAIN slots
       /\ \A i \in DOMAIN slots : joined[i] = Merge(first[i], slots[i], owning)
  OBVIOUS
<1> HIDE DEF joined
<1>11. \A i \in DOMAIN joined : /\ SlotOK(f.scope, joined[i]) /\ MemberNames(joined[i].surviving) \cap f.firstMoved = {}
                                /\ OnStack(joined[i]) \subseteq OnStack(first[i]) \cup OnStack(slots[i])
  BY <1>9, <1>10
<1>12. SlotsOK(f.scope, joined)
  BY <1>11 DEF SlotsOK
<1>13. KeepsIn(joined, f.scope, dead, one \cup two)
  <2>1. \A i \in DOMAIN joined : OnStack(joined[i]) \cap InScope(f.scope) \subseteq one \cup two
    BY <1>3, <1>6, <1>10, <1>11 DEF KeepsIn
  <2> QED BY <1>6, <2>1 DEF KeepsIn
<1>14. Alive(joined, f.scope, dead) \subseteq one \cup two
  BY <1>6, <1>13, AliveLeast
<1>15. Whole(joined, f.scope, Alive(joined, f.scope, dead), f.firstMoved)
  BY <1>4, <1>5, <1>11, <1>14 DEF Whole
<1>16. Exclusive(f.scope, Alive(joined, f.scope, dead))
  BY <1>4, <1>5, <1>14 DEF Exclusive
<1>17. phase' = "body" => moved' = f.firstMoved
  <2>1. phase' = "body" => literals = {}
    BY <1>1
  <2> HIDE DEF literals
  <2> QED BY <1>1, <2>1
<1>18. Nesting' = 0
  BY <1>1 DEF Nesting
<1>19. /\ SlotsOK(bound', slots') /\ ScopeOK(bound') /\ done' \subseteq InScope(bound')
       /\ Exclusive(bound', Alive(slots', bound', done')) /\ Whole(slots', bound', Alive(slots', bound', done'), f.firstMoved)
       /\ phase' = "body" => Whole(slots', bound', Alive(slots', bound', done'), moved')
  BY <1>1, <1>5, <1>12, <1>15, <1>16, <1>17
<1> QED BY <1>1, <1>18, <1>19 DEF AliveInv, f

LEMMA ReturnAlive ==
  ASSUME EscapeInv, AliveInv, NEW owning \in BOOLEAN, Return(owning)
  PROVE  AliveInv'
<1>1. /\ Nesting = 0 /\ phase' = "returned" /\ slots' = <<>> /\ bound' = [n \in Locals |-> Nothing]
      /\ done' = {} /\ granted' = granted /\ branch' = branch
  BY DEF Return
<1>2. InScope(bound') = {} /\ DOMAIN slots' = {}
  BY <1>1 DEF InScope
<1>3. Alive(slots', bound', done') = {}
  BY <1>2, AliveKeeps
<1>4. Nesting' = 0 /\ granted' = {}
  BY <1>1 DEF Nesting, AliveInv
<1>5. SlotsOK(bound', slots') /\ ScopeOK(bound') /\ Exclusive(bound', Alive(slots', bound', done'))
  BY <1>2, <1>3 DEF SlotsOK, SlotOK, ScopeOK, OneGiven, IsGiven, Exclusive
<1> QED BY <1>1, <1>4, <1>5 DEF AliveInv

\* a word is entered with a stack that is empty and with nothing captured
LEMMA InitIs ==
  ASSUME CapturesInit
  PROVE  /\ branch = <<>> /\ slots = <<>> /\ done = {} /\ moved = {} /\ granted = {} /\ phase = "body"
         /\ held = <<>> /\ heap = [s \in Ids \cup {Outer} |-> NoClosure] /\ gone = {} /\ taken = TRUE
         /\ \A n \in InScope(bound) : /\ bound[n].kind \in {"ref", "car", "lin"} /\ bound[n].root = Nothing
                                      /\ bound[n].level = 0 /\ bound[n].surviving = NoSet
                                      /\ bound[n].kind = "ref" => n = 1
<1>1. PICK k \in 0..MaxParameters : \E kinds \in [1..k -> {"ref", "car", "lin"}] :
        /\ \A n \in 2..k : kinds[n] # "ref" /\ (kinds[n] = "car" => kinds[n - 1] # "lin")
        /\ bound = [n \in Locals |-> IF n > k THEN Nothing ELSE Parameter(kinds[n])]
  BY DEF CapturesInit
<1>2. PICK kinds \in [1..k -> {"ref", "car", "lin"}] :
        /\ \A n \in 2..k : kinds[n] # "ref"
        /\ bound = [n \in Locals |-> IF n > k THEN Nothing ELSE Parameter(kinds[n])]
  BY <1>1
<1>3. /\ branch = <<>> /\ slots = <<>> /\ done = {} /\ moved = {} /\ granted = {} /\ phase = "body"
      /\ held = <<>> /\ heap = [s \in Ids \cup {Outer} |-> NoClosure] /\ gone = {} /\ taken = TRUE
  BY DEF CapturesInit
<1>4. k \in Nat /\ MaxNames \in Nat
  BY CapturesAssumption
<1>5. \A n \in Locals : n \in Nat /\ n >= 1 /\ (n <= k => n \in 1..k) /\ (n > k <=> ~(n <= k)) /\ (n <= k => n = 1 \/ n \in 2..k)
  BY <1>4 DEF Locals
<1>6. \A kind \in {"ref", "car", "lin"} :
        LET v == Parameter(kind) IN v.kind = kind /\ v.root = Nothing /\ v.level = 0 /\ v.surviving = NoSet
  <2>1. Len(branch) = 0
    BY <1>3
  <2> QED BY <2>1 DEF Parameter, Given, Binding
<1>7. \A n \in Locals : IF n <= k THEN bound[n] = Parameter(kinds[n]) /\ kinds[n] \in {"ref", "car", "lin"}
                                       /\ (kinds[n] = "ref" => n = 1)
                        ELSE bound[n] = Nothing
  BY <1>2, <1>5
<1> QED BY <1>3, <1>6, <1>7 DEF InScope

LEMMA InitAlive ==
  ASSUME CapturesInit
  PROVE  AliveInv
<1>1. /\ branch = <<>> /\ slots = <<>> /\ done = {} /\ moved = {} /\ granted = {}
      /\ \A n \in InScope(bound) : /\ bound[n].kind \in {"ref", "car", "lin"} /\ bound[n].root = Nothing
                                   /\ bound[n].level = 0 /\ bound[n].surviving = NoSet
                                   /\ bound[n].kind = "ref" => n = 1
  BY InitIs
<1>2. Alive(slots, bound, done) \subseteq InScope(bound)
  BY AliveKeeps
<1>3. SlotsOK(bound, slots) /\ OneGiven(bound)
  BY <1>1 DEF SlotsOK, SlotOK, OneGiven, IsGiven
<1>4. ScopeOK(bound)
  BY <1>1, <1>3, NoNames DEF ScopeOK, MembersOK
<1>5. Exclusive(bound, Alive(slots, bound, done))
  BY <1>1, <1>2 DEF Exclusive
<1>6. Whole(slots, bound, Alive(slots, bound, done), moved)
  BY <1>1, <1>2 DEF Whole
<1>7. Nesting = 0
  BY <1>1 DEF Nesting
<1> QED BY <1>1, <1>3, <1>4, <1>5, <1>6, <1>7 DEF AliveInv

LEMMA NextAlive ==
  ASSUME ClosureShapes = {}, EscapeInv, AliveInv, [CapturesNext]_closures
  PROVE  AliveInv'
<1>1. \A shape : ~Has(shape)
  BY DEF Has
<1>2. CASE phase = "body" /\ terms > 0 /\ terms' = terms - 1 /\ Term
  <2>1. CASE \E n \in Locals : Make(n, "lin") \/ Make(n, "car") \/ BindTop(n) \/ DropLocal(n) \/ PushLocal(n)
    BY <1>1, <1>2, <2>1, MakeAlive, BindTopAlive, DropLocalAlive, PushLocalAlive
  <2>2. CASE \E n, r \in Locals, mutable \in BOOLEAN : n # r /\ Borrow(n, r, mutable)
    BY <1>2, <2>2, BorrowAlive
  <2>3. CASE \E l \in Literals : PushLiteral(l)
    BY <1>2, <2>3, PushLiteralAlive
  <2>4. CASE \E to \in {"fn", "own", "car"} : PassOn(to)
    BY <1>1, <1>2, <2>4, PassOnAlive
  <2>5. CASE \E r \in Locals : Fetch(r) \/ Store(r) \/ StoreByCall(r)
    <3>1. \A r \in Locals : ~StoreByCall(r)
      BY <1>1 DEF StoreByCall
    <3> QED BY <1>1, <1>2, <2>5, <3>1, FetchAlive, StoreAlive
  <2>6. CASE Call
    BY <1>2, <2>6, CallAlive
  <2> QED BY <1>2, <2>1, <2>2, <2>3, <2>4, <2>5, <2>6 DEF Term
<1>3. CASE \E pick \in 1..2 : OpenBranch(pick)
  BY <1>3, OpenBranchAlive
<1>4. CASE OtherArm
  BY <1>1, <1>4, OtherArmAlive
<1>5. CASE \E tail, owning \in BOOLEAN : CloseBranch(tail, owning)
  BY <1>1, <1>5, CloseBranchAlive
<1>6. CASE \E owning \in BOOLEAN : Return(owning)
  BY <1>6, ReturnAlive
<1>7. CASE UNCHANGED closures
  <2>1. UNCHANGED <<slots, bound, done, moved, granted, branch, phase>>
    BY <1>7 DEF closures, walk
  <2>2. Alive(slots', bound', done') = Alive(slots, bound, done) /\ Nesting' = Nesting
    BY <2>1 DEF Nesting
  <2>3. Nesting = 1 => BranchAlive'
    BY <2>1, <2>2 DEF AliveInv, BranchAlive
  <2>4. /\ SlotsOK(bound', slots') /\ ScopeOK(bound') /\ done' \subseteq InScope(bound')
        /\ Exclusive(bound', Alive(slots', bound', done'))
        /\ phase' = "body" => Whole(slots', bound', Alive(slots', bound', done'), moved')
        /\ Nesting' = 0 => granted' = {}
    BY <2>1, <2>2 DEF AliveInv
  <2> QED BY <2>2, <2>3, <2>4 DEF AliveInv
<1> QED BY <1>2, <1>3, <1>4, <1>5, <1>6, <1>7 DEF CapturesNext

-----------------------------------------------------------------------------
(* What a closure points to stays covered, as names come into scope or go.   *)

\* of the names in K nothing is lost
CarriedOver(b, e, b2, e2, K) ==
  /\ \A n \in InScope(b) \cap K :
       /\ n \in InScope(b2) /\ b2[n].kind = b[n].kind /\ b2[n].root = b[n].root /\ e2[n] = e[n]
       /\ MemberNames(b[n].surviving) \subseteq MemberNames(b2[n].surviving) \cap K
  /\ \A n : IsGiven(b, n) => n \in K

LEMMA CoveredOver ==
  ASSUME NEW b, NEW e, NEW b2, NEW e2, NEW K, CarriedOver(b, e, b2, e2, K),
         NEW c, NEW names, Covered(c, names, b, e), names \subseteq K, NEW names2, names \subseteq names2
  PROVE  Covered(c, names2, b2, e2)
<1>1. \A p : OfCaller(p, b) => OfCaller(p, b2)
  BY DEF CarriedOver, OfCaller, IsGiven
<1>2. \A n \in names : \A p : Covers(n, p, b, e) => Covers(n, p, b2, e2)
  BY DEF CarriedOver, Covers
<1> QED BY <1>1, <1>2 DEF Covered

LEMMA SlotOver ==
  ASSUME NEW b, NEW e, NEW b2, NEW e2, NEW K, CarriedOver(b, e, b2, e2, K),
         NEW x, NEW v, SlotCovered(x, v, b, e), MemberNames(x.surviving) \subseteq K \cap InScope(b)
  PROVE  SlotCovered(x, v, b2, e2)
<1> DEFINE names == MemberNames(x.surviving)
<1>1. x.kind = "own" => Covered(v, Through(names, b2), b2, e2)
  <2> SUFFICES ASSUME x.kind = "own" PROVE Covered(v, Through(names, b2), b2, e2)
    OBVIOUS
  <2>1. Through(names, b) \subseteq K /\ Through(names, b) \subseteq Through(names, b2)
    BY DEF CarriedOver, Through
  <2>2. Covered(v, Through(names, b), b, e)
    BY DEF SlotCovered
  <2> QED BY <2>1, <2>2, CoveredOver
<1>2. x.kind \in {"fn", "car"} => Covered(v, names, b2, e2)
  <2> SUFFICES ASSUME x.kind \in {"fn", "car"} PROVE Covered(v, names, b2, e2)
    OBVIOUS
  <2>1. Covered(v, names, b, e)
    BY DEF SlotCovered
  <2> QED BY <2>1, CoveredOver
<1> QED BY <1>1, <1>2 DEF SlotCovered

LEMMA NameOver ==
  ASSUME NEW b, NEW e, NEW b2, NEW e2, NEW K, CarriedOver(b, e, b2, e2, K),
         NEW h, NEW h2, NEW n \in InScope(b) \cap K, NameCovered(n, b, e, h),
         b[n].kind \in {"lin", "car"} => h2[e[n].st] = h[e[n].st]
  PROVE  NameCovered(n, b2, e2, h2)
<1> DEFINE names == MemberNames(b[n].surviving)
           names2 == MemberNames(b2[n].surviving)
<1>1. /\ b2[n].kind = b[n].kind /\ e2[n] = e[n] /\ names \subseteq names2 /\ names \subseteq K
  BY DEF CarriedOver
<1>2. b[n].kind = "fn" => Covered(e[n].clo, names2, b2, e2) /\ e[n].clo.owns = {}
  BY <1>1, CoveredOver DEF NameCovered
<1>3. b[n].kind = "car" => Covered(h[e[n].st], names2, b2, e2) /\ h[e[n].st].owns = {}
  BY <1>1, CoveredOver DEF NameCovered
<1>4. b[n].kind = "lin" => h[e[n].st] = NoClosure
  BY DEF NameCovered
<1> QED BY <1>1, <1>2, <1>3, <1>4 DEF NameCovered

LEMMA OuterOver ==
  ASSUME NEW b, NEW e, NEW b2, NEW e2, NEW K, CarriedOver(b, e, b2, e2, K), NEW h, OuterCovered(b, h)
  PROVE  OuterCovered(b2, h)
BY DEF CarriedOver, OuterCovered, OfCaller, IsGiven

\* with a step of the execution too
LEMMA CoveringSettled ==
  ASSUME NEW sl, NEW b, NEW mv, NEW vs, NEW e, NEW h, NEW d, Settle(vs, e, h, d), Covering(sl, b, mv, vs, e, h, gone \cup d),
         ExecutionTypesOK', \A n \in InScope(b) : e[n] # Nothing
  PROVE  Covering(sl, b, mv, held', places', heap', gone')
<1>1. /\ held' = vs /\ places' = e /\ gone' \subseteq gone \cup d
      /\ heap' = [s \in DOMAIN h |-> IF s \in PointedTo(vs, e, h) \cup {Outer} THEN h[s] ELSE NoClosure]
  BY DEF Settle
<1>2. e \in [Locals -> PlaceValues \cup {Nothing}] /\ DOMAIN h = Ids \cup {Outer}
  BY <1>1 DEF ExecutionTypesOK
<1>3. \A n \in InScope(b) : heap'[e[n].st] = h[e[n].st]
  <2> SUFFICES ASSUME NEW n \in InScope(b) PROVE heap'[e[n].st] = h[e[n].st]
    OBVIOUS
  <2>1. e[n] # Nothing /\ n \in Locals /\ e[n] \in PlaceValues
    BY <1>2 DEF InScope
  <2>2. e[n].st \in PointedTo(vs, e, h) /\ e[n].st \in DOMAIN h
    BY <1>2, <2>1 DEF PointedTo, PlaceValues
  <2> QED BY <1>1, <2>2
<1>4. heap'[Outer] = h[Outer]
  BY <1>1, <1>2
<1>5. SlotsCovered(sl, b, vs, e) /\ OuterCovered(b, heap')
  BY <1>4 DEF Covering, OuterCovered
<1>6. NamesCovered(b, e, heap')
  BY <1>3 DEF Covering, NamesCovered, NameCovered
<1>7. Disposed(b, mv, e, gone') /\ Owned(b, mv, vs, e, gone')
  BY <1>1 DEF Covering, Disposed, Owned
<1> QED BY <1>1, <1>5, <1>6, <1>7 DEF Covering

LEMMA TermCovers ==
  ASSUME EscapeInv, CoverInv, EscapeInv', phase = "body", phase' = phase, branch' = branch,
         NEW vs, NEW e, NEW h, NEW d, Execute(vs, e, h, d), taken => Covering(slots', bound', moved', vs, e, h, gone \cup d)
  PROVE  CoverInv'
<1>1. taken' = taken
  BY DEF Execute
<1>2. CASE taken
  <2>1. Settle(vs, e, h, d) /\ Covering(slots', bound', moved', vs, e, h, gone \cup d)
    BY <1>2 DEF Execute
  <2>2. ExecutionTypesOK'
    BY DEF EscapeInv, CapturesTypeOK
  <2>3. SeenSlots' = slots' /\ SeenScope' = bound' /\ SeenMoved' = moved'
    BY <1>1, <1>2 DEF SeenSlots, SeenScope, SeenMoved
  <2>4. NamesFit(bound', places', heap')
    BY <2>3 DEF EscapeInv, FitInv, Agrees
  <2>5. places' = e
    BY <2>1 DEF Settle
  <2>6. \A n \in InScope(bound') : e[n] # Nothing
    BY <2>4, <2>5 DEF NamesFit
  <2>7. Covering(slots', bound', moved', held', places', heap', gone')
    BY <2>1, <2>2, <2>6, CoveringSettled
  <2> QED BY <2>3, <2>7 DEF CoverInv
<1>3. CASE ~taken
  <2>1. UNCHANGED <<held, places, heap, gone, taken, branch, phase>>
    BY <1>1, <1>3 DEF Execute
  <2>2. SeenSlots' = SeenSlots /\ SeenScope' = SeenScope /\ SeenMoved' = SeenMoved
    BY <1>3, <2>1 DEF SeenSlots, SeenScope, SeenMoved
  <2>3. Covering(SeenSlots, SeenScope, SeenMoved, held, places, heap, gone)
    BY DEF CoverInv
  <2> QED BY <2>1, <2>2, <2>3 DEF CoverInv
<1>4. taken \in BOOLEAN
  BY DEF EscapeInv, CapturesTypeOK, ExecutionTypesOK
<1> QED BY <1>2, <1>3

\* what is known of the execution while it goes along
LEMMA CoverFacts ==
  ASSUME EscapeInv, CoverInv, taken, phase # "returned"
  PROVE  /\ SlotsCovered(slots, bound, held, places) /\ NamesCovered(bound, places, heap) /\ OuterCovered(bound, heap)
         /\ Disposed(bound, moved, places, gone) /\ Owned(bound, moved, held, places, gone)
         /\ NamesFit(bound, places, heap) /\ Apart(bound, places) /\ RootsOK(bound)
         /\ bound \in Scopes /\ heap \in [Ids \cup {Outer} -> ClosureValues] /\ slots \in Seq(SlotKinds)
         /\ places \in [Locals -> PlaceValues \cup {Nothing}] /\ held \in Seq(ClosureValues) /\ Len(held) = Len(slots)
         /\ \A n \in Places(bound) : n \in InScope(bound) /\ places[n] # Nothing /\ places[n].st \in Ids
<1>1. SeenSlots = slots /\ SeenScope = bound /\ SeenMoved = moved
  BY DEF SeenSlots, SeenScope, SeenMoved
<1>2. Covering(slots, bound, moved, held, places, heap, gone)
  BY <1>1 DEF CoverInv
<1>3. SlotsFit(slots, held) /\ NamesFit(bound, places, heap) /\ Apart(bound, places) /\ RootsOK(bound)
  BY SeenTaken, LevelsOK
<1>4. \A n \in Places(bound) : n \in InScope(bound) /\ places[n] # Nothing /\ places[n].st \in Ids
  BY <1>3 DEF NamesFit, Places
<1> QED BY <1>2, <1>3, <1>4 DEF Covering, SlotsFit, EscapeInv, CapturesTypeOK, WalkTypesOK, ExecutionTypesOK

\* a closure points to what the literal captured, and owns what it consumes
LEMMA ClosureCovered ==
  ASSUME WalkTypesOK, NEW l \in LiteralBodies, NEW owning \in BOOLEAN, NEW escaping, Materializes(l, escaping, owning),
         ~Has("readThenConsumed"), ~Has("fetchedLate"),
         RootsOK(bound), NamesFit(bound, places, heap), NamesCovered(bound, places, heap)
  PROVE  LET names == MemberNames(Surviving(l, owning))  c == Closure(l, owning) IN
         /\ Covered(c, Through(names, bound), bound, places) /\ (~owning => Covered(c, names, bound, places))
         /\ c.owns = {places[n].st : n \in l.eats} /\ (~owning => c.owns = {})
         /\ l.eats \subseteq Places(bound) /\ l.eats \cap moved = {}
<1> DEFINE names == MemberNames(Surviving(l, owning))
           c == Closure(l, owning)
           kept == {n \in Captured(l) : bound[n].kind = "ref" \/ ~owning}
           copied == {heap[places[n].st] : n \in {m \in Captured(l) : owning /\ bound[m].kind = "car"}}
           all == Through(names, bound)
<1>1. /\ names \subseteq Captured(l) /\ l.eats \subseteq Captured(l) /\ (~owning => l.eats = {})
      /\ Captured(l) \subseteq InScope(bound) /\ Captured(l) \cap moved = {}
      /\ \A n \in l.eats : bound[n].kind = "lin"
  BY LiteralAlive
<1>2. names = {n \in Captured(l) : ~Moves(n, owning)}
  BY NamesSurviving
<1>3. /\ \A n \in Captured(l) : bound[n].kind # "fn" /\ bound[n] \in Bindings
      /\ owning => \A n \in Captured(l) : bound[n].kind = "lin" => n \in l.eats
  BY <1>1 DEF Materializes, Admitted, WalksBody, OwnsWhatItTook, WalkTypesOK, Scopes, InScope
<1>4. /\ c.pts = {Pointer(n) : n \in kept} \cup UNION {d.pts : d \in copied}
      /\ c.owns = {places[n].st : n \in {m \in Captured(l) : Moves(m, owning)}}
  BY DEF Closure
<1>5. \A n \in Captured(l) : Moves(n, owning) <=> n \in l.eats
  BY <1>1, <1>3 DEF Moves
<1>6. c.owns = {places[n].st : n \in l.eats} /\ (~owning => c.owns = {})
  BY <1>1, <1>4, <1>5
<1>7. l.eats \subseteq Places(bound) /\ l.eats \cap moved = {}
  BY <1>1 DEF Places
<1> HIDE DEF names, c
<1>8. ASSUME NEW n \in kept
      PROVE  OfCaller(Pointer(n), bound) \/ (Pointer(n).st # Outer /\ n \in names /\ Covers(n, Pointer(n), bound, places))
  <2>1. Pointer(n).st = places[n].st /\ Pointer(n).by = (IF bound[n].kind = "ref" THEN n ELSE Nothing)
    BY DEF Pointer
  <2>2. n \in names /\ n \in InScope(bound) /\ n \in Locals /\ n # Nothing
    BY <1>1, <1>2, CapturesAssumption DEF Moves, InScope
  <2>3. Outer \notin Ids
    BY CapturesAssumption DEF Outer, Ids
  <2>4. CASE bound[n].kind = "ref" /\ bound[n].root = Nothing
    <3>1. places[n].st = Outer
      BY <2>2, <2>4 DEF NamesFit
    <3> QED BY <2>1, <2>2, <2>4, <3>1 DEF OfCaller, IsGiven
  <2>5. CASE bound[n].kind = "ref" /\ bound[n].root # Nothing
    <3>1. bound[n].root \in InScope(bound) /\ bound[bound[n].root].kind \in {"lin", "car"}
      BY <2>2, <2>5 DEF RootsOK, Places
    <3>2. places[n].st = places[bound[n].root].st /\ places[bound[n].root].st \in Ids
      BY <2>2, <2>5, <3>1 DEF NamesFit
    <3> QED BY <2>1, <2>2, <2>3, <2>5, <3>2 DEF Covers
  <2>6. CASE bound[n].kind # "ref"
    <3>1. bound[n].kind \in {"lin", "car"}
      BY <1>3, <2>6 DEF Bindings
    <3>2. places[n].st \in Ids
      BY <2>2, <3>1 DEF NamesFit
    <3> QED BY <2>1, <2>2, <2>3, <2>6, <3>1, <3>2 DEF Covers
  <2> QED BY <2>4, <2>5, <2>6
<1>9. ASSUME NEW d \in copied, NEW p \in d.pts
      PROVE  owning /\ (OfCaller(p, bound) \/ (p.st # Outer /\ \E n \in all : Covers(n, p, bound, places)))
  <2>1. PICK m \in Captured(l) : owning /\ bound[m].kind = "car" /\ d = heap[places[m].st]
    BY <1>9
  <2>2. m \in InScope(bound) /\ m \in names
    BY <1>1, <1>2, <2>1 DEF Moves
  <2>3. Covered(d, MemberNames(bound[m].surviving), bound, places)
    BY <2>1, <2>2 DEF NamesCovered, NameCovered
  <2>4. MemberNames(bound[m].surviving) \subseteq all
    BY <2>1, <2>2 DEF Through
  <2> HIDE DEF all, copied
  <2> QED BY <2>1, <2>3, <2>4 DEF Covered
<1>10. names \subseteq all
  BY DEF Through
<1> HIDE DEF all, kept, copied
<1>11. Covered(c, all, bound, places)
  <2> SUFFICES ASSUME NEW p \in c.pts
               PROVE  OfCaller(p, bound) \/ (p.st # Outer /\ \E n \in all : Covers(n, p, bound, places))
    BY DEF Covered
  <2>1. CASE \E n \in kept : p = Pointer(n)
    BY <1>8, <1>10, <2>1
  <2>2. CASE \E d \in copied : p \in d.pts
    BY <1>9, <2>2
  <2> QED BY <1>4, <2>1, <2>2
<1>12. ASSUME ~owning PROVE Covered(c, names, bound, places)
  <2> SUFFICES ASSUME NEW p \in c.pts
               PROVE  OfCaller(p, bound) \/ (p.st # Outer /\ \E n \in names : Covers(n, p, bound, places))
    BY DEF Covered
  <2>1. CASE \E n \in kept : p = Pointer(n)
    BY <1>8, <2>1
  <2>2. CASE \E d \in copied : p \in d.pts
    BY <1>9, <1>12, <2>2
  <2> QED BY <1>4, <2>1, <2>2
<1> QED BY <1>6, <1>7, <1>11, <1>12 DEF names, c, all

\* resources are taken into the closures at I
Takes(b, mv, vs, e, vs2, I, eats, mv2) ==
  /\ DOMAIN vs2 = DOMAIN vs /\ mv \subseteq mv2
  /\ \A i \in DOMAIN vs : vs2[i].owns = IF i \in I THEN {e[n].st : n \in eats[i]} ELSE vs[i].owns
  /\ \A i \in I : eats[i] \subseteq Places(b) /\ eats[i] \cap mv = {} /\ eats[i] \subseteq mv2
  /\ \A i, j \in I : i # j => eats[i] \cap eats[j] = {}
LEMMA OwnedMore ==
  ASSUME NEW b, NEW mv, NEW vs, NEW e, NEW g, Owned(b, mv, vs, e, g), Disposed(b, mv, e, g), Apart(b, e),
         NEW vs2, NEW I, NEW eats, NEW mv2, Takes(b, mv, vs, e, vs2, I, eats, mv2)
  PROVE  Owned(b, mv2, vs2, e, g) /\ Disposed(b, mv2, e, g)
<1> USE DEF Takes
<1>0. \A i \in DOMAIN vs : \A s : s \in vs2[i].owns <=> IF i \in I THEN \E n \in eats[i] : s = e[n].st ELSE s \in vs[i].owns
  <2> SUFFICES ASSUME NEW i \in DOMAIN vs, NEW s
               PROVE  s \in vs2[i].owns <=> IF i \in I THEN \E n \in eats[i] : s = e[n].st ELSE s \in vs[i].owns
    OBVIOUS
  <2>1. CASE i \in I
    <3>1. vs2[i].owns = {e[n].st : n \in eats[i]}
      BY <2>1
    <3> QED BY <2>1, <3>1
  <2>2. CASE i \notin I
    BY <2>2
  <2> QED BY <2>1, <2>2
<1>1. Disposed(b, mv2, e, g)
  BY DEF Disposed
<1>2. \A i \in DOMAIN vs2 : vs2[i].owns \cap g = {}
  <2> SUFFICES ASSUME NEW i \in DOMAIN vs, NEW s \in vs2[i].owns, s \in g PROVE FALSE
    OBVIOUS
  <2>1. CASE i \in I
    <3>1. PICK n \in eats[i] : s = e[n].st
      BY <1>0, <2>1
    <3> QED BY <2>1, <3>1 DEF Disposed
  <2>2. CASE i \notin I
    BY <1>0, <2>2 DEF Owned
  <2> QED BY <2>1, <2>2
<1>3. \A i \in DOMAIN vs2 : \A n \in Places(b) : e[n].st \in vs2[i].owns => n \in mv2
  <2> SUFFICES ASSUME NEW i \in DOMAIN vs, NEW n \in Places(b), e[n].st \in vs2[i].owns PROVE n \in mv2
    OBVIOUS
  <2>1. CASE i \in I
    <3>1. PICK m \in eats[i] : e[n].st = e[m].st
      BY <1>0, <2>1
    <3> QED BY <2>1, <3>1 DEF Apart
  <2>2. CASE i \notin I
    BY <1>0, <2>2 DEF Owned
  <2> QED BY <2>1, <2>2
<1>4. \A i, j \in DOMAIN vs2 : i # j => vs2[i].owns \cap vs2[j].owns = {}
  <2> SUFFICES ASSUME NEW i \in DOMAIN vs, NEW j \in DOMAIN vs, i # j, NEW s \in vs2[i].owns, s \in vs2[j].owns PROVE FALSE
    OBVIOUS
  <2>1. CASE i \in I /\ j \in I
    <3>1. PICK n \in eats[i] : s = e[n].st
      BY <1>0, <2>1
    <3>2. PICK m \in eats[j] : s = e[m].st
      BY <1>0, <2>1
    <3> QED BY <2>1, <3>1, <3>2 DEF Apart
  <2>2. CASE i \in I /\ j \notin I
    <3>1. PICK n \in eats[i] : s = e[n].st
      BY <1>0, <2>2
    <3> QED BY <1>0, <2>2, <3>1 DEF Owned
  <2>3. CASE i \notin I /\ j \in I
    <3>1. PICK n \in eats[j] : s = e[n].st
      BY <1>0, <2>3
    <3> QED BY <1>0, <2>3, <3>1 DEF Owned
  <2>4. CASE i \notin I /\ j \notin I
    BY <1>0, <2>4 DEF Owned
  <2> QED BY <2>1, <2>2, <2>3, <2>4
<1> QED BY <1>1, <1>2, <1>3, <1>4 DEF Owned

-----------------------------------------------------------------------------
(* The terms, one by one.                                                    *)

\* a name is bound, to a storage that is nothing's, with the rest of the heap as it was
BindsTo(n, v, w, e, h) ==
  /\ bound[n] = Nothing /\ bound' = [bound EXCEPT ![n] = v] /\ e = [places EXCEPT ![n] = w]
  /\ h[Outer] = heap[Outer] /\ \A m \in Places(bound) : h[places[m].st] = heap[places[m].st]
  /\ v.kind \in {"lin", "car"} => w.st \notin gone /\ \A i \in DOMAIN held : w.st \notin held[i].owns
LEMMA BoundCovers ==
  ASSUME EscapeInv, AliveInv, CoverInv, taken, phase = "body", NEW n \in Locals, NEW v \in Bindings,
         NEW w, NEW e, NEW h, BindsTo(n, v, w, e, h)
  PROVE  /\ InScope(bound') = InScope(bound) \cup {n} /\ bound'[n] = v /\ e[n] = w
         /\ CarriedOver(bound, places, bound', e, Locals)
         /\ \A m \in InScope(bound) : NameCovered(m, bound', e, h)
         /\ OuterCovered(bound', h) /\ Disposed(bound', moved, e, gone) /\ Owned(bound', moved, held, e, gone)
         /\ \A i \in DOMAIN slots : SlotCovered(slots[i], held[i], bound', e)
<1>1. /\ SlotsCovered(slots, bound, held, places) /\ NamesCovered(bound, places, heap) /\ OuterCovered(bound, heap)
      /\ Disposed(bound, moved, places, gone) /\ Owned(bound, moved, held, places, gone)
      /\ bound \in Scopes /\ DOMAIN places = Locals
  BY CoverFacts
<1>0. /\ bound[n] = Nothing /\ h[Outer] = heap[Outer] /\ \A m \in Places(bound) : h[places[m].st] = heap[places[m].st]
      /\ v.kind \in {"lin", "car"} => w.st \notin gone /\ \A i \in DOMAIN held : w.st \notin held[i].owns
  BY DEF BindsTo
<1>2. v # Nothing /\ SlotsOK(bound, slots) /\ ScopeOK(bound)
  BY CapturesAssumption DEF AliveInv
<1>3. /\ bound'[n] = v /\ \A m \in Locals : m # n => bound'[m] = bound[m]
      /\ e[n] = w /\ \A m \in Locals : m # n => e[m] = places[m]
  BY <1>1 DEF Scopes, BindsTo
<1>4. InScope(bound') = InScope(bound) \cup {n} /\ n \notin InScope(bound) /\ InScope(bound) \subseteq Locals
  BY <1>0, <1>2, <1>3 DEF InScope
<1>5. \A m \in InScope(bound) : bound'[m] = bound[m] /\ e[m] = places[m]
  BY <1>3, <1>4
<1>6. /\ \A m \in InScope(bound) : MemberNames(bound[m].surviving) \subseteq InScope(bound)
      /\ \A i \in DOMAIN slots : MemberNames(slots[i].surviving) \subseteq InScope(bound)
  BY <1>2 DEF ScopeOK, SlotsOK, SlotOK, MembersOK
<1>7. CarriedOver(bound, places, bound', e, Locals)
  BY <1>4, <1>5, <1>6 DEF CarriedOver, IsGiven
<1>8. \A m \in InScope(bound) : NameCovered(m, bound', e, h)
  <2> SUFFICES ASSUME NEW m \in InScope(bound) PROVE NameCovered(m, bound', e, h)
    OBVIOUS
  <2>1. NameCovered(m, bound, places, heap) /\ m \in InScope(bound) \cap Locals
    BY <1>1, <1>4 DEF NamesCovered
  <2>2. bound[m].kind \in {"lin", "car"} => h[places[m].st] = heap[places[m].st]
    BY <1>0 DEF Places
  <2> QED BY <1>7, <2>1, <2>2, NameOver
<1>9. OuterCovered(bound', h)
  <2>1. OuterCovered(bound, h)
    BY <1>0, <1>1 DEF OuterCovered
  <2> QED BY <1>7, <2>1, OuterOver
<1>10. \A m \in Places(bound') : (m \in Places(bound) /\ e[m] = places[m]) \/ (m = n /\ v.kind \in {"lin", "car"} /\ e[m] = w)
  BY <1>3, <1>4, <1>5 DEF Places
<1>11. Disposed(bound', moved, e, gone) /\ Owned(bound', moved, held, e, gone)
  BY <1>0, <1>1, <1>10 DEF Disposed, Owned
<1>12. \A i \in DOMAIN slots : SlotCovered(slots[i], held[i], bound', e)
  <2> SUFFICES ASSUME NEW i \in DOMAIN slots PROVE SlotCovered(slots[i], held[i], bound', e)
    OBVIOUS
  <2>1. SlotCovered(slots[i], held[i], bound, places) /\ MemberNames(slots[i].surviving) \subseteq Locals \cap InScope(bound)
    BY <1>1, <1>4, <1>6 DEF SlotsCovered
  <2> QED BY <1>7, <2>1, SlotOver
<1> QED BY <1>3, <1>4, <1>7, <1>8, <1>9, <1>11, <1>12

LEMMA FreshIs ==
  ASSUME EscapeInv, FreeStorages # {}
  PROVE  LET st == Min(FreeStorages) IN
         /\ st \in Ids /\ heap[st] = NoClosure /\ st \notin gone /\ \A i \in DOMAIN held : st \notin held[i].owns
         /\ \A n \in Locals : places[n] # Nothing => places[n].st # st
<1> DEFINE st == Min(FreeStorages)
           all == {held[i] : i \in DOMAIN held} \cup {places[n].clo : n \in {m \in Locals : places[m] # Nothing}}
                    \cup {heap[s] : s \in DOMAIN heap}
           U == UNION {{p.st : p \in c.pts} \cup c.owns : c \in all}
<1>1. /\ st \in Ids /\ heap[st] = NoClosure /\ st \notin gone /\ st \notin PointedTo(held, places, heap)
      /\ \A n \in Locals : places[n] # Nothing => places[n].st # st
  BY FreshStorage
<1> HIDE DEF st
<1>2. U \subseteq PointedTo(held, places, heap)
  BY DEF PointedTo
<1>3. \A c \in all : c.owns \subseteq U
  <2> HIDE DEF all
  <2> QED OBVIOUS
<1>4. \A i \in DOMAIN held : held[i] \in all
  OBVIOUS
<1> HIDE DEF U, all
<1> QED BY <1>1, <1>2, <1>3, <1>4 DEF st

LEMMA MakeCovers ==
  ASSUME EscapeInv, AliveInv, CoverInv, EscapeInv', phase = "body", NEW n \in Locals, NEW kind \in {"lin", "car"}, Make(n, kind)
  PROVE  CoverInv'
<1> DEFINE st == Min(FreeStorages)
           v == Binding(kind, kind, FALSE, Nothing, NoSet)
           w == Bare(st)
           e == [places EXCEPT ![n] = w]
<1>1. /\ bound[n] = Nothing /\ (taken => FreeStorages # {}) /\ bound' = [bound EXCEPT ![n] = v]
      /\ Execute(held, e, heap, {}) /\ slots' = slots /\ moved' = moved /\ branch' = branch /\ phase' = phase
  BY DEF Make, IsFresh, AsAlive, Unchanged
<1>2. v \in Bindings /\ v.kind = kind
  BY LevelsOK, NoSetIs DEF Binding, Bindings
<1>3. w.st = st
  BY DEF Bare
<1> HIDE DEF v, w
<1>4. ASSUME taken PROVE Covering(slots', bound', moved', held, e, heap, gone \cup {})
  <2>1. heap[st] = NoClosure /\ st \notin gone /\ \A i \in DOMAIN held : st \notin held[i].owns
    BY <1>1, <1>4, FreshIs
  <2> HIDE DEF st
  <2>2. v.kind \in {"lin", "car"} => w.st \notin gone /\ \A i \in DOMAIN held : w.st \notin held[i].owns
    BY <1>3, <2>1
  <2>3. BindsTo(n, v, w, e, heap)
    BY <1>1, <2>2 DEF BindsTo
  <2> HIDE DEF e
  <2>4. /\ InScope(bound') = InScope(bound) \cup {n} /\ bound'[n] = v /\ e[n] = w
        /\ \A m \in InScope(bound) : NameCovered(m, bound', e, heap)
        /\ OuterCovered(bound', heap) /\ Disposed(bound', moved, e, gone) /\ Owned(bound', moved, held, e, gone)
        /\ \A i \in DOMAIN slots : SlotCovered(slots[i], held[i], bound', e)
    BY <1>2, <1>4, <2>3, BoundCovers
  <2>5. NameCovered(n, bound', e, heap)
    BY <1>2, <1>3, <2>1, <2>4 DEF NameCovered, Covered, NoClosure
  <2>6. SlotsCovered(slots', bound', held, e) /\ NamesCovered(bound', e, heap)
    BY <1>1, <2>4, <2>5 DEF SlotsCovered, NamesCovered
  <2>7. gone \cup {} = gone
    OBVIOUS
  <2> QED BY <1>1, <2>4, <2>6, <2>7 DEF Covering
<1> HIDE DEF e
<1> QED BY <1>1, <1>4, TermCovers

LEMMA BorrowCovers ==
  ASSUME EscapeInv, AliveInv, CoverInv, EscapeInv', phase = "body", NEW n \in Locals, NEW r \in Locals, NEW mutable \in BOOLEAN,
         Borrow(n, r, mutable)
  PROVE  CoverInv'
<1> DEFINE v == Binding("ref", bound[n].kind, mutable, n, NoSet)
           w == Bare(places[n].st)
           e == [places EXCEPT ![r] = w]
<1>1. /\ bound[n].kind \in {"lin", "car"} /\ bound[r] = Nothing /\ bound' = [bound EXCEPT ![r] = v]
      /\ Execute(held, e, heap, {}) /\ slots' = slots /\ moved' = moved /\ branch' = branch /\ phase' = phase
  BY DEF Borrow, IsFresh, Unchanged
<1>2. v \in Bindings /\ v.kind = "ref"
  BY <1>1, LevelsOK, NoSetIs DEF Binding, Bindings
<1> HIDE DEF v, w
<1>3. ASSUME taken PROVE Covering(slots', bound', moved', held, e, heap, gone \cup {})
  <2>1. BindsTo(r, v, w, e, heap)
    BY <1>1, <1>2 DEF BindsTo
  <2> HIDE DEF e
  <2>2. /\ InScope(bound') = InScope(bound) \cup {r} /\ bound'[r] = v /\ e[r] = w
        /\ \A m \in InScope(bound) : NameCovered(m, bound', e, heap)
        /\ OuterCovered(bound', heap) /\ Disposed(bound', moved, e, gone) /\ Owned(bound', moved, held, e, gone)
        /\ \A i \in DOMAIN slots : SlotCovered(slots[i], held[i], bound', e)
    BY <1>2, <1>3, <2>1, BoundCovers
  <2>3. NameCovered(r, bound', e, heap)
    BY <1>2, <2>2 DEF NameCovered
  <2>4. SlotsCovered(slots', bound', held, e) /\ NamesCovered(bound', e, heap)
    BY <1>1, <2>2, <2>3 DEF SlotsCovered, NamesCovered
  <2>5. gone \cup {} = gone
    OBVIOUS
  <2> QED BY <1>1, <2>2, <2>4, <2>5 DEF Covering
<1> HIDE DEF e
<1> QED BY <1>1, <1>3, TermCovers

LEMMA DropLocalCovers ==
  ASSUME EscapeInv, AliveInv, CoverInv, EscapeInv', phase = "body", NEW n \in Locals, DropLocal(n)
  PROVE  CoverInv'
<1>1. /\ n \in Places(bound) /\ n \notin moved /\ moved' = moved \cup {n} /\ Execute(held, places, heap, {places[n].st})
      /\ slots' = slots /\ bound' = bound /\ branch' = branch /\ phase' = phase
  BY DEF DropLocal, LiveNames, Scoped, Places, InScope
<1>2. ASSUME taken PROVE Covering(slots', bound', moved', held, places, heap, gone \cup {places[n].st})
  <2>1. /\ SlotsCovered(slots, bound, held, places) /\ NamesCovered(bound, places, heap) /\ OuterCovered(bound, heap)
        /\ Disposed(bound, moved, places, gone) /\ Owned(bound, moved, held, places, gone) /\ Apart(bound, places)
    BY <1>1, <1>2, CoverFacts
  <2>2. Disposed(bound, moved', places, gone \cup {places[n].st})
    BY <1>1, <2>1 DEF Disposed, Apart
  <2>3. Owned(bound, moved', held, places, gone \cup {places[n].st})
    BY <1>1, <2>1 DEF Owned
  <2> QED BY <1>1, <2>1, <2>2, <2>3 DEF Covering
<1> QED BY <1>1, <1>2, TermCovers

LEMMA CoveringPushed ==
  ASSUME NEW sl \in Seq(SlotKinds), NEW b, NEW mv, NEW vs \in Seq(ClosureValues), NEW e, NEW h, NEW g, Len(vs) = Len(sl),
         Covering(sl, b, mv, vs, e, h, g), NEW x \in SlotKinds, NEW c \in ClosureValues, SlotCovered(x, c, b, e), c.owns = {}
  PROVE  Covering(Append(sl, x), b, mv, Append(vs, c), e, h, g)
<1> DEFINE sl2 == Append(sl, x)
           vs2 == Append(vs, c)
<1>1. DOMAIN vs = DOMAIN sl
  OBVIOUS
<1>2. /\ DOMAIN sl2 = DOMAIN sl \cup {Len(sl) + 1} /\ Len(sl) + 1 \notin DOMAIN sl
      /\ (\A i \in DOMAIN sl : sl2[i] = sl[i]) /\ sl2[Len(sl) + 1] = x
  BY PushedIs
<1>3. /\ DOMAIN vs2 = DOMAIN vs \cup {Len(sl) + 1} /\ (\A i \in DOMAIN vs : vs2[i] = vs[i]) /\ vs2[Len(sl) + 1] = c
  BY PushedIs
<1> HIDE DEF sl2, vs2
<1>4. SlotsCovered(sl2, b, vs2, e)
  BY <1>1, <1>2, <1>3 DEF Covering, SlotsCovered
<1>5. Owned(b, mv, vs2, e, g)
  <2>1. \A i \in DOMAIN vs2 : (i \in DOMAIN vs /\ vs2[i] = vs[i]) \/ vs2[i].owns = {}
    BY <1>3
  <2> QED BY <2>1 DEF Covering, Owned
<1>6. Covering(sl2, b, mv, vs2, e, h, g)
  BY <1>4, <1>5 DEF Covering
<1> QED BY <1>6 DEF sl2, vs2

\* what the closure that is popped owns may be disposed of
LEMMA CoveringPopped ==
  ASSUME NEW sl \in Seq(SlotKinds), NEW b, NEW mv, NEW vs \in Seq(ClosureValues), NEW e, NEW h, NEW g, Len(vs) = Len(sl),
         Covering(sl, b, mv, vs, e, h, g), sl # <<>>, NEW d \in SUBSET vs[Len(vs)].owns
  PROVE  Covering(Popped(sl), b, mv, Popped(vs), e, h, g \cup d)
<1> DEFINE sl2 == Popped(sl)
           vs2 == Popped(vs)
<1>1. DOMAIN vs = DOMAIN sl /\ vs # <<>>
  BY EmptySeq
<1>2. /\ DOMAIN sl2 = DOMAIN sl \ {Len(sl)} /\ Len(sl) \in DOMAIN sl /\ (\A i \in DOMAIN sl2 : sl2[i] = sl[i])
  BY PoppedIs
<1>3. /\ DOMAIN vs2 = DOMAIN vs \ {Len(vs)} /\ Len(vs) \in DOMAIN vs /\ (\A i \in DOMAIN vs2 : vs2[i] = vs[i])
  BY <1>1, PoppedIs
<1> HIDE DEF sl2, vs2
<1>4. SlotsCovered(sl2, b, vs2, e)
  BY <1>1, <1>2, <1>3 DEF Covering, SlotsCovered
<1>5. \A i \in DOMAIN vs2 : i \in DOMAIN vs /\ i # Len(vs) /\ vs2[i] = vs[i]
  BY <1>3
<1>6. Owned(b, mv, vs2, e, g \cup d) /\ Disposed(b, mv, e, g \cup d)
  <2>1. Owned(b, mv, vs, e, g) /\ Disposed(b, mv, e, g)
    BY DEF Covering
  <2>2. \A n \in Places(b) : e[n].st \in d => n \in mv
    BY <1>3, <2>1 DEF Owned
  <2>3. \A i \in DOMAIN vs2 : vs2[i].owns \cap d = {}
    BY <1>3, <1>5, <2>1 DEF Owned
  <2> QED BY <1>5, <2>1, <2>2, <2>3 DEF Owned, Disposed
<1>7. Covering(sl2, b, mv, vs2, e, h, g \cup d)
  BY <1>4, <1>6 DEF Covering
<1> QED BY <1>7 DEF sl2, vs2

LEMMA PushCovers ==
  ASSUME EscapeInv, CoverInv, EscapeInv', phase = "body", NEW x \in SlotKinds, NEW c, slots' = Append(slots, x),
         Execute(Append(held, c), places, heap, {}),
         taken => c \in ClosureValues /\ c.owns = {} /\ SlotCovered(x, c, bound, places),
         bound' = bound, moved' = moved, branch' = branch, phase' = phase
  PROVE  CoverInv'
<1>1. ASSUME taken PROVE Covering(slots', bound', moved', Append(held, c), places, heap, gone \cup {})
  <2>1. /\ Covering(slots, bound, moved, held, places, heap, gone)
        /\ slots \in Seq(SlotKinds) /\ held \in Seq(ClosureValues) /\ Len(held) = Len(slots)
    BY <1>1, CoverFacts DEF Covering
  <2>2. Covering(Append(slots, x), bound, moved, Append(held, c), places, heap, gone)
    BY <1>1, <2>1, CoveringPushed
  <2>3. gone \cup {} = gone
    OBVIOUS
  <2> QED BY <2>2, <2>3
<1> QED BY <1>1, TermCovers

LEMMA PushLiteralCovers ==
  ASSUME EscapeInv, CoverInv, EscapeInv', phase = "body", NEW l \in Literals, PushLiteral(l)
  PROVE  CoverInv'
<1>1. /\ slots' = Append(slots, Lit(l)) /\ Execute(Append(held, NoClosure), places, heap, {})
      /\ bound' = bound /\ moved' = moved /\ branch' = branch /\ phase' = phase
  BY DEF PushLiteral, AsAlive, Unchanged
<1>2. Lit(l) \in SlotKinds /\ Lit(l).kind = "lit"
  BY CapturesAssumption, NoSetIs, LevelsOK DEF Lit, SlotKinds
<1>3. NoClosure \in ClosureValues /\ NoClosure.owns = {}
  BY NoSetIs DEF NoClosure
<1>4. SlotCovered(Lit(l), NoClosure, bound, places)
  BY <1>2, <1>3 DEF SlotCovered
<1> QED BY <1>1, <1>2, <1>3, <1>4, PushCovers

LEMMA PushLocalCovers ==
  ASSUME EscapeInv, CoverInv, EscapeInv', phase = "body", NEW n \in Locals, PushLocal(n)
  PROVE  CoverInv'
<1> DEFINE from == IF bound[n].kind = "car" THEN {n} ELSE {}
           x == Slot(bound[n].kind, bound[n].surviving, from)
           c == IF bound[n].kind = "car" THEN heap[places[n].st] ELSE places[n].clo
<1>1. /\ n \in InScope(bound) /\ bound[n].kind \in {"car", "fn"}
      /\ slots' = Append(slots, x) /\ Execute(Append(held, c), places, heap, {})
      /\ bound' = bound /\ moved' = moved /\ branch' = branch /\ phase' = phase
  BY DEF PushLocal, Unchanged, LiveNames, Scoped, InScope
<1>2. x \in SlotKinds /\ x.surviving = bound[n].surviving /\ x.kind = bound[n].kind
  <2>1. from \in SUBSET Locals /\ bound[n].surviving \in SurvivingSets
    BY <1>1, LevelsOK DEF Bindings
  <2> HIDE DEF from
  <2> QED BY <1>1, <2>1, SlotIs
<1>3. ASSUME taken PROVE c \in ClosureValues /\ c.owns = {} /\ SlotCovered(x, c, bound, places)
  <2>1. /\ NamesCovered(bound, places, heap) /\ NamesFit(bound, places, heap)
        /\ heap \in [Ids \cup {Outer} -> ClosureValues] /\ places \in [Locals -> PlaceValues \cup {Nothing}]
    BY <1>3, CoverFacts
  <2>2. places[n] \in PlaceValues
    BY <1>1, <2>1 DEF NamesFit, InScope
  <2>3. c \in ClosureValues
    BY <2>1, <2>2 DEF PlaceValues
  <2>4. Covered(c, MemberNames(bound[n].surviving), bound, places) /\ c.owns = {}
    BY <1>1, <2>1 DEF NamesCovered, NameCovered
  <2> HIDE DEF x, c
  <2> QED BY <1>1, <1>2, <2>3, <2>4 DEF SlotCovered
<1> HIDE DEF x, c
<1> QED BY <1>1, <1>2, <1>3, PushCovers

LEMMA FetchCovers ==
  ASSUME EscapeInv, CoverInv, EscapeInv', phase = "body", NEW r \in Locals, Fetch(r)
  PROVE  CoverInv'
<1> DEFINE x == Slot("fn", RootSet(r), {})
           c == heap[places[r].st]
<1>1. /\ r \in InScope(bound) /\ bound[r].kind = "ref" /\ bound[r].of = "car"
      /\ slots' = Append(slots, x) /\ Execute(Append(held, c), places, heap, {})
      /\ bound' = bound /\ moved' = moved /\ branch' = branch /\ phase' = phase
  BY DEF Fetch, AsAlive, Unchanged, LiveNames, Scoped, InScope
<1>2. RootsOK(bound) /\ Nothing \notin Locals
  BY LevelsOK, CapturesAssumption
<1>3. CASE bound[r].root = Nothing
  <2>1. RootSet(r) = NoSet
    BY <1>2, <1>3 DEF RootSet, InFrame, Scoped
  <2>2. x \in SlotKinds /\ x.kind = "fn"
    BY <2>1, NoSetIs, SlotIs
  <2>3. ASSUME taken PROVE c \in ClosureValues /\ c.owns = {} /\ SlotCovered(x, c, bound, places)
    <3>1. NamesFit(bound, places, heap) /\ OuterCovered(bound, heap) /\ heap \in [Ids \cup {Outer} -> ClosureValues]
      BY <2>3, CoverFacts
    <3>2. c = heap[Outer]
      BY <3>1, <1>1, <1>3 DEF NamesFit
    <3>3. c \in ClosureValues /\ c.owns = {} /\ \A p \in c.pts : OfCaller(p, bound)
      BY <3>1, <3>2 DEF OuterCovered
    <3> HIDE DEF x, c
    <3> QED BY <2>2, <3>3 DEF SlotCovered, Covered
  <2> HIDE DEF x, c
  <2> QED BY <1>1, <2>2, <2>3, PushCovers
<1>4. CASE bound[r].root # Nothing
  <2>1. /\ bound[r].root \in InScope(bound) /\ bound[bound[r].root].kind = "car"
    BY <1>1, <1>2, <1>4 DEF RootsOK, Places
  <2>2. RootSet(r) = bound[bound[r].root].surviving /\ RootSet(r) \in SurvivingSets
    BY <2>1, LevelsOK DEF RootSet, InFrame, Bindings, Scoped, InScope
  <2>3. x \in SlotKinds /\ x.kind = "fn" /\ x.surviving = bound[bound[r].root].surviving
    BY <2>2, SlotIs
  <2>4. ASSUME taken PROVE c \in ClosureValues /\ c.owns = {} /\ SlotCovered(x, c, bound, places)
    <3>1. NamesFit(bound, places, heap) /\ NamesCovered(bound, places, heap) /\ heap \in [Ids \cup {Outer} -> ClosureValues]
      BY <2>4, CoverFacts
    <3>2. places[r].st = places[bound[r].root].st /\ places[r].st \in Ids
      BY <3>1, <2>1, <1>1, <1>4 DEF NamesFit
    <3>3. Covered(c, MemberNames(bound[bound[r].root].surviving), bound, places) /\ c.owns = {} /\ c \in ClosureValues
      BY <3>1, <3>2, <2>1 DEF NamesCovered, NameCovered
    <3> HIDE DEF x, c
    <3> QED BY <2>3, <3>3 DEF SlotCovered
  <2> HIDE DEF x, c
  <2> QED BY <1>1, <2>3, <2>4, PushCovers
<1> QED BY <1>3, <1>4

LEMMA CallCovers ==
  ASSUME EscapeInv, CoverInv, EscapeInv', phase = "body", Call
  PROVE  CoverInv'
<1>1. /\ slots # <<>> /\ slots' = Popped(slots) /\ Execute(Popped(held), places, heap, TopHeld.owns)
      /\ bound' = bound /\ moved' = moved /\ branch' = branch /\ phase' = phase
  BY DEF Call, AsAlive, Unchanged
<1>2. ASSUME taken PROVE Covering(slots', bound', moved', Popped(held), places, heap, gone \cup TopHeld.owns)
  <2>1. /\ Covering(slots, bound, moved, held, places, heap, gone)
        /\ slots \in Seq(SlotKinds) /\ held \in Seq(ClosureValues) /\ Len(held) = Len(slots)
    BY <1>2, CoverFacts DEF Covering
  <2>2. TopHeld.owns \in SUBSET held[Len(held)].owns
    BY DEF TopHeld
  <2>3. Covering(Popped(slots), bound, moved, Popped(held), places, heap, gone \cup TopHeld.owns)
    BY <1>1, <2>1, <2>2, CoveringPopped
  <2> QED BY <1>1, <2>3
<1> QED BY <1>1, <1>2, TermCovers

LEMMA BindTopCovers ==
  ASSUME EscapeInv, AliveInv, CoverInv, EscapeInv', phase = "body", NEW n \in Locals, BindTop(n)
  PROVE  CoverInv'
<1> DEFINE fn == TopSlot.kind = "fn"
           st == IF fn THEN Outer ELSE Min(FreeStorages)
           v == Binding(TopSlot.kind, TopSlot.kind, FALSE, Nothing, TopSlot.surviving)
           w == IF fn THEN [st |-> Outer, clo |-> TopHeld] ELSE Bare(st)
           e == [places EXCEPT ![n] = w]
           h == IF fn THEN heap ELSE [heap EXCEPT ![st] = TopHeld]
<1>1. /\ slots # <<>> /\ TopSlot.kind \in {"car", "fn"} /\ bound[n] = Nothing /\ (taken => FreeStorages # {})
      /\ slots' = Popped(slots) /\ bound' = [bound EXCEPT ![n] = v] /\ Execute(Popped(held), e, h, {})
      /\ moved' = moved /\ branch' = branch /\ phase' = phase
  BY DEF BindTop, IsFresh, AsAlive, Unchanged
<1>2. v \in Bindings /\ v.kind = TopSlot.kind /\ v.surviving = TopSlot.surviving
  <2>1. TopSlot \in SlotKinds
    BY <1>1, TopFits
  <2> QED BY <1>1, <2>1, LevelsOK DEF Binding, Bindings, SlotKinds
<1> HIDE DEF v
<1>3. ASSUME taken PROVE Covering(slots', bound', moved', Popped(held), e, h, gone \cup {})
  <2>1. /\ Covering(slots, bound, moved, held, places, heap, gone) /\ SlotsCovered(slots, bound, held, places)
        /\ slots \in Seq(SlotKinds) /\ held \in Seq(ClosureValues) /\ Len(held) = Len(slots)
        /\ heap \in [Ids \cup {Outer} -> ClosureValues]
        /\ \A m \in Places(bound) : m \in InScope(bound) /\ places[m] # Nothing /\ places[m].st \in Ids
    BY <1>3, CoverFacts DEF Covering
  <2>2. ~fn => /\ st \in Ids /\ st \notin gone /\ \A i \in DOMAIN held : st \notin held[i].owns
               /\ \A m \in Locals : places[m] # Nothing => places[m].st # st
    BY <1>1, <1>3, FreshIs
  <2>3. w.st = st /\ (fn => w.clo = TopHeld) /\ Outer \notin Ids
    BY CapturesAssumption DEF Bare, Outer, Ids
  <2>4. /\ (~fn => h[st] = TopHeld) /\ \A s \in Ids \cup {Outer} : fn \/ s # st => h[s] = heap[s]
    BY <2>1, <2>2
  <2>5. h[Outer] = heap[Outer] /\ \A m \in Places(bound) : h[places[m].st] = heap[places[m].st]
    BY <2>1, <2>2, <2>3, <2>4 DEF InScope
  <2>6. v.kind \in {"lin", "car"} => w.st \notin gone /\ \A i \in DOMAIN held : w.st \notin held[i].owns
    BY <1>1, <1>2, <2>2, <2>3
  <2> HIDE DEF w, h, st
  <2>7. BindsTo(n, v, w, e, h)
    BY <1>1, <2>5, <2>6 DEF BindsTo
  <2> HIDE DEF e
  <2>8. /\ InScope(bound') = InScope(bound) \cup {n} /\ bound'[n] = v /\ e[n] = w
        /\ \A m \in InScope(bound) : NameCovered(m, bound', e, h)
        /\ OuterCovered(bound', h) /\ Disposed(bound', moved, e, gone) /\ Owned(bound', moved, held, e, gone)
        /\ \A i \in DOMAIN slots : SlotCovered(slots[i], held[i], bound', e)
    BY <1>2, <1>3, <2>7, BoundCovers
  <2>9. SlotCovered(TopSlot, TopHeld, bound', e)
    BY <1>1, <2>1, <2>8, TopFits DEF TopSlot, TopHeld
  <2>10. NameCovered(n, bound', e, h)
    <3>1. Covered(TopHeld, MemberNames(TopSlot.surviving), bound', e) /\ TopHeld.owns = {}
      BY <1>1, <2>9 DEF SlotCovered
    <3>2. fn => e[n].clo = TopHeld
      BY <2>3, <2>8
    <3>3. ~fn => h[e[n].st] = TopHeld
      BY <2>3, <2>4, <2>8
    <3> QED BY <1>1, <1>2, <2>8, <3>1, <3>2, <3>3 DEF NameCovered
  <2>11. NamesCovered(bound', e, h) /\ SlotsCovered(slots, bound', held, e)
    BY <2>8, <2>10 DEF NamesCovered, SlotsCovered
  <2>12. Covering(slots, bound', moved, held, e, h, gone)
    BY <2>8, <2>11 DEF Covering
  <2>13. Covering(Popped(slots), bound', moved, Popped(held), e, h, gone \cup {})
    BY <1>1, <2>1, <2>12, CoveringPopped
  <2> QED BY <1>1, <2>13
<1> HIDE DEF e, h
<1> QED BY <1>1, <1>3, TermCovers

LEMMA PassOnCovers ==
  ASSUME EscapeInv, CoverInv, EscapeInv', phase = "body", NEW to \in {"fn", "own", "car"}, PassOn(to),
         ~Has("readThenConsumed"), ~Has("fetchedLate")
  PROVE  CoverInv'
<1> DEFINE literal == TopSlot.kind = "lit"
           owning == to = "own"
           l == TopSlot.lit
           n == Len(slots)
           set == IF literal THEN Surviving(l, owning) ELSE CarriedSet(TopSlot)
           x == Slot(to, set, {})
           vs == IF taken /\ literal THEN [held EXCEPT ![n] = Closure(l, owning)] ELSE held
<1>1. /\ slots # <<>> /\ Becomes(TopSlot.kind, to) /\ (literal => Materializes(l, FALSE, owning))
      /\ slots' = [slots EXCEPT ![n] = x]
      /\ moved' = IF literal THEN moved \cup l.eats ELSE moved
      /\ Execute(vs, places, heap, {})
      /\ bound' = bound /\ branch' = branch /\ phase' = phase
  BY DEF PassOn
<1>2. /\ WalkTypesOK /\ slots \in Seq(SlotKinds) /\ n \in DOMAIN slots
      /\ TopSlot \in SlotKinds /\ l \in LiteralBodies /\ TopSlot.surviving \in SurvivingSets /\ owning \in BOOLEAN
  BY <1>1, TopFits DEF SlotKinds, EscapeInv, CapturesTypeOK, WalkTypesOK
<1>3. set \in SurvivingSets
  BY <1>2, SurvivingTyped DEF CarriedSet
<1>4. x \in SlotKinds /\ x.kind = to /\ x.surviving = set
  <2> HIDE DEF set
  <2> QED BY <1>3, SlotIs
<1> HIDE DEF x
<1>5. DOMAIN slots' = DOMAIN slots /\ slots'[n] = x /\ \A i \in DOMAIN slots : i # n => slots'[i] = slots[i]
  <2> HIDE DEF n
  <2> QED BY <1>1, <1>2, <1>4, ReplacedIs
<1>6. ASSUME taken PROVE Covering(slots', bound', moved', vs, places, heap, gone \cup {})
  <2>1. /\ SlotsCovered(slots, bound, held, places) /\ NamesCovered(bound, places, heap) /\ OuterCovered(bound, heap)
        /\ Disposed(bound, moved, places, gone) /\ Owned(bound, moved, held, places, gone)
        /\ NamesFit(bound, places, heap) /\ Apart(bound, places) /\ RootsOK(bound)
        /\ held \in Seq(ClosureValues) /\ Len(held) = Len(slots)
    BY <1>1, <1>6, CoverFacts
  <2>2. DOMAIN held = DOMAIN slots /\ n \in DOMAIN held /\ TopHeld = held[n] /\ TopSlot = slots[n] /\ gone \cup {} = gone
    BY <1>2, <2>1 DEF TopHeld, TopSlot
  <2>3. CASE literal
    <3> DEFINE c == Closure(l, owning)
    <3>1. /\ Covered(c, Through(MemberNames(set), bound), bound, places) /\ (~owning => Covered(c, MemberNames(set), bound, places))
          /\ c.owns = {places[m].st : m \in l.eats} /\ (~owning => c.owns = {})
          /\ l.eats \subseteq Places(bound) /\ l.eats \cap moved = {}
      <4>1. Materializes(l, FALSE, owning) /\ set = Surviving(l, owning)
        BY <1>1, <2>3
      <4> HIDE DEF set, owning, l
      <4> QED BY <1>2, <2>1, <4>1, ClosureCovered
    <3>2. vs = [held EXCEPT ![n] = c]
      BY <1>6, <2>3
    <3> HIDE DEF c, vs, set, l, n
    <3>3. DOMAIN vs = DOMAIN held /\ vs[n] = c /\ \A i \in DOMAIN held : i # n => vs[i] = held[i]
      BY <2>1, <2>2, <3>2
    <3>4. SlotCovered(x, c, bound, places)
      BY <1>4, <3>1 DEF SlotCovered
    <3>5. SlotsCovered(slots', bound, vs, places)
      BY <1>5, <2>1, <2>2, <3>3, <3>4 DEF SlotsCovered
    <3>6. Owned(bound, moved', vs, places, gone) /\ Disposed(bound, moved', places, gone)
      <4> DEFINE I == {n}
                 eats == [i \in {n} |-> l.eats]
      <4>1. moved' = moved \cup l.eats
        BY <1>1, <2>3
      <4>2. eats[n] = l.eats /\ I = {n}
        OBVIOUS
      <4> HIDE DEF I, eats
      <4>3. Takes(bound, moved, held, places, vs, I, eats, moved')
        <5>1. \A i \in DOMAIN held : vs[i].owns = IF i \in I THEN {places[m].st : m \in eats[i]} ELSE held[i].owns
          <6> SUFFICES ASSUME NEW i \in DOMAIN held
                       PROVE  vs[i].owns = IF i \in I THEN {places[m].st : m \in eats[i]} ELSE held[i].owns
            OBVIOUS
          <6>1. CASE i = n
            BY <3>1, <3>3, <4>2, <6>1
          <6>2. CASE i # n
            BY <3>3, <4>2, <6>2
          <6> QED BY <6>1, <6>2
        <5>2. \A i \in I : eats[i] \subseteq Places(bound) /\ eats[i] \cap moved = {} /\ eats[i] \subseteq moved'
          BY <3>1, <4>1, <4>2
        <5>3. \A i, j \in I : i # j => eats[i] \cap eats[j] = {}
          BY <4>2
        <5>4. moved \subseteq moved'
          BY <4>1
        <5> QED BY <3>3, <5>1, <5>2, <5>3, <5>4 DEF Takes
      <4> QED BY <2>1, <4>3, OwnedMore
    <3> QED BY <1>1, <2>1, <2>2, <3>5, <3>6 DEF Covering
  <2>4. CASE ~literal
    <3>1. vs = held /\ moved' = moved /\ set = TopSlot.surviving
      BY <1>1, <2>4 DEF CarriedSet
    <3>2. TopSlot.kind \in {"fn", "car"} /\ to \in {"fn", "car"}
      BY <1>1, <2>4 DEF Becomes
    <3>3. SlotCovered(TopSlot, TopHeld, bound, places)
      BY <2>1, <2>2, <1>2 DEF SlotsCovered
    <3>4. SlotCovered(x, TopHeld, bound, places)
      BY <1>4, <3>1, <3>2, <3>3 DEF SlotCovered
    <3> HIDE DEF vs, set, n
    <3>5. SlotsCovered(slots', bound, vs, places)
      BY <1>5, <2>1, <2>2, <3>1, <3>4 DEF SlotsCovered
    <3> QED BY <1>1, <2>1, <2>2, <3>1, <3>5 DEF Covering
  <2> QED BY <2>3, <2>4
<1> HIDE DEF vs
<1> QED BY <1>1, <1>6, TermCovers

LEMMA StoreCovers ==
  ASSUME EscapeInv, AliveInv, CoverInv, EscapeInv', phase = "body", NEW r \in Locals, Store(r),
         ~Has("readThenConsumed"), ~Has("fetchedLate")
  PROVE  CoverInv'
<1> DEFINE root == bound[r].root
           literal == TopSlot.kind = "lit"
           l == TopSlot.lit
           set == IF literal THEN Surviving(l, FALSE) ELSE TopSlot.surviving
           c == IF literal THEN Closure(l, FALSE) ELSE TopHeld
           h == [heap EXCEPT ![places[r].st] = c]
<1>1. /\ slots # <<>> /\ TopSlot.kind \in {"lit", "fn"} /\ r \in InScope(bound) /\ bound[r].kind = "ref" /\ bound[r].of = "car"
      /\ (literal => Materializes(l, ~InFrame(root), FALSE)) /\ (~InFrame(root) => Escapable(set))
      /\ slots' = Popped(slots) /\ bound' = Stored(root, set) /\ Execute(Popped(held), places, h, {})
      /\ moved' = moved /\ branch' = branch /\ phase' = phase
  BY DEF Store, StoreThrough, Unchanged, LiveNames, Scoped, InScope
<1>2. /\ WalkTypesOK /\ TopSlot \in SlotKinds /\ l \in LiteralBodies /\ TopSlot.surviving \in SurvivingSets
      /\ Len(slots) \in DOMAIN slots /\ TopSlot = slots[Len(slots)] /\ bound \in Scopes /\ Scoped = InScope(bound)
  BY <1>1, TopFits DEF SlotKinds, EscapeInv, CapturesTypeOK, WalkTypesOK, TopSlot, Scoped, InScope
<1>3. set \in SurvivingSets
  BY <1>2, SurvivingTyped
<1>4. RootsOK(bound) /\ Nothing \notin Locals /\ Outer \notin Ids /\ SlotsOK(bound, slots) /\ ScopeOK(bound)
  BY LevelsOK, CapturesAssumption DEF Outer, Ids, AliveInv
<1>5. ASSUME taken PROVE Covering(slots', bound', moved', Popped(held), places, h, gone \cup {})
  <2>1. /\ Covering(slots, bound, moved, held, places, heap, gone)
        /\ SlotsCovered(slots, bound, held, places) /\ NamesCovered(bound, places, heap) /\ OuterCovered(bound, heap)
        /\ NamesFit(bound, places, heap) /\ Apart(bound, places)
        /\ slots \in Seq(SlotKinds) /\ held \in Seq(ClosureValues) /\ Len(held) = Len(slots)
        /\ heap \in [Ids \cup {Outer} -> ClosureValues]
        /\ \A m \in Places(bound) : m \in InScope(bound) /\ places[m] # Nothing /\ places[m].st \in Ids
    BY <1>1, <1>5, CoverFacts DEF Covering
  <2>2. Covered(c, MemberNames(set), bound, places) /\ c.owns = {} /\ (Escapable(set) => Free(c))
    <3>1. CASE literal
      <4> DEFINE escaping == ~InFrame(root)
      <4>1. Materializes(l, escaping, FALSE) /\ set = Surviving(l, FALSE) /\ c = Closure(l, FALSE) /\ FALSE \in BOOLEAN
        BY <1>1, <3>1
      <4> HIDE DEF escaping, l, set, c
      <4>2. Covered(c, MemberNames(set), bound, places) /\ c.owns = {}
        BY <1>2, <1>4, <2>1, <4>1, ClosureCovered
      <4>3. Fits(set, c)
        BY <1>1, <1>2, <1>5, <4>1, LiteralFits
      <4> QED BY <4>2, <4>3 DEF Fits
    <3>2. CASE ~literal
      <4>1. c = TopHeld /\ set = TopSlot.surviving /\ TopSlot.kind = "fn"
        BY <1>1, <3>2
      <4>2. SlotCovered(TopSlot, TopHeld, bound, places)
        BY <1>2, <2>1 DEF SlotsCovered, TopHeld
      <4>3. Fits(TopSlot.surviving, TopHeld)
        BY <1>1, <1>5, <4>1, TopFits
      <4> QED BY <4>1, <4>2, <4>3 DEF SlotCovered, Fits
    <3> QED BY <3>1, <3>2
  <2> HIDE DEF c, set
  <2>3. CASE root = Nothing
    <3>1. bound' = bound /\ Escapable(set)
      BY <1>1, <1>2, <1>4, <2>3 DEF Stored, InFrame, InScope
    <3>2. places[r].st = Outer
      BY <1>1, <2>1, <2>3 DEF NamesFit
    <3>3. h[Outer] = c /\ \A s \in Ids : h[s] = heap[s]
      BY <1>4, <2>1, <3>2
    <3> HIDE DEF h
    <3>4. NamesCovered(bound, places, h)
      <4>1. \A m \in InScope(bound) : bound[m].kind \in {"lin", "car"} => h[places[m].st] = heap[places[m].st]
        BY <2>1, <3>3 DEF Places
      <4> QED BY <2>1, <4>1 DEF NamesCovered, NameCovered
    <3>5. OuterCovered(bound, h)
      BY <2>2, <3>1, <3>3 DEF OuterCovered, Covered, Free
    <3>6. Covering(slots, bound, moved, held, places, h, gone)
      BY <2>1, <3>4, <3>5 DEF Covering
    <3> QED BY <1>1, <2>1, <3>1, <3>6, CoveringPopped
  <2>4. CASE root # Nothing
    <3>1. root \in Places(bound) /\ root \in InScope(bound) /\ bound[root].kind = "car"
      BY <1>1, <1>4, <2>4 DEF RootsOK, Places
    <3>2. bound' = WithSet(bound, root, set)
      BY <1>1, <1>2, <3>1 DEF Stored, InFrame, WithSet
    <3>3. places[r].st = places[root].st /\ places[root].st \in Ids
      BY <1>1, <2>1, <2>4, <3>1 DEF NamesFit
    <3>4. h[places[root].st] = c /\ \A s \in Ids \cup {Outer} : s # places[root].st => h[s] = heap[s]
      BY <2>1, <3>3
    <3> HIDE DEF root, h
    <3>5. /\ InScope(bound') = InScope(bound) /\ Places(bound') = Places(bound)
          /\ \A m \in InScope(bound) : bound'[m].kind = bound[m].kind /\ bound'[m].root = bound[m].root
          /\ \A m \in InScope(bound) : m # root => bound'[m] = bound[m]
          /\ MemberNames(bound'[root].surviving) = MemberNames(bound[root].surviving) \cup MemberNames(set)
      BY <1>2, <1>3, <3>1, <3>2, StoredIs
    <3>6. /\ \A m \in InScope(bound) : MemberNames(bound[m].surviving) \subseteq InScope(bound)
          /\ \A i \in DOMAIN slots : MemberNames(slots[i].surviving) \subseteq InScope(bound)
          /\ InScope(bound) \subseteq Locals
      BY <1>4 DEF ScopeOK, SlotsOK, SlotOK, MembersOK, InScope
    <3>7. CarriedOver(bound, places, bound', places, Locals)
      <4>1. \A m \in InScope(bound) : MemberNames(bound[m].surviving) \subseteq MemberNames(bound'[m].surviving) \cap Locals
        BY <3>5, <3>6
      <4> QED BY <3>5, <4>1 DEF CarriedOver, IsGiven, InScope
    <3>8. SlotsCovered(slots, bound', held, places)
      <4> SUFFICES ASSUME NEW i \in DOMAIN slots PROVE SlotCovered(slots[i], held[i], bound', places)
        BY DEF SlotsCovered
      <4>1. SlotCovered(slots[i], held[i], bound, places) /\ MemberNames(slots[i].surviving) \subseteq Locals \cap InScope(bound)
        BY <2>1, <3>6 DEF SlotsCovered
      <4> QED BY <3>7, <4>1, SlotOver
    <3>9. NamesCovered(bound', places, h)
      <4> SUFFICES ASSUME NEW m \in InScope(bound) PROVE NameCovered(m, bound', places, h)
        BY <3>5 DEF NamesCovered
      <4>1. CASE m = root
        <5>1. Covered(c, MemberNames(bound'[root].surviving), bound', places)
          <6>1. MemberNames(set) \subseteq Locals /\ MemberNames(set) \subseteq MemberNames(bound'[root].surviving)
            BY <1>3, <3>5, NamesTyped
          <6> QED BY <2>2, <3>7, <6>1, CoveredOver
        <5> QED BY <2>2, <3>1, <3>4, <3>5, <4>1, <5>1 DEF NameCovered
      <4>2. CASE m # root
        <5>1. NameCovered(m, bound, places, heap) /\ m \in InScope(bound) \cap Locals
          BY <2>1, <3>6 DEF NamesCovered
        <5>2. bound[m].kind \in {"lin", "car"} => h[places[m].st] = heap[places[m].st]
          BY <2>1, <3>1, <3>4, <4>2 DEF Places, Apart
        <5> QED BY <3>7, <5>1, <5>2, NameOver
      <4> QED BY <4>1, <4>2
    <3>10. OuterCovered(bound', h)
      <4>1. OuterCovered(bound, h)
        BY <1>4, <2>1, <3>3, <3>4 DEF OuterCovered
      <4> QED BY <3>7, <4>1, OuterOver
    <3>11. Covering(slots, bound', moved, held, places, h, gone)
      BY <2>1, <3>5, <3>8, <3>9, <3>10 DEF Covering, Disposed, Owned
    <3> QED BY <1>1, <2>1, <3>11, CoveringPopped
  <2> QED BY <2>3, <2>4
<1> HIDE DEF h
<1> QED BY <1>1, <1>5, TermCovers

\* the more names, the more is covered
LEMMA CoveredMore ==
  ASSUME NEW x, NEW y, x.kind = y.kind, MemberNames(x.surviving) \subseteq MemberNames(y.surviving), NEW v, NEW b, NEW e,
         SlotCovered(x, v, b, e)
  PROVE  SlotCovered(y, v, b, e)
<1> DEFINE p == MemberNames(x.surviving)
           q == MemberNames(y.surviving)
<1>1. p \subseteq q
  OBVIOUS
<1> HIDE DEF p, q
<1>2. Through(p, b) \subseteq Through(q, b)
  BY <1>1 DEF Through
<1>3. /\ x.kind = "own" => Covered(v, Through(p, b), b, e)
      /\ x.kind \in {"fn", "car"} => Covered(v, p, b, e)
      /\ x.kind # "own" => v.owns = {}
      /\ x.kind = "lit" => v = NoClosure
  BY DEF SlotCovered, p
<1>4. x.kind = "own" => Covered(v, Through(q, b), b, e)
  BY <1>2, <1>3 DEF Covered
<1>5. x.kind \in {"fn", "car"} => Covered(v, q, b, e)
  BY <1>1, <1>3 DEF Covered
<1> QED BY <1>3, <1>4, <1>5 DEF SlotCovered, q

\* a slot of the join, when it is no literal made into a value
LEMMA KeptCovers ==
  ASSUME NEW s \in SlotKinds, NEW t \in SlotKinds, s.kind = t.kind, s.kind = "lit" => SameLiteral(s, t), NEW owning \in BOOLEAN,
         NEW v, NEW b, NEW e, SlotCovered(s, v, b, e) \/ SlotCovered(t, v, b, e)
  PROVE  SlotCovered(Merge(s, t, owning), v, b, e)
<1> DEFINE u == Merge(s, t, owning)
           w == UnionSurviving(s.surviving, t.surviving)
           from == s.from \cup t.from
<1>1. CASE s.kind = "lit"
  <2>1. u = s /\ s = t
    BY <1>1 DEF Merge, SameLiteral
  <2> QED BY <2>1
<1>2. CASE s.kind # "lit"
  <2>1. /\ s.surviving \in SurvivingSets /\ t.surviving \in SurvivingSets /\ from \in SUBSET Locals
        /\ s.kind \in {"lit", "fn", "own", "car"}
    BY DEF SlotKinds
  <2>2. w \in SurvivingSets /\ MemberNames(w) = MemberNames(s.surviving) \cup MemberNames(t.surviving)
    BY <2>1, EscapableUnion, NamesUnion
  <2>3. u = Slot(s.kind, w, from)
    BY <1>2 DEF Merge, JoinedSet
  <2> HIDE DEF u, w, from
  <2>4. u.kind = s.kind /\ u.surviving = w
    BY <2>1, <2>2, <2>3, SlotIs
  <2>5. MemberNames(s.surviving) \subseteq MemberNames(u.surviving) /\ MemberNames(t.surviving) \subseteq MemberNames(u.surviving)
    BY <2>2, <2>4
  <2>6. u.kind = t.kind
    BY <2>4
  <2>7. SlotCovered(u, v, b, e)
    BY <2>4, <2>5, <2>6, CoveredMore
  <2> QED BY <2>7 DEF u
<1> QED BY <1>1, <1>2

\* when it is
LEMMA MadeCovers ==
  ASSUME NEW s \in SlotKinds, NEW t \in SlotKinds, s.kind = "lit", ~SameLiteral(s, t), NEW owning \in BOOLEAN,
         NEW l \in {s.lit, t.lit}, NEW v, NEW b, NEW e, Covered(v, Through(MemberNames(Surviving(l, owning)), b), b, e),
         ~owning => Covered(v, MemberNames(Surviving(l, owning)), b, e) /\ v.owns = {}
  PROVE  SlotCovered(Merge(s, t, owning), v, b, e)
<1> DEFINE u == Merge(s, t, owning)
           p == Surviving(s.lit, owning)
           q == Surviving(t.lit, owning)
           w == UnionSurviving(p, q)
           from == s.from \cup t.from
           kind == IF owning THEN "own" ELSE "fn"
           y == Slot(kind, Surviving(l, owning), {})
<1>1. s.lit \in LiteralBodies /\ t.lit \in LiteralBodies /\ from \in SUBSET Locals /\ kind \in {"lit", "fn", "own", "car"}
  BY DEF SlotKinds
<1>2. p \in SurvivingSets /\ q \in SurvivingSets
  BY <1>1, SurvivingTyped
<1>3. w \in SurvivingSets /\ MemberNames(w) = MemberNames(p) \cup MemberNames(q)
  <2> HIDE DEF p, q
  <2> QED BY <1>2, EscapableUnion, NamesUnion
<1>4. u = Slot(kind, w, from)
  BY DEF Merge, JoinedSet
<1>5. Surviving(l, owning) = p \/ Surviving(l, owning) = q
  OBVIOUS
<1>6. (owning => kind = "own") /\ (~owning => kind = "fn")
  OBVIOUS
<1> DEFINE z == Surviving(l, owning)
<1>7. Covered(v, Through(MemberNames(z), b), b, e) /\ (~owning => Covered(v, MemberNames(z), b, e) /\ v.owns = {})
      /\ y = Slot(kind, z, {})
  OBVIOUS
<1>8. z = p \/ z = q
  BY <1>5
<1> HIDE DEF u, w, p, q, from, kind, y, z
<1>9. u.kind = kind /\ u.surviving = w
  BY <1>1, <1>3, <1>4, SlotIs
<1>10. y.kind = kind /\ y.surviving = z
  BY <1>1, <1>2, <1>7, <1>8, SlotIs
<1>11. SlotCovered(y, v, b, e)
  BY <1>6, <1>7, <1>10 DEF SlotCovered
<1>12. MemberNames(y.surviving) \subseteq MemberNames(u.surviving) /\ y.kind = u.kind
  BY <1>3, <1>8, <1>9, <1>10
<1>13. SlotCovered(u, v, b, e)
  BY <1>11, <1>12, CoveredMore
<1> QED BY <1>13 DEF u

\* an arm that is left leaves what is outside it covered
LEMMA OutsideCovers ==
  ASSUME EscapeInv, AliveInv, CoverInv, Nesting = 1, taken, ArmEnds, ~Has("capturedInArm")
  PROVE  Covering(slots, branch[1].scope, moved \ Inner, held, Outside, heap, gone)
<1> DEFINE b == branch[1].scope
           K == InScope(b)
           e == Outside
           mv == moved \ Inner
<1>1. phase = "body" /\ ScopeKept /\ \A n \in K : n \in InScope(bound) /\ bound[n] = b[n]
  BY BranchIs
<1>2. /\ SlotsCovered(slots, bound, held, places) /\ NamesCovered(bound, places, heap) /\ OuterCovered(bound, heap)
      /\ Disposed(bound, moved, places, gone) /\ Owned(bound, moved, held, places, gone)
  BY <1>1, CoverFacts
<1>3. SlotsOK(b, slots) /\ SlotsOK(bound, slots) /\ ScopeOK(b) /\ OneGiven(bound)
  BY ArmAlive DEF AliveInv, BranchAlive, ScopeOK
<1>4. \A n \in K : n \in Locals /\ n \notin Inner /\ e[n] = places[n]
  BY <1>1 DEF Outside, Inner, Scoped, ScopeKept, InScope
<1>5. \A n : IsGiven(bound, n) => n \in K
  BY <1>1, <1>3 DEF OneGiven, IsGiven, ScopeKept, InScope
<1> HIDE DEF b, e, K, mv
<1>6. /\ \A n \in K : MemberNames(b[n].surviving) \subseteq K
      /\ \A i \in DOMAIN slots : MemberNames(slots[i].surviving) \subseteq K \cap InScope(bound)
  BY <1>3 DEF ScopeOK, SlotsOK, SlotOK, MembersOK, K
<1>7. CarriedOver(bound, places, b, e, K)
  <2>1. \A n \in K : n \in InScope(b)
    BY DEF K
  <2> QED BY <1>1, <1>4, <1>5, <1>6, <2>1 DEF CarriedOver
<1>8. SlotsCovered(slots, b, held, e)
  <2> SUFFICES ASSUME NEW i \in DOMAIN slots PROVE SlotCovered(slots[i], held[i], b, e)
    BY DEF SlotsCovered
  <2>1. SlotCovered(slots[i], held[i], bound, places) /\ MemberNames(slots[i].surviving) \subseteq K \cap InScope(bound)
    BY <1>2, <1>6 DEF SlotsCovered
  <2> QED BY <1>7, <2>1, SlotOver
<1>9. NamesCovered(b, e, heap)
  <2> SUFFICES ASSUME NEW n \in K PROVE NameCovered(n, b, e, heap)
    BY DEF NamesCovered, K
  <2>1. NameCovered(n, bound, places, heap) /\ n \in InScope(bound) \cap K
    BY <1>1, <1>2 DEF NamesCovered
  <2> QED BY <1>7, <2>1, NameOver
<1>10. OuterCovered(b, heap)
  BY <1>2, <1>7, OuterOver
<1>11. \A n \in Places(b) : n \in Places(bound) /\ e[n] = places[n] /\ (n \in moved => n \in mv)
  BY <1>1, <1>4 DEF Places, K, mv
<1>12. Disposed(b, mv, e, gone) /\ Owned(b, mv, held, e, gone)
  BY <1>2, <1>11 DEF Disposed, Owned
<1> QED BY <1>8, <1>9, <1>10, <1>12 DEF Covering, b, e, mv

LEMMA OpenBranchCovers ==
  ASSUME EscapeInv, CoverInv, NEW pick \in 1..2, OpenBranch(pick)
  PROVE  CoverInv'
<1> DEFINE f == [entry |-> slots, scope |-> bound, entryMoved |-> moved, entryDone |-> done,
                 arm |-> 1, first |-> <<>>, firstMoved |-> {}, pick |-> pick]
<1>1. /\ phase = "body" /\ Nesting = 0 /\ branch' = <<f>>
      /\ UNCHANGED <<slots, bound, moved, phase, held, places, heap, gone>>
  BY DEF OpenBranch
<1>2. f.entry = slots /\ f.scope = bound /\ f.entryMoved = moved /\ f.arm = 1
  OBVIOUS
<1> HIDE DEF f
<1>3. branch'[1] = f
  BY <1>1
<1>4. SeenSlots' = slots /\ SeenScope' = bound /\ SeenMoved' = moved
  BY <1>1, <1>2, <1>3 DEF SeenSlots, SeenScope, SeenMoved
<1>5. SeenSlots = slots /\ SeenScope = bound /\ SeenMoved = moved
  <2>1. taken
    BY <1>1 DEF EscapeInv, WalkInv
  <2> QED BY <2>1 DEF SeenSlots, SeenScope, SeenMoved
<1>6. Covering(slots, bound, moved, held, places, heap, gone)
  BY <1>1, <1>5 DEF CoverInv
<1> QED BY <1>1, <1>4, <1>6 DEF CoverInv

LEMMA OtherArmCovers ==
  ASSUME EscapeInv, AliveInv, CoverInv, EscapeInv', OtherArm, ~Has("capturedInArm")
  PROVE  CoverInv'
<1> DEFINE f == branch[1]
           mv == moved \ Inner
           g == Second(f, slots, mv)
<1>1. /\ Nesting = 1 /\ ArmEnds /\ f.arm = 1 /\ branch' = <<g>>
      /\ IF taken THEN Settle(held, Outside, heap, {}) ELSE UNCHANGED <<held, places, heap, gone>>
      /\ slots' = f.entry /\ bound' = f.scope /\ moved' = f.entryMoved /\ phase' = phase /\ taken' = (f.pick = 2)
  BY DEF OtherArm, Second
<1>2. f \in BranchesOpen /\ phase = "body" /\ (taken <=> f.arm = f.pick)
  BY <1>1, BranchIs
<1>3. slots \in Seq(SlotKinds) /\ mv \in SUBSET Locals /\ f.pick \in 1..2
  BY <1>2 DEF EscapeInv, CapturesTypeOK, WalkTypesOK, BranchesOpen
<1>4. taken' <=> ~taken
  <2> DEFINE k == f.pick
  <2>1. k \in 1..2 /\ (taken <=> k = 1) /\ (taken' <=> k = 2)
    BY <1>1, <1>2, <1>3
  <2> HIDE DEF k
  <2>2. (k = 1 \/ k = 2) /\ ~(k = 1 /\ k = 2)
    BY <2>1
  <2> QED BY <2>1, <2>2, Zenon
<1>5. Covering(SeenSlots, SeenScope, SeenMoved, held, places, heap, gone)
  BY <1>2 DEF CoverInv
<1>6. SeenMoved = IF taken THEN moved ELSE f.entryMoved
  BY <1>1 DEF SeenMoved
<1>7. SeenSlots = (IF taken THEN slots ELSE f.entry) /\ SeenScope = (IF taken THEN bound ELSE f.scope)
  BY <1>1 DEF SeenSlots, SeenScope
<1>8. taken => Covering(slots, f.scope, mv, held, Outside, heap, gone) /\ \A n \in InScope(f.scope) : Outside[n] # Nothing
  BY <1>1, OutsideCovers, OutsideFits DEF NamesFit
<1> HIDE DEF f, mv
<1>9. g.arm = 2 /\ g.first = slots /\ g.firstMoved = mv /\ g.scope = f.scope
  BY <1>2, <1>3, SecondArm
<1> HIDE DEF g
<1>10. branch'[1] = g
  BY <1>1
<1>11. CASE taken
  <2>1. SeenSlots' = slots /\ SeenScope' = f.scope /\ SeenMoved' = mv
    BY <1>4, <1>9, <1>10, <1>11 DEF SeenSlots, SeenScope, SeenMoved
  <2>2. ExecutionTypesOK' /\ Settle(held, Outside, heap, {}) /\ gone \cup {} = gone
    BY <1>1, <1>11 DEF EscapeInv, CapturesTypeOK
  <2>3. Covering(slots, f.scope, mv, held', places', heap', gone')
    BY <1>8, <1>11, <2>2, CoveringSettled
  <2> QED BY <1>1, <1>2, <2>1, <2>3 DEF CoverInv
<1>12. CASE ~taken
  <2>1. taken'
    BY <1>4, <1>12
  <2>2. SeenSlots' = slots' /\ SeenScope' = bound' /\ SeenMoved' = moved'
    BY <2>1 DEF SeenSlots, SeenScope, SeenMoved
  <2>3. Covering(f.entry, f.scope, f.entryMoved, held, places, heap, gone)
    BY <1>5, <1>6, <1>7, <1>12
  <2>4. UNCHANGED <<held, places, heap, gone>>
    BY <1>1, <1>12
  <2>5. Covering(SeenSlots', SeenScope', SeenMoved', held', places', heap', gone')
    BY <1>1, <2>2, <2>3, <2>4
  <2> QED BY <1>1, <1>2, <2>5 DEF CoverInv
<1> QED BY <1>11, <1>12

LEMMA CloseBranchCovers ==
  ASSUME EscapeInv, AliveInv, CoverInv, EscapeInv', NEW tail \in BOOLEAN, NEW owning \in BOOLEAN, CloseBranch(tail, owning),
         ~Has("capturedInArm"), ~Has("readThenConsumed"), ~Has("fetchedLate")
  PROVE  CoverInv'
<1> DEFINE f == branch[1]
           first == f.first
           made == {i \in DOMAIN slots : slots[i].kind = "lit" /\ ~SameLiteral(first[i], slots[i])}
           literals == {first[i].lit : i \in made} \cup {slots[i].lit : i \in made}
           outcome(i) == IF f.pick = 1 THEN first[i] ELSE slots[i]
           vs == [i \in DOMAIN held |-> IF i \in made THEN Closure(outcome(i).lit, owning) ELSE held[i]]
           e == IF taken THEN Outside ELSE places
           joined == [i \in DOMAIN slots |-> Merge(first[i], slots[i], owning)]
           S == IF taken THEN slots ELSE first
           mv2 == f.firstMoved \cup UNION {l.eats : l \in literals}
<1>1. /\ Nesting = 1 /\ f.arm = 2 /\ Len(first) = Len(slots) /\ ArmEnds /\ f.firstMoved = moved \ Inner
      /\ \A i \in DOMAIN slots : first[i].kind = slots[i].kind
      /\ tail = (made # {}) /\ (tail => bound = f.scope)
      /\ \A i \in made : first[i].lit.eats = slots[i].lit.eats
      /\ \A l \in literals : Materializes(l, TRUE, owning)
      /\ slots' = joined /\ bound' = f.scope /\ moved' = mv2
      /\ phase' = (IF tail THEN "tail" ELSE phase) /\ taken' = TRUE /\ Settle(vs, e, heap, {})
  BY DEF CloseBranch
<1>2. \A i, j \in made : i < j \/ i # j =>
        slots[i].lit.eats \cap (Captured(first[j].lit) \cup Captured(slots[j].lit)) = {}
  BY DEF CloseBranch
<1>3. WalkTypesOK /\ ExecutionTypesOK /\ RootsOK(bound) /\ f \in BranchesOpen /\ ScopeKept /\ phase = "body"
  BY <1>1, BranchIs, LevelsOK DEF EscapeInv, CapturesTypeOK
<1>4. /\ first \in Seq(SlotKinds) /\ slots \in Seq(SlotKinds) /\ DOMAIN first = DOMAIN slots
      /\ \A i \in DOMAIN slots : slots[i] \in SlotKinds /\ first[i] \in SlotKinds
      /\ held \in Seq(ClosureValues) /\ bound \in Scopes /\ f.firstMoved \subseteq Locals /\ f.firstMoved \subseteq moved
      /\ places \in [Locals -> PlaceValues \cup {Nothing}]
  BY <1>1, <1>3 DEF BranchesOpen, WalkTypesOK, ExecutionTypesOK
<1>5. /\ SlotsFit(IF taken THEN slots ELSE first, held)
      /\ NamesFit(IF taken THEN bound ELSE f.scope, places, heap) /\ Apart(IF taken THEN bound ELSE f.scope, places)
      /\ Covering(IF taken THEN slots ELSE first, IF taken THEN bound ELSE f.scope, IF taken THEN moved ELSE f.firstMoved,
                  held, places, heap, gone)
  BY <1>1, <1>3 DEF EscapeInv, FitInv, CoverInv, SeenSlots, SeenScope, SeenMoved, Agrees
<1>6. DOMAIN held = DOMAIN slots
  BY <1>1, <1>4, <1>5 DEF SlotsFit
<1>7. Covering(S, f.scope, f.firstMoved, held, e, heap, gone) /\ NamesFit(f.scope, e, heap) /\ Apart(f.scope, e)
  <2>1. CASE taken
    BY <1>1, <2>1, OutsideCovers, OutsideFits
  <2>2. CASE ~taken
    BY <1>5, <2>2
  <2> QED BY <2>1, <2>2
<1>8. ASSUME made # {} PROVE bound = f.scope /\ e = places
  <2>1. bound = f.scope
    BY <1>1, <1>8
  <2>2. Inner = {}
    BY <1>3, <2>1 DEF Inner, Scoped, ScopeKept
  <2>3. Outside = places
    BY <1>4, <2>2 DEF Outside
  <2> QED BY <2>1, <2>3
<1>9. \A i \in made : first[i].lit \in literals /\ slots[i].lit \in literals /\ i \in DOMAIN slots
                      /\ outcome(i).lit \in {first[i].lit, slots[i].lit}
  OBVIOUS
<1>10. /\ DOMAIN joined = DOMAIN slots /\ \A i \in DOMAIN slots : joined[i] = Merge(first[i], slots[i], owning)
       /\ DOMAIN vs = DOMAIN held
       /\ \A i \in DOMAIN held : vs[i] = IF i \in made THEN Closure(outcome(i).lit, owning) ELSE held[i]
  OBVIOUS
<1>11. \A i \in DOMAIN slots : i \in made <=> slots[i].kind = "lit" /\ ~SameLiteral(first[i], slots[i])
  OBVIOUS
<1>12. mv2 = f.firstMoved \cup UNION {l.eats : l \in literals} /\ \A i \in DOMAIN slots : S[i] = first[i] \/ S[i] = slots[i]
  OBVIOUS
<1>13. \A i \in made : outcome(i).lit.eats \subseteq mv2
  BY <1>9
<1> DEFINE L == [i \in made |-> outcome(i).lit]
<1>14. \A i \in made : L[i] = outcome(i).lit
  OBVIOUS
<1> HIDE DEF f, first, made, literals, outcome, vs, e, joined, S, mv2, L
<1>15. ASSUME NEW i \in made
       PROVE  LET names == MemberNames(Surviving(L[i], owning)) IN
              /\ Covered(vs[i], Through(names, f.scope), f.scope, e)
              /\ (~owning => Covered(vs[i], names, f.scope, e) /\ vs[i].owns = {})
              /\ vs[i].owns = {e[n].st : n \in L[i].eats}
              /\ L[i].eats \subseteq Places(f.scope) /\ L[i].eats \cap f.firstMoved = {}
  <2> DEFINE l == L[i]
  <2>1. bound = f.scope /\ e = places /\ vs[i] = Closure(l, owning)
    BY <1>6, <1>8, <1>9, <1>10, <1>14
  <2>2. l \in LiteralBodies /\ Materializes(l, TRUE, owning)
    <3>1. first[i].lit \in LiteralBodies /\ slots[i].lit \in LiteralBodies
      BY <1>4, <1>9 DEF SlotKinds
    <3>2. l = first[i].lit \/ l = slots[i].lit
      BY <1>9, <1>14
    <3> QED BY <1>1, <1>9, <3>1, <3>2
  <2>3. NamesFit(bound, places, heap) /\ NamesCovered(bound, places, heap)
    BY <1>7, <2>1 DEF Covering
  <2> HIDE DEF l
  <2>4. LET names == MemberNames(Surviving(l, owning))  c == Closure(l, owning) IN
        /\ Covered(c, Through(names, bound), bound, places) /\ (~owning => Covered(c, names, bound, places))
        /\ c.owns = {places[n].st : n \in l.eats} /\ (~owning => c.owns = {})
        /\ l.eats \subseteq Places(bound) /\ l.eats \cap moved = {}
    BY <1>3, <2>2, <2>3, ClosureCovered
  <2> QED BY <1>4, <2>1, <2>4 DEF l
<1>16. SlotsCovered(joined, f.scope, vs, e)
  <2> SUFFICES ASSUME NEW i \in DOMAIN slots PROVE SlotCovered(joined[i], vs[i], f.scope, e)
    BY <1>10 DEF SlotsCovered
  <2> DEFINE s == first[i]
             t == slots[i]
             b == f.scope
             v == vs[i]
  <2>1. s \in SlotKinds /\ t \in SlotKinds /\ s.kind = t.kind
    BY <1>1, <1>4
  <2>2. CASE i \in made
    <3> DEFINE l == L[i]
    <3>1. s.kind = "lit" /\ ~SameLiteral(s, t)
      BY <1>1, <1>11, <2>2
    <3>2. l = s.lit \/ l = t.lit
      BY <1>9, <1>14, <2>2
    <3>3. /\ Covered(v, Through(MemberNames(Surviving(l, owning)), b), b, e)
          /\ ~owning => Covered(v, MemberNames(Surviving(l, owning)), b, e) /\ v.owns = {}
      BY <1>15, <2>2
    <3> HIDE DEF s, t, b, v, l
    <3>4. SlotCovered(Merge(s, t, owning), v, b, e)
      BY <2>1, <3>1, <3>2, <3>3, MadeCovers
    <3> QED BY <1>10, <3>4 DEF s, t, b, v
  <2>3. CASE i \notin made
    <3>1. s.kind = "lit" => SameLiteral(s, t)
      BY <1>1, <1>11, <2>3
    <3>2. v = held[i]
      BY <1>6, <1>10, <2>3
    <3>3. DOMAIN S = DOMAIN slots
      BY <1>4 DEF S
    <3>4. SlotCovered(S[i], v, b, e)
      BY <1>7, <3>2, <3>3 DEF Covering, SlotsCovered
    <3>5. SlotCovered(s, v, b, e) \/ SlotCovered(t, v, b, e)
      BY <1>12, <3>4
    <3> HIDE DEF s, t, b, v
    <3>6. SlotCovered(Merge(s, t, owning), v, b, e)
      BY <2>1, <3>1, <3>5, KeptCovers
    <3> QED BY <1>10, <3>6 DEF s, t, b, v
  <2> QED BY <2>2, <2>3
<1>17. Owned(f.scope, mv2, vs, e, gone) /\ Disposed(f.scope, mv2, e, gone)
  <2> DEFINE eats == [i \in made |-> L[i].eats]
  <2>1. \A i \in made : eats[i] = L[i].eats
    OBVIOUS
  <2> HIDE DEF eats
  <2>2. \A i \in DOMAIN held : vs[i].owns = IF i \in made THEN {e[n].st : n \in eats[i]} ELSE held[i].owns
    <3> SUFFICES ASSUME NEW i \in DOMAIN held
                 PROVE  vs[i].owns = IF i \in made THEN {e[n].st : n \in eats[i]} ELSE held[i].owns
      OBVIOUS
    <3>1. CASE i \in made
      BY <1>15, <2>1, <3>1
    <3>2. CASE i \notin made
      BY <1>10, <3>2
    <3> QED BY <3>1, <3>2
  <2>3. \A i \in made : eats[i] \subseteq Places(f.scope) /\ eats[i] \cap f.firstMoved = {} /\ eats[i] \subseteq mv2
    BY <1>13, <1>14, <1>15, <2>1
  <2>4. ASSUME NEW i \in made, NEW j \in made, i # j PROVE eats[i] \cap eats[j] = {}
    <3>1. eats[i] = slots[i].lit.eats /\ (L[j] = first[j].lit \/ L[j] = slots[j].lit)
      BY <1>1, <1>9, <1>14, <2>1
    <3>2. slots[i].lit.eats \cap (Captured(first[j].lit) \cup Captured(slots[j].lit)) = {}
      BY <1>2, <2>4
    <3>3. eats[j] \subseteq Captured(first[j].lit) \cup Captured(slots[j].lit)
      BY <2>1, <3>1 DEF Captured
    <3> QED BY <3>1, <3>2, <3>3
  <2>5. f.firstMoved \subseteq mv2
    BY <1>12
  <2>6. Takes(f.scope, f.firstMoved, held, e, vs, made, eats, mv2)
    BY <1>10, <2>2, <2>3, <2>4, <2>5 DEF Takes
  <2>7. Owned(f.scope, f.firstMoved, held, e, gone) /\ Disposed(f.scope, f.firstMoved, e, gone)
    BY <1>7 DEF Covering
  <2> QED BY <1>7, <2>6, <2>7, OwnedMore
<1>18. Covering(joined, f.scope, mv2, vs, e, heap, gone \cup {})
  <2>1. gone \cup {} = gone
    OBVIOUS
  <2> QED BY <1>7, <1>16, <1>17, <2>1 DEF Covering
<1>19. ExecutionTypesOK' /\ \A n \in InScope(f.scope) : e[n] # Nothing
  BY <1>7 DEF NamesFit, EscapeInv, CapturesTypeOK
<1>20. Covering(joined, f.scope, mv2, held', places', heap', gone')
  BY <1>1, <1>18, <1>19, CoveringSettled
<1>21. SeenSlots' = slots' /\ SeenScope' = bound' /\ SeenMoved' = moved' /\ phase' # "returned"
  BY <1>1, <1>3 DEF SeenSlots, SeenScope, SeenMoved
<1>22. Whole(slots', bound', Alive(slots', bound', done'), f.firstMoved)
  BY CloseBranchAlive DEF f
<1>23. Disposed(bound', f.firstMoved, places', gone')
  <2>1. Disposed(f.scope, f.firstMoved, e, gone)
    BY <1>7 DEF Covering
  <2>2. places' = e /\ gone' \subseteq gone
    BY <1>1 DEF Settle
  <2> QED BY <1>1, <2>1, <2>2 DEF Disposed
<1> QED BY <1>1, <1>4, <1>20, <1>21, <1>22, <1>23 DEF CoverInv

LEMMA ReturnCovers ==
  ASSUME NEW owning \in BOOLEAN, Return(owning)
  PROVE  CoverInv'
<1>1. phase' = "returned"
  BY DEF Return
<1> QED BY <1>1 DEF CoverInv

LEMMA InitCovers ==
  ASSUME CapturesInit
  PROVE  CoverInv
<1>1. /\ slots = <<>> /\ held = <<>> /\ gone = {} /\ taken = TRUE /\ phase = "body"
      /\ heap = [s \in Ids \cup {Outer} |-> NoClosure]
      /\ \A n \in InScope(bound) : bound[n].kind \in {"ref", "car", "lin"}
  BY InitIs
<1>2. EscapeInv
  BY InitFits
<1>3. NamesFit(bound, places, heap)
  BY <1>1, <1>2, SeenTaken
<1>4. NoClosure.pts = {} /\ NoClosure.owns = {}
  BY DEF NoClosure
<1>5. NamesCovered(bound, places, heap)
  <2> SUFFICES ASSUME NEW n \in InScope(bound) PROVE NameCovered(n, bound, places, heap)
    BY DEF NamesCovered
  <2>1. bound[n].kind \in {"lin", "car"} => heap[places[n].st] = NoClosure
    BY <1>1, <1>3 DEF NamesFit
  <2> QED BY <1>1, <1>4, <2>1 DEF NameCovered, Covered
<1>6. OuterCovered(bound, heap)
  BY <1>1, <1>4 DEF OuterCovered
<1>7. SlotsCovered(slots, bound, held, places) /\ Disposed(bound, moved, places, gone) /\ Owned(bound, moved, held, places, gone)
  BY <1>1 DEF SlotsCovered, Disposed, Owned
<1>8. SeenSlots = slots /\ SeenScope = bound /\ SeenMoved = moved
  BY <1>1 DEF SeenSlots, SeenScope, SeenMoved
<1> QED BY <1>1, <1>5, <1>6, <1>7, <1>8 DEF CoverInv, Covering

LEMMA NextCovers ==
  ASSUME ClosureShapes = {}, EscapeInv, AliveInv, CoverInv, EscapeInv', [CapturesNext]_closures
  PROVE  CoverInv'
<1>1. \A shape : ~Has(shape)
  BY DEF Has
<1>2. CASE phase = "body" /\ terms > 0 /\ terms' = terms - 1 /\ Term
  <2>1. CASE \E n \in Locals : Make(n, "lin") \/ Make(n, "car") \/ BindTop(n) \/ DropLocal(n) \/ PushLocal(n)
    BY <1>2, <2>1, MakeCovers, BindTopCovers, DropLocalCovers, PushLocalCovers
  <2>2. CASE \E n, r \in Locals, mutable \in BOOLEAN : n # r /\ Borrow(n, r, mutable)
    BY <1>2, <2>2, BorrowCovers
  <2>3. CASE \E l \in Literals : PushLiteral(l)
    BY <1>2, <2>3, PushLiteralCovers
  <2>4. CASE \E to \in {"fn", "own", "car"} : PassOn(to)
    BY <1>1, <1>2, <2>4, PassOnCovers
  <2>5. CASE \E r \in Locals : Fetch(r) \/ Store(r) \/ StoreByCall(r)
    <3>1. \A r \in Locals : ~StoreByCall(r)
      BY <1>1 DEF StoreByCall
    <3> QED BY <1>1, <1>2, <2>5, <3>1, FetchCovers, StoreCovers
  <2>6. CASE Call
    BY <1>2, <2>6, CallCovers
  <2> QED BY <1>2, <2>1, <2>2, <2>3, <2>4, <2>5, <2>6 DEF Term
<1>3. CASE \E pick \in 1..2 : OpenBranch(pick)
  BY <1>3, OpenBranchCovers
<1>4. CASE OtherArm
  BY <1>1, <1>4, OtherArmCovers
<1>5. CASE \E tail, owning \in BOOLEAN : CloseBranch(tail, owning)
  BY <1>1, <1>5, CloseBranchCovers
<1>6. CASE \E owning \in BOOLEAN : Return(owning)
  BY <1>6, ReturnCovers
<1>7. CASE UNCHANGED closures
  <2>1. UNCHANGED <<slots, bound, done, moved, branch, phase, held, places, heap, gone, taken>>
    BY <1>7 DEF closures, walk, execution
  <2>2. Alive(slots', bound', done') = Alive(slots, bound, done)
    BY <2>1
  <2>3. SeenSlots' = SeenSlots /\ SeenScope' = SeenScope /\ SeenMoved' = SeenMoved
    BY <2>1 DEF SeenSlots, SeenScope, SeenMoved
  <2>4. phase' # "returned" => Covering(SeenSlots', SeenScope', SeenMoved', held', places', heap', gone')
    BY <2>1, <2>3 DEF CoverInv
  <2>5. phase' = "tail" => \E mv \in SUBSET Locals :
          Whole(slots', bound', Alive(slots', bound', done'), mv) /\ Disposed(bound', mv, places', gone')
    BY <2>1, <2>2 DEF CoverInv
  <2> QED BY <2>4, <2>5 DEF CoverInv
<1> QED BY <1>2, <1>3, <1>4, <1>5, <1>6, <1>7 DEF CapturesNext

-----------------------------------------------------------------------------
(* What can be called is intact.                                             *)

\* what is captured by what is on the stack or alive
AllCaptured ==
  (UNION {MemberNames(slots[i].surviving) : i \in DOMAIN slots})
  \cup (UNION {MemberNames(bound[n].surviving) : n \in Alive(slots, bound, done)})

LEMMA AllCapturedIs ==
  ASSUME EscapeInv, AliveInv
  PROVE  LET A == Alive(slots, bound, done) IN
         /\ LiveNames \subseteq A /\ A \subseteq InScope(bound)
         /\ AllCaptured \subseteq A /\ MembersOK(bound, AllCaptured)
         /\ \A i \in DOMAIN slots : MemberNames(slots[i].surviving) \subseteq AllCaptured
         /\ \A n \in A : MemberNames(bound[n].surviving) \subseteq AllCaptured
         /\ \A mv : Whole(slots, bound, A, mv) => AllCaptured \cap mv = {}
<1> DEFINE A == Alive(slots, bound, done)
<1>1. KeepsIn(slots, bound, done, A) /\ A \subseteq InScope(bound) /\ SlotsOK(bound, slots) /\ ScopeOK(bound)
  BY AliveKeeps DEF AliveInv
<1>2. \A m : m \in AllCaptured <=> \/ \E i \in DOMAIN slots : m \in MemberNames(slots[i].surviving)
                                   \/ \E n \in A : m \in MemberNames(bound[n].surviving)
  BY DEF AllCaptured
<1> HIDE DEF A
<1>3. LiveNames \subseteq A
  BY <1>1 DEF KeepsIn, LiveNames, Scoped, InScope
<1>4. \A i \in DOMAIN slots : MembersOK(bound, MemberNames(slots[i].surviving)) /\ MemberNames(slots[i].surviving) \subseteq A
  <2> SUFFICES ASSUME NEW i \in DOMAIN slots
               PROVE  MembersOK(bound, MemberNames(slots[i].surviving)) /\ MemberNames(slots[i].surviving) \subseteq A
    OBVIOUS
  <2>1. MembersOK(bound, MemberNames(slots[i].surviving)) /\ (slots[i].kind = "lit" => slots[i].surviving = NoSet)
    BY <1>1 DEF SlotsOK, SlotOK
  <2>2. MemberNames(slots[i].surviving) \subseteq InScope(bound)
    BY <2>1 DEF MembersOK
  <2>3. CASE slots[i].kind = "lit"
    BY <2>1, <2>3, NoNames
  <2>4. CASE slots[i].kind # "lit"
    BY <1>1, <2>1, <2>2, <2>4 DEF KeepsIn, OnStack
  <2> QED BY <2>3, <2>4, <2>1
<1>5. \A n \in A : MembersOK(bound, MemberNames(bound[n].surviving)) /\ MemberNames(bound[n].surviving) \subseteq A
  BY <1>1 DEF ScopeOK, MembersOK, KeepsIn
<1>6. MembersOK(bound, AllCaptured) /\ AllCaptured \subseteq A
  BY <1>2, <1>4, <1>5 DEF MembersOK
<1>7. \A mv : Whole(slots, bound, A, mv) => AllCaptured \cap mv = {}
  BY <1>2 DEF Whole
<1> QED BY <1>1, <1>2, <1>3, <1>6, <1>7 DEF A

\* a closure that can be called points to what is captured, and owns nothing that is gone
Sound(c) == Covered(c, AllCaptured, bound, places) /\ c.owns \cap gone = {}

LEMMA GivenSound ==
  ASSUME IntactInv, taken, phase # "returned"
  PROVE  /\ \A i \in DOMAIN held : Sound(held[i])
         /\ Sound(heap[Outer])
         /\ \A n \in Alive(slots, bound, done) : /\ bound[n].kind = "fn" => Sound(places[n].clo)
                                                 /\ bound[n].kind \in {"lin", "car"} => Sound(heap[places[n].st])
<1> DEFINE A == Alive(slots, bound, done)
<1>1. /\ SlotsCovered(slots, bound, held, places) /\ NamesCovered(bound, places, heap) /\ OuterCovered(bound, heap)
      /\ Owned(bound, moved, held, places, gone) /\ slots \in Seq(SlotKinds) /\ DOMAIN held = DOMAIN slots
  <2>1. held \in Seq(ClosureValues) /\ slots \in Seq(SlotKinds) /\ Len(held) = Len(slots)
    BY CoverFacts DEF IntactInv
  <2> QED BY <2>1, CoverFacts DEF IntactInv
<1>2. /\ A \subseteq InScope(bound) /\ AllCaptured \subseteq A
      /\ \A i \in DOMAIN slots : MemberNames(slots[i].surviving) \subseteq AllCaptured
      /\ \A n \in A : MemberNames(bound[n].surviving) \subseteq AllCaptured
  BY AllCapturedIs DEF IntactInv
<1> HIDE DEF A
<1>3. \A c, names : Covered(c, names, bound, places) /\ names \subseteq AllCaptured => Covered(c, AllCaptured, bound, places)
  BY DEF Covered
<1>4. ASSUME NEW i \in DOMAIN held PROVE Sound(held[i])
  <2> DEFINE names == MemberNames(slots[i].surviving)
  <2>0. i \in DOMAIN slots /\ slots[i] \in SlotKinds
    BY <1>1
  <2>1. SlotCovered(slots[i], held[i], bound, places) /\ slots[i].kind \in {"lit", "fn", "own", "car"}
    BY <1>1, <2>0 DEF SlotsCovered, SlotKinds
  <2>2. names \subseteq AllCaptured /\ held[i].owns \cap gone = {}
    BY <1>1, <1>2 DEF Owned
  <2>3. CASE slots[i].kind = "lit"
    BY <2>1, <2>2, <2>3 DEF SlotCovered, NoClosure, Sound, Covered
  <2>4. CASE slots[i].kind = "own"
    <3>1. Covered(held[i], Through(names, bound), bound, places)
      BY <2>1, <2>4 DEF SlotCovered
    <3>2. Through(names, bound) \subseteq AllCaptured
      BY <1>2, <2>2 DEF Through
    <3> QED BY <1>3, <2>2, <3>1, <3>2 DEF Sound
  <2>5. CASE slots[i].kind \in {"fn", "car"}
    <3>1. Covered(held[i], names, bound, places)
      BY <2>1, <2>5 DEF SlotCovered
    <3> QED BY <1>3, <2>2, <3>1 DEF Sound
  <2> QED BY <2>1, <2>3, <2>4, <2>5
<1>5. Sound(heap[Outer])
  BY <1>1 DEF OuterCovered, Sound, Covered
<1>6. ASSUME NEW n \in A
      PROVE  /\ bound[n].kind = "fn" => Sound(places[n].clo)
             /\ bound[n].kind \in {"lin", "car"} => Sound(heap[places[n].st])
  <2>1. NameCovered(n, bound, places, heap) /\ MemberNames(bound[n].surviving) \subseteq AllCaptured
    BY <1>1, <1>2 DEF NamesCovered
  <2>2. Sound(NoClosure)
    BY DEF Sound, Covered, NoClosure
  <2>3. bound[n].kind = "fn" => Sound(places[n].clo)
    BY <1>3, <2>1 DEF NameCovered, Sound
  <2>4. bound[n].kind = "car" => Sound(heap[places[n].st])
    BY <1>3, <2>1 DEF NameCovered, Sound
  <2>5. bound[n].kind = "lin" => Sound(heap[places[n].st])
    BY <2>1, <2>2 DEF NameCovered
  <2> QED BY <2>3, <2>4, <2>5
<1> QED BY <1>4, <1>5, <1>6 DEF A

\* what a captured reference of the frame refers to is a resource
LEMMA ReferenceIs ==
  ASSUME IntactInv, taken, phase # "returned", NEW n \in InScope(bound), bound[n].kind = "ref"
  PROVE  IF bound[n].root = Nothing THEN places[n].st = Outer
         ELSE /\ bound[n].root \in Places(bound) /\ bound[bound[n].root].kind = bound[n].of
              /\ places[n].st = places[bound[n].root].st /\ places[n].st \in Ids
<1>1. NamesFit(bound, places, heap) /\ RootsOK(bound) /\ \A m \in Places(bound) : places[m].st \in Ids
  BY CoverFacts DEF IntactInv
<1> QED BY <1>1 DEF NamesFit, RootsOK

LEMMA CallableSound ==
  ASSUME IntactInv, taken, phase # "returned", NEW c \in Callable
  PROVE  Sound(c)
<1> DEFINE A == Alive(slots, bound, done)
           N == AllCaptured
           T == {Outer} \cup {places[n].st : n \in {m \in N : bound[m].kind # "fn"}}
           given == {held[i] : i \in DOMAIN held} \cup {heap[Outer]}
                      \cup {places[n].clo : n \in {m \in LiveNames : bound[m].kind = "fn" /\ places[m] # Nothing}}
                      \cup {heap[places[n].st] : n \in {m \in LiveNames : bound[m].kind = "car" /\ places[m] # Nothing}}
           Closed(S) == Pointed(given) \subseteq S /\ \A s \in S : Pointed({heap[s]}) \subseteq S
<1>1. /\ LiveNames \subseteq A /\ A \subseteq InScope(bound) /\ N \subseteq A /\ MembersOK(bound, N)
  BY AllCapturedIs DEF IntactInv
<1>2. /\ \A i \in DOMAIN held : Sound(held[i])
      /\ Sound(heap[Outer])
      /\ \A n \in A : /\ bound[n].kind = "fn" => Sound(places[n].clo)
                      /\ bound[n].kind \in {"lin", "car"} => Sound(heap[places[n].st])
  BY GivenSound
<1>3. /\ NamesFit(bound, places, heap) /\ NamesCovered(bound, places, heap) /\ bound \in Scopes
      /\ heap \in [Ids \cup {Outer} -> ClosureValues] /\ places \in [Locals -> PlaceValues \cup {Nothing}]
  BY CoverFacts DEF IntactInv
<1> HIDE DEF A, N
<1>4. \A d \in given : Sound(d)
  BY <1>1, <1>2
<1>5. ASSUME NEW s \in T PROVE Sound(heap[s]) /\ s \in Ids \cup {Outer}
  <2>1. CASE s = Outer
    BY <1>2, <2>1
  <2>2. CASE s # Outer
    <3>1. PICK n \in N : s = places[n].st /\ bound[n].kind # "fn"
      BY <1>5, <2>2
    <3>2. n \in InScope(bound) /\ n \in A /\ bound[n] \in Bindings /\ places[n] \in PlaceValues
      BY <1>1, <1>3 DEF InScope, Scopes, NamesFit
    <3>3. s \in Ids \cup {Outer}
      BY <3>1, <3>2 DEF PlaceValues
    <3>4. CASE bound[n].kind \in {"lin", "car"}
      BY <1>2, <3>1, <3>2, <3>3, <3>4
    <3>5. CASE bound[n].kind = "ref"
      <4>1. bound[n].root # Nothing
        BY <2>2, <3>1, <3>2, <3>5, ReferenceIs
      <4>2. /\ bound[n].root \in Places(bound) /\ bound[bound[n].root].kind = bound[n].of /\ s = places[bound[n].root].st
        BY <3>1, <3>2, <3>5, <4>1, ReferenceIs
      <4>3. bound[n].of # "car"
        BY <1>1, <3>5, <4>1 DEF MembersOK
      <4>4. bound[bound[n].root].kind = "lin" /\ bound[n].root \in InScope(bound)
        BY <4>2, <4>3 DEF Places
      <4>5. heap[s] = NoClosure
        BY <1>3, <4>2, <4>4 DEF NamesCovered, NameCovered
      <4> QED BY <3>3, <4>5 DEF Sound, Covered, NoClosure
    <3> QED BY <3>1, <3>2, <3>4, <3>5 DEF Bindings
  <2> QED BY <2>1, <2>2
<1>6. ASSUME NEW d, Sound(d), NEW p \in d.pts PROVE p.st \in T
  <2>1. CASE OfCaller(p, bound)
    BY <2>1 DEF OfCaller
  <2>2. CASE ~OfCaller(p, bound)
    <3>1. PICK n \in N : Covers(n, p, bound, places)
      BY <1>6, <2>2 DEF Sound, Covered, N
    <3>2. bound[n].kind # "fn" /\ p.st = places[n].st
      BY <3>1 DEF Covers
    <3> QED BY <3>2
  <2> QED BY <2>1, <2>2
<1> HIDE DEF T, given
<1>7. Pointed(given) \subseteq T
  BY <1>4, <1>6 DEF Pointed
<1>8. ASSUME NEW s \in T PROVE Pointed({heap[s]}) \subseteq T
  BY <1>5, <1>6, <1>8 DEF Pointed
<1>9. Closed(T) /\ T \in SUBSET DOMAIN heap
  BY <1>3, <1>5, <1>7, <1>8
<1>10. Callable = given \cup {heap[s] : s \in {t \in DOMAIN heap : \A S \in SUBSET DOMAIN heap : Closed(S) => t \in S}}
  BY DEF Callable, Reach, given
<1>11. c \in given \/ \E s \in T : c = heap[s]
  <2> HIDE DEF Closed
  <2> QED BY <1>9, <1>10
<1> QED BY <1>4, <1>5, <1>11

LEMMA IntactFollows ==
  ASSUME IntactInv
  PROVE  CapturesIntact
<1> SUFFICES ASSUME taken, phase # "returned", NEW c \in Callable
             PROVE  /\ \A p \in c.pts : p.st \notin gone
                    /\ c.owns \cap gone = {}
                    /\ \A p \in c.pts, r \in LiveNames :
                         /\ p.by \in Scoped /\ r # p.by /\ bound[r].kind = "ref" /\ places[r].st = p.st
                         => ~bound[r].mutable /\ ~bound[p.by].mutable
  BY DEF CapturesIntact
<1> DEFINE A == Alive(slots, bound, done)
<1>1. Covered(c, AllCaptured, bound, places) /\ c.owns \cap gone = {}
  BY CallableSound DEF Sound
<1>2. /\ LiveNames \subseteq A /\ A \subseteq InScope(bound) /\ AllCaptured \subseteq A
      /\ \A mv : Whole(slots, bound, A, mv) => AllCaptured \cap mv = {}
  BY AllCapturedIs DEF IntactInv
<1>3. PICK mv \in SUBSET Locals : Whole(slots, bound, A, mv) /\ Disposed(bound, mv, places, gone)
  <2>1. CASE phase = "body"
    BY <2>1, CoverFacts DEF IntactInv, AliveInv, EscapeInv, CapturesTypeOK, WalkTypesOK
  <2>2. CASE phase = "tail"
    BY <2>2 DEF IntactInv, CoverInv
  <2> QED BY <2>1, <2>2 DEF IntactInv, EscapeInv, CapturesTypeOK, WalkTypesOK
<1>4. Exclusive(bound, A) /\ OneGiven(bound) /\ Apart(bound, places) /\ Outer \notin gone /\ Outer \notin Ids
  <2>1. Exclusive(bound, A) /\ OneGiven(bound)
    BY DEF IntactInv, AliveInv, ScopeOK
  <2>2. Apart(bound, places)
    BY CoverFacts DEF IntactInv
  <2>3. gone \subseteq Ids /\ Outer \notin Ids
    BY CapturesAssumption DEF IntactInv, EscapeInv, CapturesTypeOK, ExecutionTypesOK, Outer, Ids
  <2> QED BY <2>1, <2>2, <2>3
<1> HIDE DEF A
<1>5. ASSUME NEW p \in c.pts PROVE p.st \notin gone
  <2>1. CASE OfCaller(p, bound)
    BY <1>4, <2>1 DEF OfCaller
  <2>2. CASE ~OfCaller(p, bound)
    <3>1. PICK n \in AllCaptured : p.st # Outer /\ Covers(n, p, bound, places)
      BY <1>1, <2>2 DEF Covered
    <3>2. n \in A /\ n \in InScope(bound) /\ n \notin mv /\ places[n].st = p.st
      BY <1>2, <1>3, <3>1 DEF Covers
    <3>3. CASE bound[n].kind = "ref"
      <4>1. bound[n].root \in Places(bound) /\ places[bound[n].root].st = p.st
        BY <3>1, <3>2, <3>3, ReferenceIs
      <4>2. bound[n].root \notin mv
        BY <1>3, <3>2, <3>3 DEF Whole
      <4> QED BY <1>3, <4>1, <4>2 DEF Disposed
    <3>4. CASE bound[n].kind # "ref"
      <4>1. n \in Places(bound)
        BY <3>1, <3>2, <3>4 DEF Covers, Places
      <4> QED BY <1>3, <3>2, <4>1 DEF Disposed
    <3> QED BY <3>3, <3>4
  <2> QED BY <2>1, <2>2
<1>6. ASSUME NEW p \in c.pts, NEW r \in LiveNames, p.by \in Scoped, r # p.by, bound[r].kind = "ref", places[r].st = p.st
      PROVE  ~bound[r].mutable /\ ~bound[p.by].mutable
  <2>1. r \in A /\ r \in InScope(bound) /\ p.by # Nothing
    <3>1. Nothing \notin Locals
      BY CapturesAssumption
    <3> QED BY <1>2, <1>6, <3>1 DEF Scoped
  <2>2. CASE OfCaller(p, bound)
    <3>1. bound[r].root = Nothing
      BY <1>4, <1>6, <2>1, <2>2, ReferenceIs DEF OfCaller
    <3>2. IsGiven(bound, r) /\ IsGiven(bound, p.by)
      BY <1>6, <2>1, <2>2, <3>1 DEF IsGiven, OfCaller
    <3> QED BY <1>4, <1>6, <3>2 DEF OneGiven, IsGiven, InScope
  <2>3. CASE ~OfCaller(p, bound)
    <3>1. PICK n \in AllCaptured : p.st # Outer /\ Covers(n, p, bound, places)
      BY <1>1, <2>3 DEF Covered
    <3>2. n = p.by /\ bound[n].kind = "ref" /\ n \in A /\ n \in InScope(bound) /\ places[n].st = p.st
      BY <1>2, <2>1, <3>1 DEF Covers
    <3>3. bound[n].root \in Places(bound) /\ places[bound[n].root].st = p.st
      BY <3>1, <3>2, ReferenceIs
    <3>4. bound[r].root \in Places(bound) /\ places[bound[r].root].st = p.st
      BY <1>6, <2>1, <3>1, ReferenceIs
    <3>5. bound[n].root = bound[r].root
      BY <1>4, <3>3, <3>4 DEF Apart
    <3> QED BY <1>4, <1>6, <2>1, <3>2, <3>5 DEF Exclusive
  <2> QED BY <2>2, <2>3
<1> QED BY <1>1, <1>5, <1>6

\* The invariant of the three parts: what the sets of captures say of escaping,
\* what is alive and unconsumed, and that every pointer of every closure is one
\* to what such a set names.
THEOREM CapturesInvariance ==
  ASSUME ClosureShapes = {}
  PROVE  CapturesSpec => []IntactInv
<1>1. CapturesInit => IntactInv
  BY InitFits, InitAlive, InitCovers DEF IntactInv
<1>2. IntactInv /\ [CapturesNext]_closures => IntactInv'
  <2> SUFFICES ASSUME IntactInv, [CapturesNext]_closures PROVE IntactInv'
    OBVIOUS
  <2>1. ~Has("storedInArm") /\ ~Has("storedByCallee")
    BY DEF Has
  <2>2. EscapeInv'
    BY <2>1, NextFits DEF IntactInv
  <2> QED BY <2>2, NextAlive, NextCovers DEF IntactInv
<1> QED BY <1>1, <1>2, PTL DEF CapturesSpec

\* No closure that can be called has a capture that was disposed of, or that a
\* reference in use conflicts with: the set that rides on a closure, and the
\* liveness it lends its members, keep the borrow and the move checks honest
\* however far the closure travels.
THEOREM CapturesStayIntact ==
  ASSUME ClosureShapes = {}
  PROVE  CapturesSpec => []CapturesIntact
BY CapturesInvariance, IntactFollows, PTL
=============================================================================
