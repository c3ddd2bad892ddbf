-------------------------- MODULE BorrowWalkProofs --------------------------
(* That no reference of an accepted body dangles, that mutable references    *)
(* exclude each other and that nobody sees a value change, for bodies of any *)
(* number of names, fields, slots and open branches.  The shape considered   *)
(* is the anonymous projection; the others break the properties.             *)
EXTENDS BorrowWalk, FiniteSetTheorems, NaturalsInduction, WellFoundedInduction, TLAPS

-----------------------------------------------------------------------------
(* What is held, and where.  A position is a slot of the stack or a local;   *)
(* what it holds is what the checker says of it beside what it is.           *)

InSlot(k) == <<"slot", k>>
InName(n) == <<"name", n>>
IsSlot(p) == p[1] = "slot"
Positions(stk, e) == {InSlot(k) : k \in DOMAIN stk} \cup {InName(n) : n \in {m \in Names : e[m] # Nothing}}
Held(s, v) == [ty |-> s.ty, leaf |-> s.leaf, alias |-> s.alias, deriv |-> s.deriv, st |-> v.st, path |-> v.path, via |-> v.via]
Holding(stk, bnd, vs, e) ==
  [p \in Positions(stk, e) |-> IF IsSlot(p) THEN Held(stk[p[2]], vs[p[2]]) ELSE Held(bnd[p[2]], e[p[2]])]
\* those that the rest of the body may use
Usable(stk, e, dn, mv) == {p \in Positions(stk, e) : IsSlot(p) \/ p[2] \notin dn \cup mv}

\* The derivation or the region of a reference leads to the owned value k.
FromRoot(H, h, k) ==
  /\ H[h].deriv # Nothing
  /\ LET r == InName(H[h].deriv.root)
     IN r \in DOMAIN H /\ ~IsRef(H[r].ty) /\ H[r].st = H[h].st /\ (k = r \/ Overlap(H[k].alias, H[r].alias))
FromRegion(H, h, k) == \E x \in H[h].alias : x[2] = H[h].path /\ <<x[1], Whole>> \in H[k].alias
Lent(H, h, k) == \E n \in H[k].via : h = InName(n)

\* A linear value is held once; nothing that is owned has been disposed of.
LinearAlone(H) == \A p, q \in DOMAIN H : p # q /\ H[p].ty = "lin" /\ ~IsRef(H[q].ty) => H[p].st # H[q].st
OwnedThere(H, g) == \A p \in DOMAIN H : ~IsRef(H[p].ty) => H[p].st \notin g
Descent(H) == \A p \in DOMAIN H : \A n \in H[p].via : InName(n) \in DOMAIN H /\ H[InName(n)].ty = H[p].ty /\ IsRef(H[p].ty)
Leaves(H) == \A p \in DOMAIN H : IsRef(H[p].ty) => (H[p].leaf <=> H[p].path # Whole)
Traced(H, L) ==
  \A h, k \in L : IsRef(H[h].ty) /\ ~IsRef(H[k].ty) /\ H[h].st = H[k].st => FromRoot(H, h, k) \/ FromRegion(H, h, k)
SharedSeen(H, L) ==
  \A p, q \in L : p # q /\ ~IsRef(H[p].ty) /\ ~IsRef(H[q].ty) /\ H[p].st = H[q].st => Overlap(H[p].alias, H[q].alias)
SoleOwner(H, L) ==
  \A h, k \in L : H[h].ty = "mut" /\ ~IsRef(H[k].ty) /\ H[h].st = H[k].st =>
    /\ (H[h].deriv # Nothing /\ k = InName(H[h].deriv.root)) \/ (IsSlot(k) /\ FromRegion(H, h, k))
    /\ \A j \in L : ~IsRef(H[j].ty) /\ H[j].st = H[h].st => j = k
Apart(H, L) ==
  \A h, k \in L : h # k /\ H[h].ty = "mut" /\ IsRef(H[k].ty) /\ H[h].st = H[k].st /\ PathsMeet(H[h].path, H[k].path)
                  => Lent(H, h, k) \/ Lent(H, k, h)
Suspended(H, L) ==
  \A h \in L : H[h].ty = "mut" => \A n \in H[h].via : InName(n) \in L =>
    H[h].deriv # Nothing /\ H[h].deriv.reborrow /\ H[h].deriv.place = n
Reaching(H, L, g) == \A h \in L : IsRef(H[h].ty) => H[h].st \notin g

Good(H, L, g) ==
  /\ LinearAlone(H) /\ OwnedThere(H, g) /\ Descent(H) /\ Leaves(H)
  /\ Traced(H, L) /\ SharedSeen(H, L) /\ SoleOwner(H, L) /\ Apart(H, L) /\ Suspended(H, L) /\ Reaching(H, L, g)

\* The execution is where the checker's state says.
Agrees(stk, bnd, dn, mv, vs, e, g) ==
  /\ Len(vs) = Len(stk) /\ \A k \in DOMAIN stk : vs[k].ty = stk[k].ty
  /\ \A n \in Names : e[n] # Nothing => bnd[n] # Nothing /\ e[n].ty = bnd[n].ty
  /\ \A n \in Names \ mv : bnd[n] # Nothing => e[n] # Nothing
  /\ g \subseteq StoragesInUse(vs, e)
  /\ Good(Holding(stk, bnd, vs, e), Usable(stk, e, dn, mv), g)
-----------------------------------------------------------------------------
(* What the checker's state is, whatever the execution.                      *)

\* the names bound outside the frame at depth k
Outer(bnd, k) == [n \in Names |-> IF bnd[n] # Nothing /\ bnd[n].level < k THEN bnd[n] ELSE Nothing]
SlotOK(s, bnd) ==
  /\ s.ty \in Types /\ s.leaf \in BOOLEAN /\ s.deriv \in Derivs \cup {Nothing}
  /\ IF IsRef(s.ty)
     THEN /\ s.alias \subseteq Ids \X Fields
          /\ s.deriv # Nothing => /\ s.deriv.mutable <=> s.ty = "mut"
                                  /\ s.deriv.root = Nothing \/ bnd[s.deriv.root] # Nothing
     ELSE s.alias \subseteq Ids \X {Whole} /\ s.deriv = Nothing
BindingOK(b, bnd) ==
  /\ SlotOK(b, bnd)
  /\ IF IsRef(b.ty)
     THEN b.alias = {} /\ (b.deriv # Nothing /\ b.deriv.root # Nothing => bnd[b.deriv.root].level <= b.level)
     ELSE b.alias # {}
StackOK(stk, bnd) == stk \in Seq(Slots) /\ \A k \in DOMAIN stk : SlotOK(stk[k], bnd)
BoundOK == /\ bound \in [Names -> {Nothing} \cup Bindings]
           /\ \A n \in Names : bound[n] # Nothing => BindingOK(bound[n], bound) /\ bound[n].level <= Depth
\* what the moved names are; what a frame grants its arms
MovedOK(mv, bnd) == mv \subseteq {n \in Names : bnd[n] # Nothing /\ bnd[n].ty = "lin"}
Grant(k) == IF k = 0 THEN {} ELSE frames[k].grant
Granted(k) == {n \in Names : bound[n] # Nothing /\ (bound[n].level = k \/ (bound[n].level < k /\ n \in Grant(k)))}
FrameOK(k) ==
  LET f == frames[k]  b == Outer(bound, k) IN
  /\ f.arm \in {1, 2} /\ f.pick \in 0..2 /\ f.outer = Grant(k - 1)
  /\ f.grant \subseteq Granted(k - 1) /\ f.entryDone \subseteq f.grant
  /\ StackOK(f.entry, b) /\ MovedOK(f.entryMoved, b)
  /\ f.arm = 2 => StackOK(f.first, b) /\ MovedOK(f.firstMoved, b)
Frames == [entry : Seq(Slots), entryMoved : SUBSET Names, entryDone : SUBSET Names, outer : SUBSET Names,
           grant : SUBSET Names, arm : {1, 2}, first : Seq(Slots), firstMoved : SUBSET Names, pick : 0..2, left : Nat]
CheckerOK ==
  /\ frames \in Seq(Frames) /\ Depth <= MaxDepth /\ left \in Nat
  /\ BoundOK /\ StackOK(stack, bound) /\ MovedOK(moved, bound)
  /\ granted = Grant(Depth) /\ done \subseteq Granted(Depth)
  /\ \A k \in 1..Depth : FrameOK(k)

\* The execution agrees with the state of the checker, or with the one that the
\* frame it waits in has saved.
Synced ==
  IF Executing
  THEN /\ \A k \in 1..Depth : frames[k].pick = frames[k].arm
       /\ Agrees(stack, bound, done, moved, vals, env, gone)
  ELSE \E a \in 1..Depth :
         LET f == frames[a]  b == Outer(bound, a) IN
         /\ \A k \in 1..Depth : IF k < a THEN frames[k].pick = frames[k].arm ELSE k > a => frames[k].pick = 0
         /\ \/ f.arm = 1 /\ f.pick = 2 /\ Agrees(f.entry, b, f.entryDone, f.entryMoved, vals, env, gone)
            \/ f.arm = 2 /\ f.pick = 1 /\ Agrees(f.first, b, f.grant, f.firstMoved, vals, env, gone)

IInv == vals \in Seq(Values) /\ env \in [Names -> Values \cup {Nothing}] /\ CheckerOK /\ Synced
-----------------------------------------------------------------------------
(* What moves and what is added.  `Carried`: everything held afterwards was  *)
(* held before, at phi.                                                      *)

KeepsPlaces(d, d2, ty) ==
  d2 # Nothing /\ d2.root = d.root /\ (ty = "mut" /\ d.reborrow => d2.reborrow /\ d2.place = d.place)
SameValue(H, H2, phi, p) ==
  /\ H2[p].ty = H[phi[p]].ty /\ H2[p].st = H[phi[p]].st /\ H[phi[p]].alias \subseteq H2[p].alias
  /\ H2[p].via \subseteq H[phi[p]].via
  /\ \A n \in H2[p].via : InName(n) \in DOMAIN H2 /\ phi[InName(n)] = InName(n)
SameReference(H, H2, L2, phi, p) ==
  /\ H2[p].path = H[phi[p]].path \/ (H[phi[p]].path = Whole /\ \A x \in H[phi[p]].alias : x[2] # Whole)
  /\ H[phi[p]].deriv # Nothing =>
       /\ KeepsPlaces(H[phi[p]].deriv, H2[p].deriv, H2[p].ty)
       /\ LET r == InName(H[phi[p]].deriv.root) IN r \in DOMAIN H => r \in DOMAIN H2 /\ phi[r] = r
  /\ \A q \in L2, n \in H[phi[p]].via : IsRef(H2[q].ty) /\ phi[q] = InName(n) => q = InName(n) /\ n \in H2[p].via
Carried(H, L, g, H2, L2, g2, phi) ==
  /\ phi \in [DOMAIN H2 -> DOMAIN H] /\ \A p, q \in DOMAIN H2 : phi[p] = phi[q] => p = q
  /\ L2 \subseteq DOMAIN H2 /\ \A p \in L2 : phi[p] \in L
  /\ Leaves(H2)
  /\ \A p \in DOMAIN H2 : SameValue(H, H2, phi, p)
  /\ \A p \in DOMAIN H2 : (p \in L2 \/ ~IsRef(H2[p].ty)) /\ H2[p].st \in g2 => H2[p].st \in g
  /\ \A p \in L2 : IF IsRef(H2[p].ty) THEN SameReference(H, H2, L2, phi, p)
                   ELSE IsSlot(phi[p]) /\ ~IsSlot(p) => \A h \in L : H[h].ty = "mut" => ~FromRegion(H, h, phi[p])

LEMMA OverlapGrows ==
  ASSUME NEW a, NEW b, NEW a2, NEW b2, a \subseteq a2, b \subseteq b2, Overlap(a, b)
  PROVE  Overlap(a2, b2)
BY DEF Overlap

LEMMA OverlapEitherWay ==
  ASSUME NEW a, NEW b, Overlap(a, b)
  PROVE  Overlap(b, a)
BY DEF Overlap, PathsMeet

LEMMA RootCarried ==
  ASSUME NEW H, NEW L, NEW g, NEW H2, NEW L2, NEW g2, NEW phi, Carried(H, L, g, H2, L2, g2, phi),
         NEW h \in L2, NEW k \in L2, IsRef(H2[h].ty), FromRoot(H, phi[h], phi[k])
  PROVE  /\ FromRoot(H2, h, k) /\ H2[h].deriv # Nothing
         /\ H2[h].deriv.root = H[phi[h]].deriv.root
         /\ phi[k] = InName(H[phi[h]].deriv.root) => k = InName(H2[h].deriv.root)
<1> DEFINE r == InName(H[phi[h]].deriv.root)
<1>1. /\ H[phi[h]].deriv # Nothing /\ r \in DOMAIN H /\ ~IsRef(H[r].ty) /\ H[r].st = H[phi[h]].st
      /\ phi[k] = r \/ Overlap(H[phi[k]].alias, H[r].alias)
  BY DEF FromRoot
<1>2. SameReference(H, H2, L2, phi, h) /\ h \in DOMAIN H2 /\ k \in DOMAIN H2
  BY DEF Carried
<1>3. r \in DOMAIN H2 /\ phi[r] = r /\ KeepsPlaces(H[phi[h]].deriv, H2[h].deriv, H2[h].ty)
  BY <1>1, <1>2 DEF SameReference
<1>4. H2[h].deriv # Nothing /\ H2[h].deriv.root = H[phi[h]].deriv.root
  BY <1>3 DEF KeepsPlaces
<1>5. SameValue(H, H2, phi, h) /\ SameValue(H, H2, phi, k) /\ SameValue(H, H2, phi, r)
  BY <1>2, <1>3 DEF Carried
<1>6. phi[k] = r => k = r
  BY <1>2, <1>3, SMTT(30) DEF Carried
<1>7. k = r \/ Overlap(H2[k].alias, H2[r].alias)
  <2>1. H[phi[k]].alias \subseteq H2[k].alias /\ H[r].alias \subseteq H2[r].alias
    BY <1>3, <1>5, ZenonT(40) DEF SameValue
  <2> QED BY <1>1, <1>6, <2>1, OverlapGrows, SMTT(30)
<1>8. ~IsRef(H2[r].ty) /\ H2[r].st = H2[h].st
  BY <1>1, <1>3, <1>5, ZenonT(40) DEF SameValue
<1> QED BY <1>3, <1>4, <1>6, <1>7, <1>8 DEF FromRoot

LEMMA RegionCarried ==
  ASSUME NEW H, NEW L, NEW g, NEW H2, NEW L2, NEW g2, NEW phi, Carried(H, L, g, H2, L2, g2, phi),
         NEW h \in L2, NEW k \in L2, IsRef(H2[h].ty), FromRegion(H, phi[h], phi[k])
  PROVE  FromRegion(H2, h, k)
<1>1. PICK x \in H[phi[h]].alias : x[2] = H[phi[h]].path /\ <<x[1], Whole>> \in H[phi[k]].alias
  BY DEF FromRegion
<1>2. SameReference(H, H2, L2, phi, h) /\ SameValue(H, H2, phi, h) /\ SameValue(H, H2, phi, k)
  BY DEF Carried
<1>3. H2[h].path = H[phi[h]].path
  BY <1>1, <1>2 DEF SameReference
<1> QED BY <1>1, <1>2, <1>3 DEF FromRegion, SameValue

\* What holds of what is held goes on holding where it is carried.
LEMMA Transfer ==
  ASSUME NEW H, NEW L, NEW g, NEW H2, NEW L2, NEW g2, NEW phi, L \subseteq DOMAIN H,
         Carried(H, L, g, H2, L2, g2, phi), Good(H, L, g)
  PROVE  Good(H2, L2, g2)
<1>1. /\ \A p \in DOMAIN H2 : SameValue(H, H2, phi, p) /\ phi[p] \in DOMAIN H
      /\ \A p, q \in DOMAIN H2 : phi[p] = phi[q] => p = q
      /\ \A p \in L2 : p \in DOMAIN H2 /\ phi[p] \in L
      /\ \A p \in L2 : IsRef(H2[p].ty) => SameReference(H, H2, L2, phi, p)
      /\ \A p \in DOMAIN H2 : (p \in L2 \/ ~IsRef(H2[p].ty)) /\ H2[p].st \in g2 => H2[p].st \in g
      /\ \A p \in L2 : ~IsRef(H2[p].ty) /\ IsSlot(phi[p]) /\ ~IsSlot(p) => \A h \in L : H[h].ty = "mut" => ~FromRegion(H, h, phi[p])
      /\ Leaves(H2)
  BY DEF Carried
<1>2. \A p \in DOMAIN H2 : H2[p].ty = H[phi[p]].ty /\ H2[p].st = H[phi[p]].st /\ H[phi[p]].alias \subseteq H2[p].alias
  BY <1>1 DEF SameValue
<1>3. LinearAlone(H2)
  BY <1>1, <1>2 DEF LinearAlone, Good
<1>4. OwnedThere(H2, g2)
  BY <1>1, <1>2 DEF OwnedThere, Good
<1>5. Descent(H2)
  <2> SUFFICES ASSUME NEW p \in DOMAIN H2, NEW n \in H2[p].via
               PROVE  InName(n) \in DOMAIN H2 /\ H2[InName(n)].ty = H2[p].ty /\ IsRef(H2[p].ty)
    BY DEF Descent
  <2>1. InName(n) \in DOMAIN H2 /\ phi[InName(n)] = InName(n) /\ n \in H[phi[p]].via
    BY <1>1 DEF SameValue
  <2>2. H[InName(n)].ty = H[phi[p]].ty /\ IsRef(H[phi[p]].ty)
    BY <1>1, <2>1 DEF Good, Descent
  <2> QED BY <1>2, <2>1, <2>2
<1>6. Traced(H2, L2)
  <2> SUFFICES ASSUME NEW h \in L2, NEW k \in L2, IsRef(H2[h].ty), ~IsRef(H2[k].ty), H2[h].st = H2[k].st
               PROVE  FromRoot(H2, h, k) \/ FromRegion(H2, h, k)
    BY DEF Traced
  <2>1. FromRoot(H, phi[h], phi[k]) \/ FromRegion(H, phi[h], phi[k])
    BY <1>1, <1>2 DEF Good, Traced
  <2> QED BY <2>1, RootCarried, RegionCarried
<1>7. SharedSeen(H2, L2)
  <2> SUFFICES ASSUME NEW p \in L2, NEW q \in L2, p # q, ~IsRef(H2[p].ty), ~IsRef(H2[q].ty), H2[p].st = H2[q].st
               PROVE  Overlap(H2[p].alias, H2[q].alias)
    BY DEF SharedSeen
  <2>1. Overlap(H[phi[p]].alias, H[phi[q]].alias)
    BY <1>1, <1>2 DEF Good, SharedSeen
  <2> QED BY <1>1, <1>2, <2>1, OverlapGrows
<1>8. SoleOwner(H2, L2)
  <2> SUFFICES ASSUME NEW h \in L2, NEW k \in L2, H2[h].ty = "mut", ~IsRef(H2[k].ty), H2[h].st = H2[k].st
               PROVE  /\ (H2[h].deriv # Nothing /\ k = InName(H2[h].deriv.root)) \/ (IsSlot(k) /\ FromRegion(H2, h, k))
                      /\ \A j \in L2 : ~IsRef(H2[j].ty) /\ H2[j].st = H2[h].st => j = k
    BY DEF SoleOwner
  <2>1. IsRef(H2[h].ty)
    BY DEF IsRef
  <2>2. /\ (H[phi[h]].deriv # Nothing /\ phi[k] = InName(H[phi[h]].deriv.root)) \/ (IsSlot(phi[k]) /\ FromRegion(H, phi[h], phi[k]))
        /\ \A j \in L : ~IsRef(H[j].ty) /\ H[j].st = H[phi[h]].st => j = phi[k]
    BY <1>1, <1>2 DEF Good, SoleOwner
  <2>3. \A j \in L2 : ~IsRef(H2[j].ty) /\ H2[j].st = H2[h].st => j = k
    BY <1>1, <1>2, <2>2
  <2>4. CASE IsSlot(phi[k]) /\ FromRegion(H, phi[h], phi[k])
    BY <1>1, <1>2, <2>1, <2>3, <2>4, RegionCarried
  <2>5. CASE H[phi[h]].deriv # Nothing /\ phi[k] = InName(H[phi[h]].deriv.root)
    <3>1. phi[k] \in DOMAIN H /\ ~IsRef(H[phi[k]].ty) /\ H[phi[k]].st = H[phi[h]].st
      BY <1>1, <1>2
    <3>2. FromRoot(H, phi[h], phi[k])
      BY <2>5, <3>1 DEF FromRoot
    <3> QED BY <2>1, <2>3, <2>5, <3>2, RootCarried
  <2> QED BY <2>2, <2>4, <2>5
<1>9. Apart(H2, L2)
  <2> SUFFICES ASSUME NEW h \in L2, NEW k \in L2, h # k, H2[h].ty = "mut", IsRef(H2[k].ty), H2[h].st = H2[k].st,
                      PathsMeet(H2[h].path, H2[k].path)
               PROVE  Lent(H2, h, k) \/ Lent(H2, k, h)
    BY DEF Apart
  <2>1. IsRef(H2[h].ty)
    BY DEF IsRef
  <2>2. SameReference(H, H2, L2, phi, h) /\ SameReference(H, H2, L2, phi, k)
    BY <1>1, <2>1
  <2>3. PathsMeet(H[phi[h]].path, H[phi[k]].path)
    BY <2>2 DEF SameReference, PathsMeet
  <2>4. Lent(H, phi[h], phi[k]) \/ Lent(H, phi[k], phi[h])
    BY <1>1, <1>2, <2>3 DEF Good, Apart
  <2> QED BY <2>1, <2>2, <2>4 DEF Lent, SameReference
<1>10. Suspended(H2, L2)
  <2> SUFFICES ASSUME NEW h \in L2, H2[h].ty = "mut", NEW n \in H2[h].via, InName(n) \in L2
               PROVE  H2[h].deriv # Nothing /\ H2[h].deriv.reborrow /\ H2[h].deriv.place = n
    BY DEF Suspended
  <2>1. IsRef(H2[h].ty)
    BY DEF IsRef
  <2>2. phi[InName(n)] = InName(n) /\ n \in H[phi[h]].via
    BY <1>1 DEF SameValue
  <2>3. H[phi[h]].deriv # Nothing /\ H[phi[h]].deriv.reborrow /\ H[phi[h]].deriv.place = n
    BY <1>1, <1>2, <2>2 DEF Good, Suspended
  <2>4. KeepsPlaces(H[phi[h]].deriv, H2[h].deriv, H2[h].ty)
    BY <1>1, <2>1, <2>3 DEF SameReference
  <2> QED BY <2>3, <2>4 DEF KeepsPlaces
<1>11. Reaching(H2, L2, g2)
  BY <1>1, <1>2 DEF Good, Reaching
<1> QED BY <1>1, <1>3, <1>4, <1>5, <1>6, <1>7, <1>8, <1>9, <1>10, <1>11 DEF Good

\* q is a new slot, and the rest is as it was.
Added(H, q, H2) ==
  /\ q \notin DOMAIN H /\ DOMAIN H2 = DOMAIN H \cup {q} /\ \A p \in DOMAIN H : H2[p] = H[p]
  /\ \A n : q # InName(n)

LEMMA AddedSees ==
  ASSUME NEW H, NEW L, NEW q, NEW H2, L \subseteq DOMAIN H, Added(H, q, H2),
         NEW h \in L, NEW k \in L
  PROVE  /\ FromRoot(H2, h, k) <=> FromRoot(H, h, k)
         /\ FromRegion(H2, h, k) <=> FromRegion(H, h, k)
         /\ Lent(H2, h, k) <=> Lent(H, h, k)
<1>1. H2[h] = H[h] /\ H2[k] = H[k]
  BY DEF Added
<1>2. \A n : InName(n) \in DOMAIN H2 <=> InName(n) \in DOMAIN H
  BY DEF Added
<1>3. \A n : InName(n) \in DOMAIN H => H2[InName(n)] = H[InName(n)]
  BY DEF Added
<1>4. FromRoot(H2, h, k) <=> FromRoot(H, h, k)
  BY <1>1, <1>2, <1>3 DEF FromRoot
<1>5. FromRegion(H2, h, k) <=> FromRegion(H, h, k)
  BY <1>1 DEF FromRegion
<1>6. Lent(H2, h, k) <=> Lent(H, h, k)
  BY <1>1 DEF Lent
<1> QED BY <1>4, <1>5, <1>6

\* What is owned may be added when nothing else denotes its storage, or when it
\* denotes what the value at a does and nothing can write there.
Fresh(H, g, x) == x.st \notin g /\ \A p \in DOMAIN H : H[p].st # x.st
Again(H, L, a, x) ==
  /\ a \in L /\ x.ty = "agg" /\ H[a].ty = "agg" /\ x.st = H[a].st /\ x.alias = H[a].alias /\ x.alias # {}
  /\ \A h \in L : H[h].ty = "mut" => H[h].st # x.st

LEMMA AddOwned ==
  ASSUME NEW H, NEW L, NEW g, NEW q, NEW H2, NEW a, L \subseteq DOMAIN H, Good(H, L, g), Added(H, q, H2),
         ~IsRef(H2[q].ty), H2[q].via = {}, Fresh(H, g, H2[q]) \/ Again(H, L, a, H2[q])
  PROVE  Good(H2, L \cup {q}, g)
<1> DEFINE x == H2[q]
           K == L \cup {q}
<1>1. q \notin DOMAIN H /\ DOMAIN H2 = DOMAIN H \cup {q} /\ \A p \in DOMAIN H : H2[p] = H[p]
  BY DEF Added
<1>2. \A p \in L : p \in DOMAIN H /\ H2[p] = H[p] /\ p # q
  BY <1>1
<1> HIDE DEF x, K
<1>3. ASSUME NEW p \in DOMAIN H, H[p].st = x.st
      PROVE  Again(H, L, a, x)
  BY <1>3 DEF Fresh, x
<1>4. LinearAlone(H2)
  <2> SUFFICES ASSUME NEW p \in DOMAIN H2, NEW r \in DOMAIN H2, p # r, H2[p].ty = "lin", ~IsRef(H2[r].ty), H2[p].st = H2[r].st
               PROVE  FALSE
    BY DEF LinearAlone
  <2>1. CASE p \in DOMAIN H /\ r \in DOMAIN H
    BY <1>1, <2>1 DEF Good, LinearAlone
  <2>2. CASE p = q
    <3>1. r \in DOMAIN H /\ H[r].st = x.st
      BY <1>1, <2>2 DEF x
    <3> QED BY <1>3, <2>2, <3>1 DEF Again, x
  <2>3. CASE r = q /\ p \in DOMAIN H
    <3>1. H[p] = H2[p] /\ H[p].st = x.st
      BY <1>1, <2>3 DEF x
    <3>2. a \in DOMAIN H /\ H[a].ty = "agg" /\ H[a].st = x.st
      BY <1>2, <1>3, <2>3, <3>1 DEF Again
    <3>3. a # p /\ ~IsRef(H[a].ty) /\ H[p].ty = "lin"
      BY <3>1, <3>2 DEF IsRef
    <3> QED BY <2>3, <3>1, <3>2, <3>3 DEF Good, LinearAlone
  <2> QED BY <1>1, <2>1, <2>2, <2>3
<1>5. OwnedThere(H2, g)
  <2>1. x.st \notin g
    <3>1. CASE Fresh(H, g, x)
      BY <3>1 DEF Fresh
    <3>2. CASE Again(H, L, a, x)
      BY <1>2, <3>2 DEF Again, Good, OwnedThere, IsRef
    <3> QED BY <3>1, <3>2 DEF x
  <2> QED BY <1>1, <2>1 DEF Good, OwnedThere, x
<1>6. Descent(H2)
  BY <1>1 DEF Good, Descent
<1>7. Leaves(H2)
  BY <1>1 DEF Good, Leaves
<1>8. Traced(H2, K)
  <2> SUFFICES ASSUME NEW h \in K, NEW k \in K, IsRef(H2[h].ty), ~IsRef(H2[k].ty), H2[h].st = H2[k].st
               PROVE  FromRoot(H2, h, k) \/ FromRegion(H2, h, k)
    BY DEF Traced
  <2>1. h \in L /\ H2[h] = H[h]
    BY <1>2 DEF K
  <2>2. CASE k \in L
    <3>1. FromRoot(H, h, k) \/ FromRegion(H, h, k)
      BY <1>2, <2>1, <2>2 DEF Good, Traced
    <3> QED BY <2>1, <2>2, <3>1, AddedSees
  <2>3. CASE k = q
    <3>1. Again(H, L, a, x)
      BY <1>2, <1>3, <2>1, <2>3 DEF x
    <3>2. a \in L /\ H2[a] = H[a] /\ H2[a].alias = x.alias /\ H[a].ty = "agg" /\ H[a].st = H[h].st /\ x.alias # {}
      BY <1>2, <2>1, <2>3, <3>1 DEF Again, x
    <3>3. FromRoot(H, h, a) \/ FromRegion(H, h, a)
      BY <2>1, <3>2 DEF Good, Traced, IsRef
    <3>4. FromRoot(H2, h, a) \/ FromRegion(H2, h, a)
      BY <2>1, <3>2, <3>3, AddedSees
    <3>5. FromRegion(H2, h, a) => FromRegion(H2, h, k)
      BY <2>3, <3>2 DEF FromRegion, x
    <3>6. Overlap(x.alias, x.alias)
      BY <3>2 DEF Overlap, PathsMeet
    <3>7. FromRoot(H2, h, a) => FromRoot(H2, h, k)
      BY <2>3, <3>2, <3>6 DEF FromRoot, x
    <3> QED BY <3>4, <3>5, <3>7
  <2> QED BY <2>2, <2>3 DEF K
<1>9. SharedSeen(H2, K)
  <2>1. ASSUME NEW p \in L, ~IsRef(H[p].ty), H[p].st = x.st
        PROVE  Overlap(H[p].alias, x.alias) /\ Overlap(x.alias, H[p].alias)
    <3>1. Again(H, L, a, x)
      BY <1>2, <1>3, <2>1
    <3>2. a \in L /\ H[a].alias = x.alias /\ ~IsRef(H[a].ty) /\ H[a].st = x.st /\ x.alias # {}
      BY <3>1 DEF Again, IsRef
    <3>3. CASE p = a
      BY <3>2, <3>3 DEF Overlap, PathsMeet
    <3>4. CASE p # a
      <4>1. Overlap(H[p].alias, H[a].alias)
        BY <2>1, <3>2, <3>4 DEF Good, SharedSeen
      <4> QED BY <3>2, <4>1, OverlapEitherWay
    <3> QED BY <3>3, <3>4
  <2> SUFFICES ASSUME NEW p \in K, NEW r \in K, p # r, ~IsRef(H2[p].ty), ~IsRef(H2[r].ty), H2[p].st = H2[r].st
               PROVE  Overlap(H2[p].alias, H2[r].alias)
    BY DEF SharedSeen
  <2>2. CASE p \in L /\ r \in L
    BY <1>2, <2>2 DEF Good, SharedSeen
  <2>3. CASE p = q /\ r \in L
    BY <1>2, <2>1, <2>3 DEF x
  <2>4. CASE r = q /\ p \in L
    BY <1>2, <2>1, <2>4 DEF x
  <2> QED BY <2>2, <2>3, <2>4 DEF K
<1>10. SoleOwner(H2, K)
  <2> SUFFICES ASSUME NEW h \in K, NEW k \in K, H2[h].ty = "mut", ~IsRef(H2[k].ty), H2[h].st = H2[k].st
               PROVE  /\ (H2[h].deriv # Nothing /\ k = InName(H2[h].deriv.root)) \/ (IsSlot(k) /\ FromRegion(H2, h, k))
                      /\ \A j \in K : ~IsRef(H2[j].ty) /\ H2[j].st = H2[h].st => j = k
    BY DEF SoleOwner
  <2>1. h \in L /\ H2[h] = H[h]
    BY <1>2 DEF K, IsRef
  <2>2. H[h].st # x.st
    BY <1>2, <1>3, <2>1 DEF Again
  <2>3. k \in L /\ H2[k] = H[k]
    BY <1>2, <2>1, <2>2 DEF K, x
  <2>4. /\ (H[h].deriv # Nothing /\ k = InName(H[h].deriv.root)) \/ (IsSlot(k) /\ FromRegion(H, h, k))
        /\ \A j \in L : ~IsRef(H[j].ty) /\ H[j].st = H[h].st => j = k
    BY <2>1, <2>3 DEF Good, SoleOwner
  <2>5. \A j \in K : ~IsRef(H2[j].ty) /\ H2[j].st = H2[h].st => j = k
    BY <1>2, <2>1, <2>2, <2>4 DEF K, x
  <2> QED BY <2>1, <2>3, <2>4, <2>5, AddedSees
<1>11. Apart(H2, K)
  <2> SUFFICES ASSUME NEW h \in K, NEW k \in K, h # k, H2[h].ty = "mut", IsRef(H2[k].ty), H2[h].st = H2[k].st,
                      PathsMeet(H2[h].path, H2[k].path)
               PROVE  Lent(H2, h, k) \/ Lent(H2, k, h)
    BY DEF Apart
  <2>1. h \in L /\ H2[h] = H[h] /\ k \in L /\ H2[k] = H[k]
    BY <1>2 DEF K, IsRef
  <2>2. Lent(H, h, k) \/ Lent(H, k, h)
    BY <2>1 DEF Good, Apart
  <2> QED BY <2>1, <2>2, AddedSees
<1>12. Suspended(H2, K)
  <2> SUFFICES ASSUME NEW h \in K, H2[h].ty = "mut", NEW n \in H2[h].via, InName(n) \in K
               PROVE  H2[h].deriv # Nothing /\ H2[h].deriv.reborrow /\ H2[h].deriv.place = n
    BY DEF Suspended
  <2>1. h \in L /\ H2[h] = H[h] /\ InName(n) \in L
    BY <1>2 DEF K, IsRef, Added
  <2> QED BY <2>1 DEF Good, Suspended
<1>13. Reaching(H2, K, g)
  BY <1>2 DEF Good, Reaching, K
<1> QED BY <1>4, <1>5, <1>6, <1>7, <1>8, <1>9, <1>10, <1>11, <1>12, <1>13 DEF Good, K

\* A reference may be added that leads to every owned value of its storage, that
\* is the only way to it if it writes, and that everything else is lent to.
Leads(H, L, H2, q) ==
  \A k \in L : ~IsRef(H[k].ty) /\ H[k].st = H2[q].st => FromRoot(H2, q, k) \/ FromRegion(H2, q, k)
Alone(H, L, H2, q) ==
  \A k \in L : ~IsRef(H[k].ty) /\ H[k].st = H2[q].st =>
    /\ (H2[q].deriv # Nothing /\ k = InName(H2[q].deriv.root)) \/ (IsSlot(k) /\ FromRegion(H2, q, k))
    /\ \A j \in L : ~IsRef(H[j].ty) /\ H[j].st = H2[q].st => j = k
Unrivalled(H, L, H2, q) ==
  \A k \in L : IsRef(H[k].ty) /\ H[k].st = H2[q].st /\ PathsMeet(H[k].path, H2[q].path) /\ "mut" \in {H[k].ty, H2[q].ty}
               => Lent(H2, k, q)

LEMMA AddReference ==
  ASSUME NEW H, NEW L, NEW g, NEW q, NEW H2, L \subseteq DOMAIN H, Good(H, L, g), Added(H, q, H2),
         IsRef(H2[q].ty), H2[q].leaf <=> H2[q].path # Whole,
         \A n \in H2[q].via : InName(n) \in DOMAIN H /\ H[InName(n)].ty = H2[q].ty,
         Leads(H, L, H2, q), H2[q].ty = "mut" => Alone(H, L, H2, q), Unrivalled(H, L, H2, q),
         H2[q].ty = "mut" => \A n \in H2[q].via : InName(n) \in L =>
           H2[q].deriv # Nothing /\ H2[q].deriv.reborrow /\ H2[q].deriv.place = n,
         H2[q].st \notin g
  PROVE  Good(H2, L \cup {q}, g)
<1> DEFINE K == L \cup {q}
<1>1. q \notin DOMAIN H /\ DOMAIN H2 = DOMAIN H \cup {q} /\ \A p \in DOMAIN H : H2[p] = H[p]
  BY DEF Added
<1>2. \A p \in L : p \in DOMAIN H /\ H2[p] = H[p] /\ p # q
  BY <1>1
<1> HIDE DEF K
<1>3. LinearAlone(H2)
  BY <1>1 DEF Good, LinearAlone, IsRef
<1>4. OwnedThere(H2, g)
  BY <1>1 DEF Good, OwnedThere
<1>5. Descent(H2)
  BY <1>1 DEF Good, Descent
<1>6. Leaves(H2)
  BY <1>1 DEF Good, Leaves
<1>7. Traced(H2, K)
  <2> SUFFICES ASSUME NEW h \in K, NEW k \in K, IsRef(H2[h].ty), ~IsRef(H2[k].ty), H2[h].st = H2[k].st
               PROVE  FromRoot(H2, h, k) \/ FromRegion(H2, h, k)
    BY DEF Traced
  <2>1. k \in L /\ H2[k] = H[k]
    BY <1>2 DEF K
  <2>2. CASE h = q
    BY <2>1, <2>2 DEF Leads
  <2>3. CASE h \in L
    BY <1>2, <2>1, <2>3, AddedSees DEF Good, Traced
  <2> QED BY <2>2, <2>3 DEF K
<1>8. SharedSeen(H2, K)
  BY <1>2 DEF Good, SharedSeen, K
<1>9. SoleOwner(H2, K)
  <2> SUFFICES ASSUME NEW h \in K, NEW k \in K, H2[h].ty = "mut", ~IsRef(H2[k].ty), H2[h].st = H2[k].st
               PROVE  /\ (H2[h].deriv # Nothing /\ k = InName(H2[h].deriv.root)) \/ (IsSlot(k) /\ FromRegion(H2, h, k))
                      /\ \A j \in K : ~IsRef(H2[j].ty) /\ H2[j].st = H2[h].st => j = k
    BY DEF SoleOwner
  <2>1. k \in L /\ H2[k] = H[k]
    BY <1>2 DEF K
  <2>2. CASE h = q
    <3>1. /\ (H2[q].deriv # Nothing /\ k = InName(H2[q].deriv.root)) \/ (IsSlot(k) /\ FromRegion(H2, q, k))
          /\ \A j \in L : ~IsRef(H[j].ty) /\ H[j].st = H2[q].st => j = k
      BY <2>1, <2>2 DEF Alone
    <3> QED BY <1>2, <2>2, <3>1 DEF K
  <2>3. CASE h \in L
    <3>1. /\ (H[h].deriv # Nothing /\ k = InName(H[h].deriv.root)) \/ (IsSlot(k) /\ FromRegion(H, h, k))
          /\ \A j \in L : ~IsRef(H[j].ty) /\ H[j].st = H[h].st => j = k
      BY <1>2, <2>1, <2>3 DEF Good, SoleOwner
    <3> QED BY <1>2, <2>1, <2>3, <3>1, AddedSees DEF K
  <2> QED BY <2>2, <2>3 DEF K
<1>10. Apart(H2, K)
  <2> SUFFICES ASSUME NEW h \in K, NEW k \in K, h # k, H2[h].ty = "mut", IsRef(H2[k].ty), H2[h].st = H2[k].st,
                      PathsMeet(H2[h].path, H2[k].path)
               PROVE  Lent(H2, h, k) \/ Lent(H2, k, h)
    BY DEF Apart
  <2>1. CASE h \in L /\ k \in L
    BY <1>2, <2>1, AddedSees, ZenonT(40) DEF Good, Apart
  <2>2. CASE h = q /\ k \in L
    <3>1. PathsMeet(H2[k].path, H2[h].path)
      BY DEF PathsMeet
    <3> QED BY <1>2, <2>2, <3>1 DEF Unrivalled
  <2>3. CASE k = q /\ h \in L
    BY <1>2, <2>3 DEF Unrivalled, IsRef
  <2> QED BY <2>1, <2>2, <2>3 DEF K
<1>11. Suspended(H2, K)
  <2> SUFFICES ASSUME NEW h \in K, H2[h].ty = "mut", NEW n \in H2[h].via, InName(n) \in K
               PROVE  H2[h].deriv # Nothing /\ H2[h].deriv.reborrow /\ H2[h].deriv.place = n
    BY DEF Suspended
  <2>1. InName(n) \in L
    BY DEF K, Added
  <2>2. CASE h \in L
    BY <1>2, <2>1, <2>2 DEF Good, Suspended
  <2> QED BY <2>1, <2>2 DEF K
<1>12. Reaching(H2, K, g)
  BY <1>2 DEF Good, Reaching, K
<1> QED BY <1>3, <1>4, <1>5, <1>6, <1>7, <1>8, <1>9, <1>10, <1>11, <1>12 DEF Good, K
-----------------------------------------------------------------------------
(* What is held at each position, and what the guards of the terms say of it. *)

LEMMA Places ==
  /\ \A k : IsSlot(InSlot(k)) /\ InSlot(k)[2] = k
  /\ \A n : ~IsSlot(InName(n)) /\ InName(n)[2] = n
  /\ \A k, n : InSlot(k) # InName(n)
  /\ \A k, j : InSlot(k) = InSlot(j) => k = j
  /\ \A m, n : InName(m) = InName(n) => m = n
<1>1. \A k : IsSlot(InSlot(k)) /\ InSlot(k)[2] = k
  BY DEF InSlot, IsSlot
<1>2. \A n : ~IsSlot(InName(n)) /\ InName(n)[2] = n
  BY DEF InName, IsSlot
<1> QED BY <1>1, <1>2

LEMMA HeldIs ==
  ASSUME NEW s, NEW v
  PROVE  /\ Held(s, v).ty = s.ty /\ Held(s, v).leaf = s.leaf /\ Held(s, v).alias = s.alias /\ Held(s, v).deriv = s.deriv
         /\ Held(s, v).st = v.st /\ Held(s, v).path = v.path /\ Held(s, v).via = v.via
BY DEF Held

LEMMA PositionsAre ==
  ASSUME NEW stk, NEW e
  PROVE  /\ \A k : InSlot(k) \in Positions(stk, e) <=> k \in DOMAIN stk
         /\ \A n : InName(n) \in Positions(stk, e) <=> n \in Names /\ e[n] # Nothing
         /\ \A p \in Positions(stk, e) : \/ \E k \in DOMAIN stk : p = InSlot(k)
                                         \/ \E n \in Names : e[n] # Nothing /\ p = InName(n)
<1>1. \A p : p \in Positions(stk, e) <=> \/ \E k \in DOMAIN stk : p = InSlot(k)
                                         \/ \E n \in Names : e[n] # Nothing /\ p = InName(n)
  BY DEF Positions
<1> QED BY <1>1, Places

LEMMA HoldingIs ==
  ASSUME NEW stk, NEW bnd, NEW vs, NEW e
  PROVE  /\ DOMAIN Holding(stk, bnd, vs, e) = Positions(stk, e)
         /\ \A k \in DOMAIN stk : Holding(stk, bnd, vs, e)[InSlot(k)] = Held(stk[k], vs[k])
         /\ \A n \in Names : e[n] # Nothing => Holding(stk, bnd, vs, e)[InName(n)] = Held(bnd[n], e[n])
<1>1. DOMAIN Holding(stk, bnd, vs, e) = Positions(stk, e)
  BY DEF Holding
<1>2. \A p \in Positions(stk, e) :
        Holding(stk, bnd, vs, e)[p] = IF IsSlot(p) THEN Held(stk[p[2]], vs[p[2]]) ELSE Held(bnd[p[2]], e[p[2]])
  BY DEF Holding
<1>3. \A k \in DOMAIN stk : Holding(stk, bnd, vs, e)[InSlot(k)] = Held(stk[k], vs[k])
  BY <1>2, PositionsAre, Places
<1>4. \A n \in Names : e[n] # Nothing => Holding(stk, bnd, vs, e)[InName(n)] = Held(bnd[n], e[n])
  BY <1>2, PositionsAre, Places
<1> QED BY <1>1, <1>3, <1>4

LEMMA UsableAre ==
  ASSUME NEW stk, NEW e, NEW dn, NEW mv
  PROVE  /\ Usable(stk, e, dn, mv) \subseteq Positions(stk, e)
         /\ \A k : InSlot(k) \in Usable(stk, e, dn, mv) <=> k \in DOMAIN stk
         /\ \A n : InName(n) \in Usable(stk, e, dn, mv) <=> n \in Names /\ e[n] # Nothing /\ n \notin dn \cup mv
BY PositionsAre, Places DEF Usable

\* What a step starts from.
HeldNow == Holding(stack, bound, vals, env)
LiveNow == Usable(stack, env, done, moved)
Fit == BoundOK /\ StackOK(stack, bound) /\ MovedOK(moved, bound) /\ vals \in Seq(Values) /\ env \in [Names -> Values \cup {Nothing}]
Running == Fit /\ Executing /\ Agrees(stack, bound, done, moved, vals, env, gone)

LEMMA RunningIs ==
  ASSUME BorrowAssumption, Running
  PROVE  /\ Good(HeldNow, LiveNow, gone) /\ LiveNow \subseteq DOMAIN HeldNow /\ gone \subseteq StoragesInUse(vals, env)
         /\ Len(vals) = Len(stack) /\ DOMAIN vals = 1..Len(stack) /\ DOMAIN stack = 1..Len(stack) /\ Len(stack) \in Nat
         /\ \A k \in DOMAIN stack : SlotOK(stack[k], bound) /\ stack[k] \in Slots /\ vals[k] \in Values /\ vals[k].ty = stack[k].ty
         /\ \A n \in Names : env[n] # Nothing =>
              n \in Scoped /\ BindingOK(bound[n], bound) /\ bound[n] \in Bindings /\ env[n] \in Values /\ env[n].ty = bound[n].ty
         /\ \A n \in Scoped \ moved : n \in Names /\ env[n] # Nothing
<1>1. Good(HeldNow, LiveNow, gone) /\ gone \subseteq StoragesInUse(vals, env)
  BY DEF Running, Agrees, HeldNow, LiveNow
<1>2. LiveNow \subseteq DOMAIN HeldNow
  BY UsableAre, HoldingIs DEF LiveNow, HeldNow
<1>3. Len(vals) = Len(stack) /\ stack \in Seq(Slots) /\ vals \in Seq(Values)
  BY DEF Running, Agrees, Fit, StackOK
<1>4. Len(vals) = Len(stack) /\ DOMAIN vals = 1..Len(stack) /\ DOMAIN stack = 1..Len(stack) /\ Len(stack) \in Nat
  BY <1>3
<1>5. ASSUME NEW k \in DOMAIN stack
      PROVE  SlotOK(stack[k], bound) /\ stack[k] \in Slots /\ vals[k] \in Values /\ vals[k].ty = stack[k].ty
  <2>1. SlotOK(stack[k], bound) /\ vals[k].ty = stack[k].ty
    BY DEF Running, Agrees, Fit, StackOK
  <2>2. stack[k] \in Slots /\ vals[k] \in Values
    BY <1>3, <1>4
  <2> QED BY <2>1, <2>2
<1>6. ASSUME NEW n \in Names, env[n] # Nothing
      PROVE  n \in Scoped /\ BindingOK(bound[n], bound) /\ bound[n] \in Bindings /\ env[n] \in Values /\ env[n].ty = bound[n].ty
  <2>1. bound[n] # Nothing /\ env[n].ty = bound[n].ty
    BY <1>6 DEF Running, Agrees
  <2>2. BindingOK(bound[n], bound) /\ bound[n] \in Bindings
    BY <2>1 DEF Running, Fit, BoundOK
  <2>3. env[n] \in Values
    BY <1>6 DEF Running, Fit
  <2> QED BY <2>1, <2>2, <2>3 DEF Scoped
<1>7. \A n \in Scoped \ moved : n \in Names /\ env[n] # Nothing
  BY DEF Scoped, Running, Agrees
<1> QED BY <1>1, <1>2, <1>4, <1>5, <1>6, <1>7

LEMMA HeldHere ==
  /\ \A k \in DOMAIN stack : /\ InSlot(k) \in LiveNow /\ InSlot(k) \in DOMAIN HeldNow
                             /\ HeldNow[InSlot(k)] = Held(stack[k], vals[k])
  /\ \A n \in Names : env[n] # Nothing =>
       /\ InName(n) \in DOMAIN HeldNow /\ HeldNow[InName(n)] = Held(bound[n], env[n])
       /\ n \notin done \cup moved => InName(n) \in LiveNow
  /\ \A k : InSlot(k) \in DOMAIN HeldNow => k \in DOMAIN stack
  /\ \A n : InName(n) \in DOMAIN HeldNow => n \in Names /\ env[n] # Nothing
  /\ \A n : InName(n) \in LiveNow => n \in Names /\ env[n] # Nothing /\ n \notin done \cup moved
  /\ \A p \in DOMAIN HeldNow : \/ \E k \in DOMAIN stack : p = InSlot(k)
                               \/ \E n \in Names : env[n] # Nothing /\ p = InName(n)
BY PositionsAre, HoldingIs, UsableAre DEF HeldNow, LiveNow

\* Of what kind a value is by what it is held as.
LEMMA HeldKinds ==
  ASSUME BorrowAssumption, Running, NEW p \in DOMAIN HeldNow
  PROVE  /\ HeldNow[p].st \in Ids /\ HeldNow[p].via \subseteq Names
         /\ IF IsRef(HeldNow[p].ty)
            THEN /\ HeldNow[p].alias \subseteq Ids \X Fields /\ (~IsSlot(p) => HeldNow[p].alias = {})
                 /\ HeldNow[p].deriv # Nothing =>
                      /\ HeldNow[p].deriv \in Derivs
                      /\ HeldNow[p].deriv.mutable <=> HeldNow[p].ty = "mut"
                      /\ HeldNow[p].deriv.root = Nothing \/ HeldNow[p].deriv.root \in Scoped
            ELSE HeldNow[p].alias \subseteq Ids \X {Whole} /\ HeldNow[p].deriv = Nothing /\ (~IsSlot(p) => HeldNow[p].alias # {})
<1>1. CASE \E k \in DOMAIN stack : p = InSlot(k)
  <2>1. PICK k \in DOMAIN stack : p = InSlot(k)
    BY <1>1
  <2>2. SlotOK(stack[k], bound) /\ vals[k] \in Values /\ HeldNow[p] = Held(stack[k], vals[k]) /\ IsSlot(p)
    BY <2>1, RunningIs, HeldHere, Places
  <2>3. vals[k].st \in Ids /\ vals[k].via \subseteq Names
    BY <2>2 DEF Values
  <2>4. IF IsRef(stack[k].ty)
        THEN /\ stack[k].alias \subseteq Ids \X Fields
             /\ stack[k].deriv # Nothing => /\ stack[k].deriv \in Derivs /\ (stack[k].deriv.mutable <=> stack[k].ty = "mut")
                                            /\ stack[k].deriv.root = Nothing \/ bound[stack[k].deriv.root] # Nothing
        ELSE stack[k].alias \subseteq Ids \X {Whole} /\ stack[k].deriv = Nothing
    BY <2>2 DEF SlotOK
  <2>5. stack[k].deriv # Nothing /\ IsRef(stack[k].ty) => stack[k].deriv.root = Nothing \/ stack[k].deriv.root \in Scoped
    BY <2>4 DEF Scoped, Derivs
  <2> QED BY <2>2, <2>3, <2>4, <2>5, HeldIs
<1>2. CASE \E n \in Names : env[n] # Nothing /\ p = InName(n)
  <2>1. PICK n \in Names : env[n] # Nothing /\ p = InName(n)
    BY <1>2
  <2>2. BindingOK(bound[n], bound) /\ env[n] \in Values /\ HeldNow[p] = Held(bound[n], env[n]) /\ ~IsSlot(p)
    BY <2>1, RunningIs, HeldHere, Places
  <2>3. env[n].st \in Ids /\ env[n].via \subseteq Names
    BY <2>2 DEF Values
  <2>4. IF IsRef(bound[n].ty)
        THEN /\ bound[n].alias \subseteq Ids \X Fields /\ bound[n].alias = {}
             /\ bound[n].deriv # Nothing => /\ bound[n].deriv \in Derivs /\ (bound[n].deriv.mutable <=> bound[n].ty = "mut")
                                            /\ bound[n].deriv.root = Nothing \/ bound[bound[n].deriv.root] # Nothing
        ELSE bound[n].alias \subseteq Ids \X {Whole} /\ bound[n].deriv = Nothing /\ bound[n].alias # {}
    BY <2>2 DEF SlotOK, BindingOK
  <2>5. bound[n].deriv # Nothing /\ IsRef(bound[n].ty) => bound[n].deriv.root = Nothing \/ bound[n].deriv.root \in Scoped
    BY <2>4 DEF Scoped, Derivs
  <2> QED BY <2>2, <2>3, <2>4, <2>5, HeldIs
<1> QED BY <1>1, <1>2, HeldHere

LEMMA LiveDerivation ==
  ASSUME BorrowAssumption, Running, NEW h \in LiveNow, HeldNow[h].deriv # Nothing
  PROVE  HeldNow[h].deriv \in LiveDerivs
<1>1. h \in DOMAIN HeldNow
  BY RunningIs
<1>2. CASE \E k \in DOMAIN stack : h = InSlot(k)
  <2>1. PICK k \in DOMAIN stack : h = InSlot(k)
    BY <1>2
  <2>2. HeldNow[h].deriv = stack[k].deriv
    BY <2>1, HeldHere, HeldIs
  <2> QED BY <2>2 DEF LiveDerivs, SlotsOf
<1>3. CASE \E n \in Names : env[n] # Nothing /\ h = InName(n)
  <2>1. PICK n \in Names : env[n] # Nothing /\ h = InName(n)
    BY <1>3
  <2>2. HeldNow[h].deriv = bound[n].deriv /\ n \in Scoped /\ n \notin done
    BY <2>1, HeldHere, HeldIs, RunningIs
  <2> QED BY <2>2 DEF LiveDerivs, LiveNames
<1> QED BY <1>1, <1>2, <1>3, HeldHere

LEMMA SeenElsewhere ==
  ASSUME BorrowAssumption, Running, NEW p \in LiveNow, NEW alias, NEW names, NEW slots, Overlap(alias, HeldNow[p].alias),
         \A n \in Names : p = InName(n) => n \in names, \A k \in DOMAIN stack : p = InSlot(k) => stack[k] \in slots
  PROVE  AliasedElsewhere(alias, names, slots)
<1>1. p \in DOMAIN HeldNow
  BY RunningIs
<1>2. CASE \E k \in DOMAIN stack : p = InSlot(k)
  <2>1. PICK k \in DOMAIN stack : p = InSlot(k)
    BY <1>2
  <2>2. HeldNow[p].alias = stack[k].alias /\ stack[k] \in slots
    BY <2>1, HeldHere, HeldIs
  <2> QED BY <2>2 DEF AliasedElsewhere
<1>3. CASE \E n \in Names : env[n] # Nothing /\ p = InName(n)
  <2>1. PICK n \in Names : env[n] # Nothing /\ p = InName(n)
    BY <1>3
  <2>2. HeldNow[p].alias = bound[n].alias /\ n \in Scoped /\ n \notin done /\ n \notin moved /\ n \in names
    BY <2>1, HeldHere, HeldIs, RunningIs
  <2> QED BY <2>2 DEF AliasedElsewhere, LiveNames
<1> QED BY <1>1, <1>2, <1>3, HeldHere

LEMMA SeenReference ==
  ASSUME BorrowAssumption, Running, NEW p \in LiveNow, NEW alias, NEW mutable \in BOOLEAN, NEW slots,
         Overlap(alias, HeldNow[p].alias), IsRef(HeldNow[p].ty), mutable \/ HeldNow[p].ty = "mut",
         \A k \in DOMAIN stack : p = InSlot(k) => stack[k] \in slots
  PROVE  ReferenceInto(alias, mutable, slots)
<1>1. p \in DOMAIN HeldNow
  BY RunningIs
<1>2. CASE \E k \in DOMAIN stack : p = InSlot(k)
  <2>1. PICK k \in DOMAIN stack : p = InSlot(k)
    BY <1>2
  <2>2. HeldNow[p].alias = stack[k].alias /\ HeldNow[p].ty = stack[k].ty /\ stack[k] \in slots
    BY <2>1, HeldHere, HeldIs
  <2> QED BY <2>2 DEF ReferenceInto
<1>3. CASE \E n \in Names : env[n] # Nothing /\ p = InName(n)
  <2>1. PICK n \in Names : env[n] # Nothing /\ p = InName(n)
    BY <1>3
  <2>2. HeldNow[p].alias = bound[n].alias /\ HeldNow[p].ty = bound[n].ty /\ n \in Scoped /\ n \notin done
    BY <2>1, HeldHere, HeldIs, RunningIs
  <2> QED BY <2>2 DEF ReferenceInto, LiveNames
<1> QED BY <1>1, <1>2, <1>3, HeldHere

LEMMA SeenBorrowed ==
  ASSUME BorrowAssumption, Running, NEW h \in LiveNow, NEW alias, IsRef(HeldNow[h].ty), HeldNow[h].deriv # Nothing,
         InName(HeldNow[h].deriv.root) \in DOMAIN HeldNow,
         Overlap(alias, HeldNow[InName(HeldNow[h].deriv.root)].alias)
  PROVE  BorrowedAs(alias)
<1>1. HeldNow[h].deriv \in LiveDerivs
  BY LiveDerivation
<1>2. PICK n : n = HeldNow[h].deriv.root
  OBVIOUS
<1>3. n \in Names /\ env[n] # Nothing
  BY <1>2, HeldHere
<1>4. n \in Scoped /\ HeldNow[InName(n)].alias = bound[n].alias
  BY <1>3, HeldHere, HeldIs, RunningIs
<1> QED BY <1>1, <1>2, <1>4 DEF BorrowedAs
-----------------------------------------------------------------------------
(* A step on the stack, as far as the agreement goes.                        *)

\* less may be used from now on
LEMMA Dies ==
  ASSUME NEW stk, NEW bnd, NEW dn, NEW mv, NEW vs, NEW e, NEW g, NEW dn2, NEW mv2,
         Agrees(stk, bnd, dn, mv, vs, e, g), dn \subseteq dn2, mv \subseteq mv2
  PROVE  Agrees(stk, bnd, dn2, mv2, vs, e, g)
<1> DEFINE H == Holding(stk, bnd, vs, e)
           L == Usable(stk, e, dn, mv)
           L2 == Usable(stk, e, dn2, mv2)
           phi == [p \in DOMAIN H |-> p]
<1>1. L2 \subseteq L /\ L \subseteq DOMAIN H
  BY UsableAre, HoldingIs DEF Usable
<1>2. Good(H, L, g)
  BY DEF Agrees
<1> HIDE DEF H, L, L2
<1>3. \A p \in DOMAIN H : phi[p] = p
  OBVIOUS
<1>4. phi \in [DOMAIN H -> DOMAIN H]
  OBVIOUS
<1> HIDE DEF phi
<1>5. \A p \in DOMAIN H : SameValue(H, H, phi, p)
  BY <1>2, <1>3 DEF SameValue, Good, Descent
<1>6. \A p \in L2 : SameReference(H, H, L2, phi, p)
  BY <1>1, <1>3 DEF SameReference, KeepsPlaces
<1>7. Carried(H, L, g, H, L2, g, phi)
  BY <1>1, <1>2, <1>3, <1>4, <1>5, <1>6 DEF Carried, Good
<1>8. Good(H, L2, g)
  BY <1>1, <1>2, <1>7, Transfer
<1> QED BY <1>8 DEF Agrees, H, L2

LEMMA Pushed ==
  ASSUME NEW stk \in Seq(Slots), NEW vs \in Seq(Values), NEW s \in Slots, NEW v \in Values, Len(vs) = Len(stk),
         NEW bnd, NEW e, NEW q, q = InSlot(Len(stk) + 1), NEW H, H = Holding(stk, bnd, vs, e),
         NEW H2, H2 = Holding(Append(stk, s), bnd, Append(vs, v), e)
  PROVE  Added(H, q, H2) /\ H2[q] = Held(s, v)
<1> DEFINE stk2 == Append(stk, s)
           vs2 == Append(vs, v)
<1>1. /\ DOMAIN stk = 1..Len(stk) /\ DOMAIN vs = 1..Len(stk) /\ Len(stk) \in Nat
      /\ DOMAIN stk2 = DOMAIN stk \cup {Len(stk) + 1} /\ Len(stk) + 1 \notin DOMAIN stk
      /\ \A k \in DOMAIN stk : stk2[k] = stk[k] /\ vs2[k] = vs[k]
      /\ stk2[Len(stk) + 1] = s /\ vs2[Len(stk) + 1] = v
  OBVIOUS
<1>2. H2 = Holding(stk2, bnd, vs2, e)
  OBVIOUS
<1> HIDE DEF stk2, vs2
<1>3. q \notin DOMAIN H
  BY <1>1, HoldingIs, PositionsAre
<1>4. DOMAIN H2 = DOMAIN H \cup {q}
  <2>1. Positions(stk2, e) = Positions(stk, e) \cup {q}
    BY <1>1 DEF Positions
  <2> QED BY <1>2, <2>1, HoldingIs, ZenonT(40)
<1>5. H2[q] = Held(s, v)
  BY <1>2, <1>1, HoldingIs
<1>6. ASSUME NEW p \in DOMAIN H PROVE H2[p] = H[p]
  <2>1. p \in Positions(stk, e)
    BY HoldingIs
  <2>2. CASE \E k \in DOMAIN stk : p = InSlot(k)
    <3>1. PICK k \in DOMAIN stk : p = InSlot(k)
      BY <2>2
    <3>2. H[p] = Held(stk[k], vs[k])
      BY <3>1, HoldingIs
    <3>3. H2[p] = Held(stk2[k], vs2[k])
      BY <1>2, <1>1, <3>1, HoldingIs
    <3> QED BY <1>1, <3>2, <3>3
  <2>3. CASE \E n \in Names : e[n] # Nothing /\ p = InName(n)
    BY <2>3, HoldingIs
  <2> QED BY <2>1, <2>2, <2>3, PositionsAre
<1>7. \A n : q # InName(n)
  BY Places
<1> QED BY <1>3, <1>4, <1>5, <1>6, <1>7 DEF Added

LEMMA PushedUsable ==
  ASSUME NEW stk \in Seq(Slots), NEW s \in Slots, NEW dn, NEW mv, NEW e
  PROVE  Usable(Append(stk, s), e, dn, mv) = Usable(stk, e, dn, mv) \cup {InSlot(Len(stk) + 1)}
<1>1. DOMAIN Append(stk, s) = DOMAIN stk \cup {Len(stk) + 1}
  OBVIOUS
<1>2. Positions(Append(stk, s), e) = Positions(stk, e) \cup {InSlot(Len(stk) + 1)} /\ IsSlot(InSlot(Len(stk) + 1))
  BY <1>1, Places DEF Positions
<1> QED BY <1>2 DEF Usable

LEMMA PushedAgrees ==
  ASSUME NEW stk \in Seq(Slots), NEW vs \in Seq(Values), NEW s \in Slots, NEW v \in Values, v.ty = s.ty,
         NEW bnd, NEW dn, NEW mv, NEW e, NEW g, Agrees(stk, bnd, dn, mv, vs, e, g),
         Good(Holding(Append(stk, s), bnd, Append(vs, v), e), Usable(stk, e, dn, mv) \cup {InSlot(Len(stk) + 1)}, g)
  PROVE  Agrees(Append(stk, s), bnd, dn, mv, Append(vs, v), e, g)
<1> DEFINE stk2 == Append(stk, s)
           vs2 == Append(vs, v)
<1>1. Len(vs) = Len(stk) /\ \A k \in DOMAIN stk : vs[k].ty = stk[k].ty
  BY DEF Agrees
<1>2. /\ Len(vs2) = Len(stk2)
      /\ \A k \in DOMAIN stk2 : \/ k \in DOMAIN stk /\ stk2[k] = stk[k] /\ vs2[k] = vs[k]
                                \/ stk2[k] = s /\ vs2[k] = v
      /\ \A k \in DOMAIN vs : k \in DOMAIN vs2 /\ vs2[k] = vs[k]
  BY <1>1
<1> HIDE DEF stk2, vs2
<1>3. Usable(stk2, e, dn, mv) = Usable(stk, e, dn, mv) \cup {InSlot(Len(stk) + 1)}
  BY PushedUsable DEF stk2
<1>4. StoragesInUse(vs, e) \subseteq StoragesInUse(vs2, e)
  BY <1>2 DEF StoragesInUse, SlotsOf
<1>5. \A k \in DOMAIN stk2 : vs2[k].ty = stk2[k].ty
  BY <1>1, <1>2
<1>6. g \subseteq StoragesInUse(vs2, e)
  BY <1>4 DEF Agrees
<1>7. Good(Holding(stk2, bnd, vs2, e), Usable(stk2, e, dn, mv), g)
  BY <1>3 DEF stk2, vs2
<1> QED BY <1>2, <1>5, <1>6, <1>7 DEF Agrees, stk2, vs2

LEMMA LeastOfNaturals ==
  ASSUME NEW S \in SUBSET Nat, S # {}
  PROVE  \E n \in S : \A k \in S : n <= k
<1> DEFINE Below2 == OpToRel(<, Nat)
<1>1. IsWellFoundedOn(Below2, Nat)
  BY NatLessThanWellFounded
<1>2. PICK n \in S : \A k \in S : <<k, n>> \notin Below2
  <2> HIDE DEF Below2
  <2> QED BY <1>1, WFMin
<1>3. \A k \in S : ~(k < n)
  BY <1>2 DEF OpToRel
<1> QED BY <1>3

LEMMA LeastIsIn ==
  ASSUME NEW S \in SUBSET Ids, S # {}, BorrowAssumption
  PROVE  Min(S) \in S
<1>1. S \subseteq Nat
  BY DEF Ids
<1>2. \E n \in S : \A k \in S : n <= k
  BY <1>1, LeastOfNaturals
<1> QED BY <1>2 DEF Min

LEMMA Executed ==
  ASSUME Running, NEW vs, NEW e, NEW d, Execute(vs, e, d)
  PROVE  vals' = vs /\ env' = e /\ gone' = (gone \cup d) \cap StoragesInUse(vs, e)
BY DEF Execute, Running

\* what is held is in use
LEMMA HeldInUse ==
  ASSUME BorrowAssumption, Running, NEW p \in DOMAIN HeldNow
  PROVE  HeldNow[p].st \in StoragesInUse(vals, env)
<1>1. CASE \E k \in DOMAIN stack : p = InSlot(k)
  BY <1>1, HeldHere, HeldIs, RunningIs DEF StoragesInUse, SlotsOf
<1>2. CASE \E n \in Names : env[n] # Nothing /\ p = InName(n)
  <2>1. PICK n \in Names : env[n] # Nothing /\ p = InName(n)
    BY <1>2
  <2>2. HeldNow[p].st = env[n].st
    BY <2>1, HeldHere, HeldIs
  <2> QED BY <2>1, <2>2 DEF StoragesInUse
<1> QED BY <1>1, <1>2, HeldHere

\* One slot more, above stk: what is to be shown of it, and what follows.
LEMMA PushOwned ==
  ASSUME BorrowAssumption, Running, NEW stk \in Seq(Slots), Agrees(stk, bound, done, moved, vals, env, gone),
         NEW s \in Slots, NEW v \in Values, v.ty = s.ty, ~IsRef(s.ty), v.via = {}, NEW a,
         \/ Fresh(Holding(stk, bound, vals, env), gone, Held(s, v))
         \/ Again(Holding(stk, bound, vals, env), Usable(stk, env, done, moved), a, Held(s, v)),
         stack' = Append(stk, s), Execute(Append(vals, v), env, {})
  PROVE  Agrees(stack', bound, done, moved, vals', env', gone')
<1> DEFINE H == Holding(stk, bound, vals, env)
           L == Usable(stk, env, done, moved)
           H2 == Holding(Append(stk, s), bound, Append(vals, v), env)
           q == InSlot(Len(stk) + 1)
<1>1. vals \in Seq(Values) /\ Len(vals) = Len(stk) /\ Good(H, L, gone)
  BY DEF Running, Fit, Agrees
<1>2. Added(H, q, H2) /\ H2[q] = Held(s, v)
  BY <1>1, Pushed
<1>3. L \subseteq DOMAIN H
  BY UsableAre, HoldingIs
<1> HIDE DEF H, L, H2, q
<1>4. ~IsRef(H2[q].ty) /\ H2[q].via = {} /\ (Fresh(H, gone, H2[q]) \/ Again(H, L, a, H2[q]))
  BY <1>2, HeldIs DEF H, L
<1>5. Good(H2, L \cup {q}, gone)
  BY <1>1, <1>2, <1>3, <1>4, AddOwned
<1>6. Agrees(Append(stk, s), bound, done, moved, Append(vals, v), env, gone)
  BY <1>1, <1>5, PushedAgrees DEF H2, q, L
<1>7. gone \subseteq StoragesInUse(Append(vals, v), env)
  BY <1>6 DEF Agrees
<1>8. (gone \cup {}) \cap StoragesInUse(Append(vals, v), env) = gone
  BY <1>7
<1>9. vals' = Append(vals, v) /\ env' = env /\ gone' = gone
  BY <1>8, Executed
<1> QED BY <1>6, <1>9

LEMMA PushReference ==
  ASSUME BorrowAssumption, Running, NEW stk \in Seq(Slots), Agrees(stk, bound, done, moved, vals, env, gone),
         NEW s \in Slots, NEW v \in Values, v.ty = s.ty, IsRef(s.ty), s.leaf <=> v.path # Whole,
         \A n \in v.via : n \in Names /\ env[n] # Nothing /\ bound[n].ty = s.ty,
         Leads(Holding(stk, bound, vals, env), Usable(stk, env, done, moved),
               Holding(Append(stk, s), bound, Append(vals, v), env), InSlot(Len(stk) + 1)),
         s.ty = "mut" => Alone(Holding(stk, bound, vals, env), Usable(stk, env, done, moved),
                               Holding(Append(stk, s), bound, Append(vals, v), env), InSlot(Len(stk) + 1)),
         Unrivalled(Holding(stk, bound, vals, env), Usable(stk, env, done, moved),
                    Holding(Append(stk, s), bound, Append(vals, v), env), InSlot(Len(stk) + 1)),
         s.ty = "mut" => \A n \in v.via : InName(n) \in Usable(stk, env, done, moved) =>
                           s.deriv # Nothing /\ s.deriv.reborrow /\ s.deriv.place = n,
         v.st \notin gone,
         stack' = Append(stk, s), Execute(Append(vals, v), env, {})
  PROVE  Agrees(stack', bound, done, moved, vals', env', gone')
<1> DEFINE H == Holding(stk, bound, vals, env)
           L == Usable(stk, env, done, moved)
           H2 == Holding(Append(stk, s), bound, Append(vals, v), env)
           q == InSlot(Len(stk) + 1)
<1>1. vals \in Seq(Values) /\ Len(vals) = Len(stk) /\ Good(H, L, gone)
  BY DEF Running, Fit, Agrees
<1>2. Added(H, q, H2) /\ H2[q] = Held(s, v)
  BY <1>1, Pushed
<1>3. L \subseteq DOMAIN H
  BY UsableAre, HoldingIs
<1>4. \A n \in v.via : InName(n) \in DOMAIN H /\ H[InName(n)].ty = s.ty
  BY HoldingIs, PositionsAre, HeldIs, SMTT(30)
<1> HIDE DEF H, L, H2, q
<1>5. H2[q].ty = s.ty /\ H2[q].leaf = s.leaf /\ H2[q].deriv = s.deriv /\ H2[q].st = v.st /\ H2[q].path = v.path /\ H2[q].via = v.via
  BY <1>2, HeldIs
<1>6. Leads(H, L, H2, q) /\ Unrivalled(H, L, H2, q) /\ (s.ty = "mut" => Alone(H, L, H2, q))
  BY DEF H, L, H2, q
<1>7. s.ty = "mut" => \A n \in v.via : InName(n) \in L => s.deriv # Nothing /\ s.deriv.reborrow /\ s.deriv.place = n
  BY DEF L
<1>8. Good(H2, L \cup {q}, gone)
  BY <1>1, <1>2, <1>3, <1>4, <1>5, <1>6, <1>7, AddReference
<1>9. Agrees(Append(stk, s), bound, done, moved, Append(vals, v), env, gone)
  BY <1>1, <1>8, PushedAgrees DEF H2, q, L
<1>10. gone \subseteq StoragesInUse(Append(vals, v), env)
  BY <1>9 DEF Agrees
<1>11. (gone \cup {}) \cap StoragesInUse(Append(vals, v), env) = gone
  BY <1>10
<1>12. vals' = Append(vals, v) /\ env' = env /\ gone' = gone
  BY <1>11, Executed
<1> QED BY <1>9, <1>12

LEMMA PushesOwned ==
  ASSUME BorrowAssumption, Running, NEW s \in Slots, NEW v \in Values, v.ty = s.ty, ~IsRef(s.ty), v.via = {}, NEW a,
         Fresh(HeldNow, gone, Held(s, v)) \/ Again(HeldNow, LiveNow, a, Held(s, v)),
         stack' = Append(stack, s), Execute(Append(vals, v), env, {})
  PROVE  Agrees(stack', bound, done, moved, vals', env', gone')
<1>1. stack \in Seq(Slots) /\ Agrees(stack, bound, done, moved, vals, env, gone)
  BY DEF Running, Fit, StackOK
<1> QED BY <1>1, PushOwned DEF HeldNow, LiveNow

LEMMA PushesReference ==
  ASSUME BorrowAssumption, Running, NEW s \in Slots, NEW v \in Values, v.ty = s.ty, IsRef(s.ty), s.leaf <=> v.path # Whole,
         \A n \in v.via : n \in Names /\ env[n] # Nothing /\ bound[n].ty = s.ty,
         NEW H2, H2 = Holding(Append(stack, s), bound, Append(vals, v), env),
         NEW q, q = InSlot(Len(stack) + 1),
         Leads(HeldNow, LiveNow, H2, q), s.ty = "mut" => Alone(HeldNow, LiveNow, H2, q), Unrivalled(HeldNow, LiveNow, H2, q),
         s.ty = "mut" => \A n \in v.via : InName(n) \in LiveNow => s.deriv # Nothing /\ s.deriv.reborrow /\ s.deriv.place = n,
         v.st \notin gone,
         stack' = Append(stack, s), Execute(Append(vals, v), env, {})
  PROVE  Agrees(stack', bound, done, moved, vals', env', gone')
<1>1. stack \in Seq(Slots) /\ Agrees(stack, bound, done, moved, vals, env, gone)
  BY DEF Running, Fit, StackOK
<1> QED BY <1>1, PushReference DEF HeldNow, LiveNow
-----------------------------------------------------------------------------
(* The terms, one lemma each.                                                *)

LEMMA MakeAgrees ==
  ASSUME BorrowAssumption, Running, NEW ty, Make(ty)
  PROVE  Agrees(stack', bound', done', moved', vals', env', gone')
<1> DEFINE s == Slot(ty, FALSE, {}, Nothing)
           v == Value(ty, Min(FreeStorages), Whole, {})
<1>1. ty \in {"agg", "lin"} /\ FreeStorages # {} /\ stack' = Append(stack, s) /\ Execute(Append(vals, v), env, {})
      /\ UNCHANGED <<bound, done, moved>>
  BY DEF Make, Running
<1>2. Min(FreeStorages) \in Ids /\ Min(FreeStorages) \notin StoragesInUse(vals, env)
  BY <1>1, LeastIsIn DEF FreeStorages
<1>3. s \in Slots /\ v \in Values /\ s.ty = ty /\ v.ty = ty /\ v.via = {} /\ v.st = Min(FreeStorages) /\ ~IsRef(ty)
  BY <1>1, <1>2 DEF Slot, Value, Slots, Values, Types, IsRef
<1> HIDE DEF s, v
<1>4. Fresh(HeldNow, gone, Held(s, v))
  BY <1>2, <1>3, HeldInUse, HeldIs, RunningIs DEF Fresh
<1> QED BY <1>1, <1>3, <1>4, PushesOwned

\* A shared reference is copied as it is.
LEMMA CopiesReference ==
  ASSUME BorrowAssumption, Running, NEW k \in DOMAIN stack, stack[k].ty = "ref",
         stack' = Append(stack, stack[k]), Execute(Append(vals, vals[k]), env, {})
  PROVE  Agrees(stack', bound, done, moved, vals', env', gone')
<1> DEFINE p == InSlot(k)
           q == InSlot(Len(stack) + 1)
           s == stack[k]
           v == vals[k]
           H2 == Holding(Append(stack, s), bound, Append(vals, v), env)
<1>1. s \in Slots /\ v \in Values /\ v.ty = s.ty /\ HeldNow[p] = Held(s, v) /\ p \in LiveNow /\ p \in DOMAIN HeldNow
  BY RunningIs, HeldHere
<1>2. Good(HeldNow, LiveNow, gone) /\ LiveNow \subseteq DOMAIN HeldNow
  BY RunningIs
<1>3. Added(HeldNow, q, H2) /\ H2[q] = Held(s, v)
  BY <1>1, RunningIs, Pushed DEF Running, Fit, StackOK, HeldNow
<1> HIDE DEF q, H2
<1>4. IsRef(s.ty) /\ IsRef(HeldNow[p].ty) /\ H2[q] = HeldNow[p] /\ HeldNow[p].ty = "ref"
  BY <1>1, <1>3, HeldIs DEF IsRef
<1>5. \A r \in DOMAIN HeldNow : H2[r] = HeldNow[r] /\ r \in DOMAIN H2
  BY <1>3 DEF Added
<1>6. Leads(HeldNow, LiveNow, H2, q)
  <2> SUFFICES ASSUME NEW j \in LiveNow, ~IsRef(HeldNow[j].ty), HeldNow[j].st = H2[q].st
               PROVE  FromRoot(H2, q, j) \/ FromRegion(H2, q, j)
    BY DEF Leads
  <2>1. FromRoot(HeldNow, p, j) \/ FromRegion(HeldNow, p, j)
    BY <1>1, <1>2, <1>4 DEF Good, Traced
  <2> QED BY <1>2, <1>4, <1>5, <2>1 DEF FromRoot, FromRegion
<1>7. Unrivalled(HeldNow, LiveNow, H2, q)
  <2> SUFFICES ASSUME NEW j \in LiveNow, IsRef(HeldNow[j].ty), HeldNow[j].st = H2[q].st, PathsMeet(HeldNow[j].path, H2[q].path),
                      HeldNow[j].ty = "mut"
               PROVE  Lent(H2, j, q)
    BY <1>4 DEF Unrivalled
  <2>1. j # p
    BY <1>4
  <2>2. Lent(HeldNow, j, p) \/ Lent(HeldNow, p, j)
    BY <1>1, <1>2, <1>4, <2>1 DEF Good, Apart
  <2>3. ~Lent(HeldNow, p, j)
    BY Places DEF Lent
  <2> QED BY <1>4, <2>2, <2>3 DEF Lent
<1>8. \A m \in v.via : m \in Names /\ env[m] # Nothing /\ bound[m].ty = s.ty
  <2> SUFFICES ASSUME NEW m \in v.via PROVE m \in Names /\ env[m] # Nothing /\ bound[m].ty = s.ty
    OBVIOUS
  <2>1. InName(m) \in DOMAIN HeldNow /\ HeldNow[InName(m)].ty = HeldNow[p].ty
    BY <1>1, <1>2, HeldIs DEF Good, Descent
  <2> QED BY <1>1, <2>1, HeldHere, HeldIs
<1>9. s.leaf <=> v.path # Whole
  BY <1>1, <1>2, <1>4, HeldIs DEF Good, Leaves
<1>10. v.st \notin gone
  BY <1>1, <1>2, <1>4, HeldIs DEF Good, Reaching
<1>11. s.ty # "mut"
  OBVIOUS
<1> QED BY <1>1, <1>4, <1>6, <1>7, <1>8, <1>9, <1>10, <1>11, PushesReference DEF H2, q

LEMMA DupAgrees ==
  ASSUME BorrowAssumption, Running, Dup
  PROVE  Agrees(stack', bound', done', moved', vals', env', gone')
<1> DEFINE n == Len(stack)
           p == InSlot(n)
<1>1. stack # <<>> /\ Top.ty \in {"agg", "ref"} /\ FreeStorages # {} /\ UNCHANGED <<bound, done, moved>>
      /\ stack' = Append(stack, IF Top.ty = "ref" THEN Top ELSE [Top EXCEPT !.alias = {}])
      /\ Execute(Append(vals, IF TopVal.ty = "ref" THEN TopVal ELSE [TopVal EXCEPT !.st = Min(FreeStorages)]), env, {})
  BY DEF Dup, Running
<1>2. n \in DOMAIN stack /\ Top = stack[n] /\ TopVal = vals[n]
  BY <1>1, RunningIs DEF Running, Fit, StackOK, Top, TopVal
<1>3. Top \in Slots /\ TopVal \in Values /\ TopVal.ty = Top.ty /\ HeldNow[p] = Held(Top, TopVal) /\ p \in LiveNow /\ p \in DOMAIN HeldNow
  BY <1>2, RunningIs, HeldHere
<1>4. Good(HeldNow, LiveNow, gone) /\ LiveNow \subseteq DOMAIN HeldNow
  BY RunningIs
<1>5. CASE Top.ty = "agg"
  <2> DEFINE s == [Top EXCEPT !.alias = {}]
             v == [TopVal EXCEPT !.st = Min(FreeStorages)]
  <2>1. Min(FreeStorages) \in Ids /\ Min(FreeStorages) \notin StoragesInUse(vals, env)
    <3>1. FreeStorages \in SUBSET Ids /\ FreeStorages # {}
      BY <1>1 DEF FreeStorages
    <3>2. Min(FreeStorages) \in FreeStorages
      BY <3>1, LeastIsIn
    <3> QED BY <3>2 DEF FreeStorages
  <2>2. s \in Slots /\ v \in Values /\ s.ty = "agg" /\ v.ty = "agg" /\ v.via = TopVal.via /\ v.st = Min(FreeStorages)
    BY <1>3, <1>5, <2>1 DEF Slots, Values
  <2>3. stack' = Append(stack, s) /\ Execute(Append(vals, v), env, {})
    BY <1>1, <1>3, <1>5
  <2> HIDE DEF s, v
  <2>4. v.via = {}
    BY <1>3, <1>4, <1>5, <2>2, HeldIs, SMTT(30) DEF Good, Descent, IsRef
  <2>5. Fresh(HeldNow, gone, Held(s, v))
    BY <2>1, <2>2, HeldInUse, HeldIs, RunningIs DEF Fresh
  <2> QED BY <1>1, <2>2, <2>3, <2>4, <2>5, PushesOwned DEF IsRef
<1>6. CASE Top.ty = "ref"
  <2>1. stack' = Append(stack, stack[n]) /\ Execute(Append(vals, vals[n]), env, {}) /\ stack[n].ty = "ref"
    BY <1>1, <1>2, <1>3, <1>6
  <2> QED BY <1>1, <1>2, <2>1, CopiesReference
<1> QED BY <1>1, <1>5, <1>6

\* The shape of body the theorems allow.
Plain == Shapes \subseteq {"projection"}

LEMMA NameReferenceAgrees ==
  ASSUME BorrowAssumption, Plain, Running, NEW n, NEW last, NameReference(n, last)
  PROVE  Agrees(stack', bound', done', moved', vals', env', gone')
<1> DEFINE b == bound[n]
           p == InName(n)
           q == InSlot(Len(stack) + 1)
           d == Reborrowed(n, b.ty = "mut")
           s == Slot(b.ty, b.leaf, {}, d)
           v == Descend(env[n], n)
           H2 == Holding(Append(stack, s), bound, Append(vals, v), env)
<1>1. /\ n \in Scoped /\ n \notin done /\ IsRef(b.ty)
      /\ b.ty = "mut" => ~\E c \in LiveDerivs : c.reborrow /\ c.place = n
      /\ ~Chained(n)
      /\ stack' = Append(stack, s) /\ Execute(Append(vals, v), env, {}) /\ done \subseteq done' /\ UNCHANGED <<bound, moved>>
  BY DEF NameReference, Mentioned, Has, Plain
<1>2. n \notin moved /\ n \in Names /\ env[n] # Nothing
  <2>1. n \in moved => bound[n].ty = "lin"
    BY DEF Running, Fit, MovedOK
  <2> QED BY <1>1, <2>1, RunningIs DEF IsRef
<1>3. /\ p \in LiveNow /\ p \in DOMAIN HeldNow /\ HeldNow[p] = Held(b, env[n]) /\ env[n] \in Values /\ env[n].ty = b.ty
      /\ b \in Bindings /\ BindingOK(b, bound)
  BY <1>1, <1>2, HeldHere, RunningIs
<1>4. Good(HeldNow, LiveNow, gone) /\ LiveNow \subseteq DOMAIN HeldNow
  BY RunningIs
<1>5. /\ d \in Derivs /\ d.place = n /\ d.reborrow /\ (d.mutable <=> b.ty = "mut") /\ d # Nothing
      /\ d.root = IF b.deriv = Nothing THEN Nothing ELSE b.deriv.root
  <2>1. b.deriv \in Derivs \cup {Nothing}
    BY <1>3 DEF Bindings
  <2>2. d \in Derivs
    BY <1>2, <2>1 DEF Reborrowed, Derivs
  <2> QED BY <2>2 DEF Reborrowed, BorrowAssumption
<1>6. /\ s \in Slots /\ s.ty = b.ty /\ s.leaf = b.leaf /\ s.alias = {} /\ s.deriv = d
      /\ v \in Values /\ v.ty = b.ty /\ v.st = env[n].st /\ v.path = env[n].path /\ v.via = env[n].via \cup {n}
  BY <1>2, <1>3, <1>5, SMTT(30) DEF Slot, Slots, Bindings, Descend, Values
<1>7. stack \in Seq(Slots) /\ vals \in Seq(Values) /\ Len(vals) = Len(stack)
  BY RunningIs DEF Running, Fit, StackOK
<1> HIDE DEF d, s, v
<1>8. Added(HeldNow, q, H2) /\ H2[q] = Held(s, v)
  BY <1>6, <1>7, Pushed DEF HeldNow
<1>9. HeldNow[p].alias = {} /\ HeldNow[p].deriv = b.deriv /\ HeldNow[p].ty = b.ty /\ HeldNow[p].st = env[n].st
      /\ HeldNow[p].path = env[n].path /\ HeldNow[p].via = env[n].via /\ HeldNow[p].leaf = b.leaf
  BY <1>1, <1>3, HeldIs DEF BindingOK
<1>10. /\ H2[q].ty = b.ty /\ H2[q].deriv = d /\ H2[q].st = env[n].st /\ H2[q].path = env[n].path /\ H2[q].via = env[n].via \cup {n}
       /\ \A r \in DOMAIN HeldNow : H2[r] = HeldNow[r] /\ r \in DOMAIN H2
  BY <1>6, <1>8, HeldIs DEF Added
<1> HIDE DEF b, p, q, H2
<1>11. ASSUME NEW k \in LiveNow, ~IsRef(HeldNow[k].ty), HeldNow[k].st = H2[q].st
       PROVE  FromRoot(HeldNow, p, k) /\ FromRoot(H2, q, k) /\ d.root = HeldNow[p].deriv.root
  <2>1. FromRoot(HeldNow, p, k) \/ FromRegion(HeldNow, p, k)
    BY <1>1, <1>3, <1>4, <1>9, <1>10, <1>11 DEF Good, Traced
  <2>2. FromRoot(HeldNow, p, k)
    BY <1>9, <2>1 DEF FromRegion
  <2>3. d.root = HeldNow[p].deriv.root
    BY <1>5, <1>9, <2>2 DEF FromRoot
  <2> QED BY <1>4, <1>5, <1>9, <1>10, <2>2, <2>3 DEF FromRoot
<1>12. Leads(HeldNow, LiveNow, H2, q)
  BY <1>11 DEF Leads
<1>13. ASSUME b.ty = "mut" PROVE Alone(HeldNow, LiveNow, H2, q)
  <2> SUFFICES ASSUME NEW k \in LiveNow, ~IsRef(HeldNow[k].ty), HeldNow[k].st = H2[q].st
               PROVE  /\ H2[q].deriv # Nothing /\ k = InName(H2[q].deriv.root)
                      /\ \A j \in LiveNow : ~IsRef(HeldNow[j].ty) /\ HeldNow[j].st = H2[q].st => j = k
    BY DEF Alone
  <2>1. /\ (HeldNow[p].deriv # Nothing /\ k = InName(HeldNow[p].deriv.root)) \/ FromRegion(HeldNow, p, k)
        /\ \A j \in LiveNow : ~IsRef(HeldNow[j].ty) /\ HeldNow[j].st = HeldNow[p].st => j = k
    BY <1>3, <1>4, <1>9, <1>10, <1>13 DEF Good, SoleOwner
  <2>2. ~FromRegion(HeldNow, p, k)
    BY <1>9 DEF FromRegion
  <2> QED BY <1>5, <1>9, <1>10, <1>11, <2>1, <2>2
<1>14. ASSUME b.ty = "mut", NEW k \in LiveNow, HeldNow[k].ty = "mut"
       PROVE  n \notin HeldNow[k].via
  <2> SUFFICES ASSUME n \in HeldNow[k].via PROVE FALSE
    OBVIOUS
  <2>1. HeldNow[k].deriv # Nothing /\ HeldNow[k].deriv.reborrow /\ HeldNow[k].deriv.place = n
    BY <1>3, <1>4, <1>14 DEF Good, Suspended, p
  <2> QED BY <1>1, <1>14, <2>1, LiveDerivation DEF b
<1>15. Unrivalled(HeldNow, LiveNow, H2, q)
  <2> SUFFICES ASSUME NEW k \in LiveNow, IsRef(HeldNow[k].ty), HeldNow[k].st = H2[q].st, PathsMeet(HeldNow[k].path, H2[q].path),
                      HeldNow[k].ty = "mut" \/ b.ty = "mut"
               PROVE  Lent(H2, k, q)
    BY <1>10 DEF Unrivalled
  <2>1. CASE k = p
    BY <1>10, <2>1 DEF Lent, p
  <2>2. CASE k # p
    <3>1. PathsMeet(HeldNow[p].path, HeldNow[k].path)
      BY <1>9, <1>10 DEF PathsMeet
    <3>2. Lent(HeldNow, p, k) \/ Lent(HeldNow, k, p)
      BY <1>1, <1>3, <1>4, <1>9, <1>10, <2>2, <3>1 DEF Good, Apart
    <3>3. CASE Lent(HeldNow, k, p)
      BY <1>9, <1>10, <3>3 DEF Lent
    <3>4. CASE Lent(HeldNow, p, k)
      <4>1. n \in HeldNow[k].via
        BY <3>4, Places DEF Lent, p
      <4>2. HeldNow[p].ty = HeldNow[k].ty
        BY <1>4, <4>1 DEF Good, Descent, p
      <4> QED BY <1>9, <1>14, <4>1, <4>2
    <3> QED BY <3>2, <3>3, <3>4
  <2> QED BY <2>1, <2>2
<1>16. \A m \in v.via : m \in Names /\ env[m] # Nothing /\ bound[m].ty = s.ty
  <2> SUFFICES ASSUME NEW m \in v.via PROVE m \in Names /\ env[m] # Nothing /\ bound[m].ty = s.ty
    OBVIOUS
  <2>1. CASE m = n
    BY <1>2, <1>6, <2>1 DEF b
  <2>2. CASE m \in env[n].via
    <3>1. InName(m) \in DOMAIN HeldNow /\ HeldNow[InName(m)].ty = HeldNow[p].ty
      BY <1>3, <1>4, <1>9, <2>2 DEF Good, Descent
    <3> QED BY <1>6, <1>9, <3>1, HeldHere, HeldIs
  <2> QED BY <1>6, <2>1, <2>2
<1>17. ASSUME s.ty = "mut", NEW m \in v.via, InName(m) \in LiveNow
       PROVE  s.deriv # Nothing /\ s.deriv.reborrow /\ s.deriv.place = m
  <2>1. m = n
    <3> SUFFICES ASSUME m \in env[n].via PROVE FALSE
      BY <1>6
    <3>1. b.deriv # Nothing /\ b.deriv.reborrow /\ b.deriv.place = m
      BY <1>3, <1>4, <1>6, <1>9, <1>17 DEF Good, Suspended
    <3>2. m \in LiveNames
      BY <1>17, HeldHere, RunningIs DEF LiveNames
    <3> QED BY <1>1, <1>6, <1>17, <3>1, <3>2 DEF Chained, b
  <2> QED BY <1>5, <1>6, <2>1
<1>18. s.leaf <=> v.path # Whole
  BY <1>1, <1>3, <1>4, <1>6, <1>9 DEF Good, Leaves
<1>19. v.st \notin gone
  BY <1>1, <1>3, <1>4, <1>6, <1>9 DEF Good, Reaching
<1>20. Agrees(stack', bound, done, moved, vals', env', gone')
  BY <1>1, <1>6, <1>12, <1>13, <1>15, <1>16, <1>17, <1>18, <1>19, PushesReference DEF H2, q
<1> QED BY <1>1, <1>20, Dies

LEMMA NameCopyAgrees ==
  ASSUME BorrowAssumption, Running, NEW n, NEW last, NameAggregate(n, last), bound[n].ty # "lin"
  PROVE  Agrees(stack', bound', done', moved', vals', env', gone')
<1> DEFINE b == bound[n]
           p == InName(n)
           s == Slot(b.ty, FALSE, b.alias, b.deriv)
           x == Held(s, env[n])
<1>1. /\ n \in Scoped /\ n \notin done /\ n \notin moved /\ ~IsRef(b.ty) /\ ~LiveMutableBorrowOf(n)
      /\ stack' = Append(stack, s) /\ Execute(Append(vals, env[n]), env, {}) /\ done \subseteq done' /\ UNCHANGED <<bound, moved>>
  BY DEF NameAggregate, Mentioned
<1>2. n \in Names /\ env[n] # Nothing
  BY <1>1, RunningIs
<1>3. /\ p \in LiveNow /\ p \in DOMAIN HeldNow /\ HeldNow[p] = Held(b, env[n]) /\ env[n] \in Values /\ env[n].ty = b.ty
      /\ b \in Bindings /\ BindingOK(b, bound)
  BY <1>1, <1>2, HeldHere, RunningIs
<1>4. Good(HeldNow, LiveNow, gone) /\ LiveNow \subseteq DOMAIN HeldNow
  BY RunningIs
<1>5. s \in Slots /\ s.ty = b.ty /\ s.alias = b.alias /\ s.deriv = b.deriv /\ b.ty = "agg" /\ b.alias # {}
  BY <1>1, <1>3 DEF Slot, Slots, Bindings, Types, IsRef, BindingOK
<1> HIDE DEF b, p, s
<1>6. /\ HeldNow[p].ty = "agg" /\ HeldNow[p].st = env[n].st /\ HeldNow[p].alias = b.alias /\ HeldNow[p].via = env[n].via
      /\ x.ty = "agg" /\ x.st = env[n].st /\ x.alias = b.alias
  BY <1>3, <1>5, HeldIs
<1>7. env[n].via = {}
  BY <1>1, <1>3, <1>4, <1>5, <1>6 DEF Good, Descent
<1>8. ASSUME NEW h \in LiveNow, HeldNow[h].ty = "mut", HeldNow[h].st = env[n].st PROVE FALSE
  <2>1. HeldNow[h].deriv # Nothing /\ p = InName(HeldNow[h].deriv.root)
    BY <1>1, <1>3, <1>4, <1>5, <1>6, <1>8, Places DEF Good, SoleOwner, p
  <2>2. HeldNow[h].deriv \in LiveDerivs /\ HeldNow[h].deriv.root = n
    BY <2>1, LiveDerivation, Places DEF p
  <2>3. HeldNow[h].deriv.mutable
    BY <1>4, <1>8, <2>1, HeldKinds DEF IsRef
  <2> QED BY <1>1, <2>2, <2>3 DEF LiveMutableBorrowOf, RootedAt
<1>9. Again(HeldNow, LiveNow, p, x)
  BY <1>3, <1>5, <1>6, <1>8 DEF Again
<1>10. Agrees(stack', bound, done, moved, vals', env', gone')
  BY <1>1, <1>3, <1>5, <1>7, <1>9, PushesOwned
<1> QED BY <1>1, <1>10, Dies

\* a linear local: its value moves from the name to the slot
LEMMA NameLinearAgrees ==
  ASSUME BorrowAssumption, Running, NEW n, NEW last, NameAggregate(n, last), bound[n].ty = "lin"
  PROVE  Agrees(stack', bound', done', moved', vals', env', gone')
<1> DEFINE b == bound[n]
           p == InName(n)
           q == InSlot(Len(stack) + 1)
           s == Slot(b.ty, FALSE, b.alias, b.deriv)
           stk2 == Append(stack, s)
           vs2 == Append(vals, env[n])
           e2 == [env EXCEPT ![n] = Nothing]
           H2 == Holding(stk2, bound, vs2, e2)
           L2 == Usable(stk2, e2, done, moved \cup {n})
           g2 == (gone \cup {}) \cap StoragesInUse(vs2, e2)
           phi == [r \in DOMAIN H2 |-> IF r = q THEN p ELSE r]
<1>1. /\ n \in Scoped /\ n \notin done /\ n \notin moved /\ ~IsRef(b.ty) /\ ~LiveBorrowOf(n)
      /\ stack' = stk2 /\ Execute(vs2, e2, {}) /\ done \subseteq done' /\ bound' = bound /\ moved' = moved \cup {n}
  BY DEF NameAggregate, Mentioned, MayMove
<1>2. n \in Names /\ env[n] # Nothing
  BY <1>1, RunningIs
<1>3. /\ p \in LiveNow /\ p \in DOMAIN HeldNow /\ HeldNow[p] = Held(b, env[n]) /\ env[n] \in Values /\ env[n].ty = b.ty
      /\ b \in Bindings
  BY <1>1, <1>2, HeldHere, RunningIs
<1>4. Good(HeldNow, LiveNow, gone) /\ LiveNow \subseteq DOMAIN HeldNow
  BY RunningIs
<1>5. s \in Slots /\ s.ty = b.ty /\ s.alias = b.alias /\ s.deriv = b.deriv
  BY <1>3 DEF Slot, Slots, Bindings
<1>6. stack \in Seq(Slots) /\ vals \in Seq(Values) /\ Len(vals) = Len(stack)
  BY RunningIs DEF Running, Fit, StackOK
<1> HIDE DEF s
<1>7. /\ DOMAIN stk2 = DOMAIN stack \cup {Len(stack) + 1} /\ Len(stack) + 1 \notin DOMAIN stack /\ Len(stk2) = Len(vs2)
      /\ \A k \in DOMAIN stack : stk2[k] = stack[k] /\ vs2[k] = vals[k]
      /\ stk2[Len(stack) + 1] = s /\ vs2[Len(stack) + 1] = env[n]
  BY <1>6, <1>3, <1>5
<1>8. e2[n] = Nothing /\ \A m \in Names : m # n => e2[m] = env[m]
  BY <1>2 DEF Running, Fit
<1> HIDE DEF stk2, vs2, e2
<1>9. Positions(stk2, e2) = (Positions(stack, env) \ {p}) \cup {q}
  <2>1. \A k : InSlot(k) \in Positions(stk2, e2) <=> InSlot(k) \in Positions(stack, env) \/ k = Len(stack) + 1
    BY <1>7, PositionsAre
  <2>2. \A m : InName(m) \in Positions(stk2, e2) <=> InName(m) \in Positions(stack, env) /\ m # n
    BY <1>8, PositionsAre
  <2>3. ASSUME NEW r \in Positions(stk2, e2) PROVE r \in (Positions(stack, env) \ {p}) \cup {q}
    BY <2>1, <2>2, Places, PositionsAre
  <2>4. ASSUME NEW r \in (Positions(stack, env) \ {p}) \cup {q} PROVE r \in Positions(stk2, e2)
    BY <2>1, <2>2, Places, PositionsAre
  <2> QED BY <2>3, <2>4
<1>10. DOMAIN H2 = (DOMAIN HeldNow \ {p}) \cup {q} /\ q \notin DOMAIN HeldNow /\ p # q
  <2>1. DOMAIN HeldNow = Positions(stack, env) /\ DOMAIN H2 = Positions(stk2, e2)
    BY HoldingIs DEF HeldNow
  <2>2. q \notin DOMAIN HeldNow /\ p # q
    BY <1>7, HeldHere, Places
  <2> QED BY <1>9, <2>1, <2>2
<1>11. H2[q] = Held(s, env[n])
  BY <1>7, HoldingIs
<1>12. ASSUME NEW r \in DOMAIN HeldNow, r # p PROVE H2[r] = HeldNow[r]
  <2>1. CASE \E k \in DOMAIN stack : r = InSlot(k)
    <3>1. PICK k \in DOMAIN stack : r = InSlot(k)
      BY <2>1
    <3>2. HeldNow[r] = Held(stack[k], vals[k])
      BY <3>1, HeldHere
    <3>3. H2[r] = Held(stk2[k], vs2[k])
      BY <1>7, <3>1, HoldingIs
    <3> QED BY <1>7, <3>2, <3>3
  <2>2. CASE \E m \in Names : env[m] # Nothing /\ r = InName(m)
    <3>1. PICK m \in Names : env[m] # Nothing /\ r = InName(m)
      BY <2>2
    <3>2. m # n /\ e2[m] = env[m]
      BY <1>8, <1>12, <3>1
    <3>3. HeldNow[r] = Held(bound[m], env[m])
      BY <3>1, HeldHere
    <3>4. H2[r] = Held(bound[m], e2[m])
      BY <3>1, <3>2, HoldingIs
    <3> QED BY <3>2, <3>3, <3>4
  <2> QED BY <2>1, <2>2, HeldHere
<1>13. L2 \subseteq (LiveNow \ {p}) \cup {q}
  BY <1>9, UsableAre, Places DEF Usable, LiveNow
<1>14. L2 \subseteq DOMAIN H2
  BY UsableAre, HoldingIs
<1>15. g2 \subseteq gone
  OBVIOUS
<1> HIDE DEF H2, L2, g2
<1>16. /\ \A r \in DOMAIN H2 : phi[r] = IF r = q THEN p ELSE r
       /\ phi \in [DOMAIN H2 -> DOMAIN HeldNow]
  BY <1>3, <1>10
<1> HIDE DEF phi
<1>17. /\ H2[q].ty = HeldNow[p].ty /\ H2[q].st = HeldNow[p].st /\ H2[q].alias = HeldNow[p].alias /\ H2[q].via = HeldNow[p].via
       /\ HeldNow[p].ty = "lin" /\ ~IsRef(HeldNow[p].ty)
  BY <1>3, <1>5, <1>11, HeldIs DEF IsRef
<1>18. H2[q].via = {}
  BY <1>3, <1>4, <1>17 DEF Good, Descent
<1>19. ASSUME NEW r \in DOMAIN H2 PROVE SameValue(HeldNow, H2, phi, r)
  <2>1. CASE r = q
    BY <1>10, <1>16, <1>17, <1>18, <2>1 DEF SameValue
  <2>2. CASE r # q
    <3>1. r \in DOMAIN HeldNow /\ r # p /\ phi[r] = r /\ H2[r] = HeldNow[r]
      BY <1>10, <1>12, <1>16, <2>2
    <3>2. ASSUME NEW m \in HeldNow[r].via PROVE InName(m) \in DOMAIN H2 /\ phi[InName(m)] = InName(m)
      <4>1. InName(m) \in DOMAIN HeldNow /\ IsRef(HeldNow[InName(m)].ty)
        BY <1>4, <3>1 DEF Good, Descent
      <4>2. InName(m) # p /\ InName(m) # q
        BY <1>10, <1>17, <4>1
      <4> QED BY <1>10, <1>16, <4>1, <4>2
    <3> QED BY <3>1, <3>2 DEF SameValue
  <2> QED BY <2>1, <2>2
<1>20. ASSUME NEW r \in L2, IsRef(H2[r].ty) PROVE SameReference(HeldNow, H2, L2, phi, r)
  <2>1. r # q /\ r \in LiveNow /\ r \in DOMAIN HeldNow /\ r # p /\ phi[r] = r /\ H2[r] = HeldNow[r]
    BY <1>4, <1>10, <1>12, <1>13, <1>14, <1>16, <1>17, <1>20
  <2>2. ASSUME HeldNow[r].deriv # Nothing, InName(HeldNow[r].deriv.root) \in DOMAIN HeldNow
        PROVE  InName(HeldNow[r].deriv.root) \in DOMAIN H2 /\ phi[InName(HeldNow[r].deriv.root)] = InName(HeldNow[r].deriv.root)
    <3>1. HeldNow[r].deriv \in LiveDerivs
      BY <2>1, <2>2, LiveDerivation
    <3>2. HeldNow[r].deriv.root # n
      BY <1>1, <3>1 DEF LiveBorrowOf, RootedAt
    <3>3. InName(HeldNow[r].deriv.root) # p
      BY <3>2, Places
    <3> QED BY <1>10, <1>16, <2>2, <3>3
  <2>3. ASSUME NEW t \in L2, NEW m \in HeldNow[r].via, IsRef(H2[t].ty), phi[t] = InName(m)
        PROVE  t = InName(m)
    BY <1>14, <1>16, <1>17, <2>3
  <2> QED BY <2>1, <2>2, <2>3 DEF SameReference, KeepsPlaces
<1>21. Leaves(H2)
  BY <1>4, <1>10, <1>12, <1>17 DEF Good, Leaves
<1>22. \A r \in L2 : phi[r] \in LiveNow
  BY <1>3, <1>13, <1>14, <1>16
<1>23. \A r, t \in DOMAIN H2 : phi[r] = phi[t] => r = t
  BY <1>10, <1>16
<1>24. \A r \in L2 : IsSlot(phi[r]) /\ ~IsSlot(r) => FALSE
  BY <1>14, <1>16, Places
<1>25. Carried(HeldNow, LiveNow, gone, H2, L2, g2, phi)
  BY <1>14, <1>15, <1>16, <1>19, <1>20, <1>21, <1>22, <1>23, <1>24 DEF Carried
<1>26. Good(H2, L2, g2)
  BY <1>4, <1>25, Transfer
<1>27. /\ \A k \in DOMAIN stk2 : vs2[k].ty = stk2[k].ty
       /\ \A m \in Names : e2[m] # Nothing => bound[m] # Nothing /\ e2[m].ty = bound[m].ty
       /\ \A m \in Names \ (moved \cup {n}) : bound[m] # Nothing => e2[m] # Nothing
  BY <1>3, <1>5, <1>7, <1>8, RunningIs DEF Scoped
<1>28. Agrees(stk2, bound, done, moved \cup {n}, vs2, e2, g2)
  BY <1>7, <1>26, <1>27 DEF Agrees, H2, L2, g2
<1>29. vals' = vs2 /\ env' = e2 /\ gone' = g2
  BY <1>1, Executed DEF g2
<1> QED BY <1>1, <1>28, <1>29, Dies

LEMMA BorrowAgrees ==
  ASSUME BorrowAssumption, Plain, Running, NEW n, NEW mutable \in BOOLEAN, NEW last, Borrow(n, mutable, last)
  PROVE  Agrees(stack', bound', done', moved', vals', env', gone')
<1> DEFINE b == bound[n]
           p == InName(n)
           q == InSlot(Len(stack) + 1)
           d == Borrowed(n, mutable)
           s == Slot(RefTo(mutable), FALSE, {}, d)
           v == Value(RefTo(mutable), env[n].st, Whole, {})
           H2 == Holding(Append(stack, s), bound, Append(vals, v), env)
<1>1. /\ n \in Scoped /\ n \notin done /\ n \notin moved /\ ~IsRef(b.ty) /\ ~Conflicts(n, mutable)
      /\ mutable => ~AliasedElsewhere(b.alias, Names \ {n}, SlotsOf(stack)) /\ ~BorrowedAs(b.alias)
      /\ stack' = Append(stack, s) /\ Execute(Append(vals, v), env, {}) /\ done \subseteq done' /\ UNCHANGED <<bound, moved>>
  BY DEF Borrow, Mentioned, Has, Plain
<1>2. n \in Names /\ env[n] # Nothing
  BY <1>1, RunningIs
<1>3. /\ p \in LiveNow /\ p \in DOMAIN HeldNow /\ HeldNow[p] = Held(b, env[n]) /\ env[n] \in Values /\ env[n].ty = b.ty
      /\ ~IsSlot(p)
  BY <1>1, <1>2, HeldHere, RunningIs, Places
<1>4. Good(HeldNow, LiveNow, gone) /\ LiveNow \subseteq DOMAIN HeldNow
  BY RunningIs
<1>5. d \in Derivs /\ d.root = n /\ d # Nothing
  <2>1. d \in Derivs /\ d.root = n
    BY <1>2 DEF Borrowed, Derivs
  <2> QED BY <2>1 DEF BorrowAssumption
<1>6. RefTo(mutable) \in {"ref", "mut"} /\ (RefTo(mutable) = "mut" <=> mutable) /\ IsRef(RefTo(mutable))
  BY DEF RefTo, IsRef
<1>7. /\ s \in Slots /\ s.ty = RefTo(mutable) /\ s.leaf = FALSE /\ s.alias = {} /\ s.deriv = d
      /\ v \in Values /\ v.ty = RefTo(mutable) /\ v.st = env[n].st /\ v.path = Whole /\ v.via = {}
  BY <1>3, <1>5, <1>6 DEF Slot, Slots, Types, Value, Values
<1>8. stack \in Seq(Slots) /\ vals \in Seq(Values) /\ Len(vals) = Len(stack)
  BY RunningIs DEF Running, Fit, StackOK
<1> HIDE DEF d, s, v
<1>9. Added(HeldNow, q, H2) /\ H2[q] = Held(s, v)
  BY <1>7, <1>8, Pushed DEF HeldNow
<1>10. ~IsRef(HeldNow[p].ty) /\ HeldNow[p].st = env[n].st /\ HeldNow[p].alias = b.alias
  BY <1>1, <1>3, HeldIs
<1>11. /\ H2[q].ty = RefTo(mutable) /\ H2[q].deriv = d /\ H2[q].st = env[n].st /\ H2[q].via = {}
       /\ \A r \in DOMAIN HeldNow : H2[r] = HeldNow[r] /\ r \in DOMAIN H2
  BY <1>7, <1>9, HeldIs DEF Added
<1> HIDE DEF b, p, q, H2
<1>12. Leads(HeldNow, LiveNow, H2, q)
  <2> SUFFICES ASSUME NEW k \in LiveNow, ~IsRef(HeldNow[k].ty), HeldNow[k].st = H2[q].st
               PROVE  FromRoot(H2, q, k)
    BY DEF Leads
  <2>1. k = p \/ Overlap(HeldNow[k].alias, HeldNow[p].alias)
    BY <1>3, <1>4, <1>10, <1>11 DEF Good, SharedSeen
  <2>2. InName(H2[q].deriv.root) = p
    BY <1>5, <1>11 DEF p
  <2> QED BY <1>3, <1>4, <1>5, <1>10, <1>11, <2>1, <2>2 DEF FromRoot
<1>13. ASSUME mutable, NEW k \in LiveNow, ~IsRef(HeldNow[k].ty), HeldNow[k].st = H2[q].st
       PROVE  k = p
  <2> SUFFICES ASSUME k # p PROVE FALSE
    OBVIOUS
  <2>1. Overlap(b.alias, HeldNow[k].alias)
    BY <1>3, <1>4, <1>10, <1>11, <1>13 DEF Good, SharedSeen
  <2> QED BY <1>1, <1>13, <2>1, SeenElsewhere DEF SlotsOf, p
<1>14. ASSUME mutable PROVE Alone(HeldNow, LiveNow, H2, q)
  BY <1>5, <1>11, <1>13, <1>14 DEF Alone, p
<1>15. ASSUME NEW k \in LiveNow, IsRef(HeldNow[k].ty), HeldNow[k].st = H2[q].st, HeldNow[k].ty = "mut" \/ mutable
       PROVE  FALSE
  <2>1. CASE HeldNow[k].deriv # Nothing /\ p = InName(HeldNow[k].deriv.root)
    <3>1. HeldNow[k].deriv \in LiveDerivs /\ HeldNow[k].deriv.root = n
      BY <2>1, LiveDerivation, Places DEF p
    <3>2. HeldNow[k].deriv.mutable <=> HeldNow[k].ty = "mut"
      BY <1>4, <1>15, <2>1, HeldKinds
    <3> QED BY <1>1, <1>15, <3>1, <3>2 DEF Conflicts, LiveBorrowOf, LiveMutableBorrowOf, RootedAt
  <2>2. CASE ~mutable
    <3>1. (HeldNow[k].deriv # Nothing /\ p = InName(HeldNow[k].deriv.root)) \/ IsSlot(p)
      BY <1>3, <1>4, <1>10, <1>11, <1>15, <2>2 DEF Good, SoleOwner
    <3> QED BY <1>3, <2>1, <3>1
  <2>3. CASE mutable /\ FromRegion(HeldNow, k, p)
    <3>1. Overlap(b.alias, HeldNow[k].alias)
      BY <1>10, <2>3, SMTT(30) DEF FromRegion, Overlap, PathsMeet
    <3>2. k # p
      BY <1>10, <1>15
    <3> QED BY <1>1, <2>3, <3>1, <3>2, SeenElsewhere DEF SlotsOf, p
  <2>4. CASE mutable /\ FromRoot(HeldNow, k, p)
    <3>1. CASE p = InName(HeldNow[k].deriv.root)
      BY <2>1, <2>4, <3>1 DEF FromRoot
    <3>2. CASE Overlap(HeldNow[p].alias, HeldNow[InName(HeldNow[k].deriv.root)].alias)
      <4>1. HeldNow[k].deriv # Nothing /\ InName(HeldNow[k].deriv.root) \in DOMAIN HeldNow
        BY <2>4 DEF FromRoot
      <4> QED BY <1>1, <1>10, <1>15, <2>4, <3>2, <4>1, SeenBorrowed
    <3> QED BY <2>4, <3>1, <3>2 DEF FromRoot
  <2> QED BY <1>3, <1>4, <1>10, <1>11, <1>15, <2>2, <2>3, <2>4 DEF Good, Traced
<1>16. Unrivalled(HeldNow, LiveNow, H2, q)
  BY <1>6, <1>11, <1>15 DEF Unrivalled
<1>17. v.st \notin gone
  BY <1>3, <1>4, <1>7, <1>10 DEF Good, OwnedThere
<1>18. Agrees(stack', bound, done, moved, vals', env', gone')
  BY <1>1, <1>6, <1>7, <1>12, <1>14, <1>16, <1>17, PushesReference DEF H2, q
<1> QED BY <1>1, <1>18, Dies

\* A slot may be given a region, or a wider one.
LEMMA Widened ==
  ASSUME NEW stk \in Seq(Slots), NEW k \in DOMAIN stk, NEW alias \in SUBSET Regions
  PROVE  LET s == [stk[k] EXCEPT !.alias = alias]
             w == [stk EXCEPT ![k].alias = alias]
         IN /\ s \in Slots /\ s.alias = alias /\ s.ty = stk[k].ty /\ s.leaf = stk[k].leaf /\ s.deriv = stk[k].deriv
            /\ w \in Seq(Slots) /\ Len(w) = Len(stk) /\ w[k] = s /\ \A j \in DOMAIN stk : j # k => w[j] = stk[j]
<1> DEFINE s == [stk[k] EXCEPT !.alias = alias]
           w == [stk EXCEPT ![k] = s]
<1>1. stk[k] \in Slots
  OBVIOUS
<1>2. s \in Slots /\ s.alias = alias /\ s.ty = stk[k].ty /\ s.leaf = stk[k].leaf /\ s.deriv = stk[k].deriv
  BY <1>1 DEF Slots
<1> HIDE DEF s
<1>3. w \in Seq(Slots) /\ Len(w) = Len(stk) /\ w[k] = s /\ \A j \in DOMAIN stk : j # k => w[j] = stk[j]
  BY <1>2
<1> QED BY <1>2, <1>3 DEF s

\* The slots may be labelled anew: wider regions, and derivations that suspend
\* what they did.
LEMMA Relabels ==
  ASSUME NEW stk, NEW w, NEW bnd, NEW dn, NEW mv, NEW vs, NEW e, NEW g, Agrees(stk, bnd, dn, mv, vs, e, g),
         DOMAIN w = DOMAIN stk, Len(w) = Len(stk),
         \A k \in DOMAIN stk : /\ w[k].ty = stk[k].ty /\ w[k].leaf = stk[k].leaf /\ stk[k].alias \subseteq w[k].alias
                               /\ stk[k].deriv # Nothing => KeepsPlaces(stk[k].deriv, w[k].deriv, stk[k].ty)
  PROVE  Agrees(w, bnd, dn, mv, vs, e, g)
<1> DEFINE H == Holding(stk, bnd, vs, e)
           L == Usable(stk, e, dn, mv)
           H1 == Holding(w, bnd, vs, e)
           phi == [p \in DOMAIN H |-> p]
<1>1. Positions(w, e) = Positions(stk, e)
  BY DEF Positions
<1>2. Usable(w, e, dn, mv) = L /\ DOMAIN H1 = DOMAIN H /\ L \subseteq DOMAIN H
  BY <1>1, HoldingIs, UsableAre DEF Usable
<1>3. Good(H, L, g)
  BY DEF Agrees
<1>4. ASSUME NEW p \in DOMAIN H
      PROVE  /\ H1[p].ty = H[p].ty /\ H1[p].st = H[p].st /\ H[p].alias \subseteq H1[p].alias
             /\ H1[p].via = H[p].via /\ H1[p].path = H[p].path /\ H1[p].leaf = H[p].leaf
             /\ H[p].deriv # Nothing => KeepsPlaces(H[p].deriv, H1[p].deriv, H[p].ty)
  <2>1. p \in Positions(stk, e)
    BY HoldingIs
  <2>2. CASE \E k \in DOMAIN stk : p = InSlot(k)
    <3>1. PICK k \in DOMAIN stk : p = InSlot(k)
      BY <2>2
    <3>2. H[p] = Held(stk[k], vs[k]) /\ H1[p] = Held(w[k], vs[k])
      BY <3>1, HoldingIs
    <3> HIDE DEF H, H1
    <3> QED BY <3>2, HeldIs
  <2>3. CASE \E n \in Names : e[n] # Nothing /\ p = InName(n)
    <3>1. H1[p] = H[p]
      BY <2>3, HoldingIs
    <3> HIDE DEF H, H1
    <3> QED BY <3>1 DEF KeepsPlaces
  <2> QED BY <2>1, <2>2, <2>3, PositionsAre
<1>5. /\ \A p \in DOMAIN H : phi[p] = p
      /\ phi \in [DOMAIN H -> DOMAIN H]
  OBVIOUS
<1> HIDE DEF H, L, H1, phi
<1>6. \A p \in DOMAIN H : SameValue(H, H1, phi, p)
  BY <1>2, <1>3, <1>4, <1>5 DEF SameValue, Good, Descent
<1>7. \A p \in L : SameReference(H, H1, L, phi, p)
  BY <1>2, <1>3, <1>4, <1>5 DEF SameReference
<1>8. Leaves(H1)
  BY <1>2, <1>3, <1>4 DEF Good, Leaves
<1>9. Carried(H, L, g, H1, L, g, phi)
  BY <1>2, <1>5, <1>6, <1>7, <1>8 DEF Carried
<1>10. Good(H1, L, g)
  BY <1>2, <1>3, <1>9, Transfer
<1> QED BY <1>2, <1>10 DEF Agrees, H1, L

LEMMA Widens ==
  ASSUME BorrowAssumption, Running, NEW k \in DOMAIN stack, NEW stk \in Seq(Slots), Len(stk) = Len(stack),
         stack[k].alias \subseteq stk[k].alias, stk[k].ty = stack[k].ty, stk[k].leaf = stack[k].leaf, stk[k].deriv = stack[k].deriv,
         \A j \in DOMAIN stack : j # k => stk[j] = stack[j]
  PROVE  /\ Agrees(stk, bound, done, moved, vals, env, gone)
         /\ Usable(stk, env, done, moved) = LiveNow /\ DOMAIN Holding(stk, bound, vals, env) = DOMAIN HeldNow
         /\ \A p \in DOMAIN HeldNow : p # InSlot(k) => Holding(stk, bound, vals, env)[p] = HeldNow[p]
         /\ Holding(stk, bound, vals, env)[InSlot(k)] = Held(stk[k], vals[k])
<1> DEFINE H1 == Holding(stk, bound, vals, env)
<1>1. DOMAIN stk = DOMAIN stack
  BY RunningIs
<1>2. Positions(stk, env) = Positions(stack, env)
  BY <1>1 DEF Positions
<1>3. Usable(stk, env, done, moved) = LiveNow /\ DOMAIN H1 = DOMAIN HeldNow
  BY <1>2, HoldingIs DEF Usable, LiveNow, HeldNow
<1>4. H1[InSlot(k)] = Held(stk[k], vals[k])
  BY <1>1, HoldingIs
<1>5. ASSUME NEW p \in DOMAIN HeldNow, p # InSlot(k) PROVE H1[p] = HeldNow[p]
  <2>1. CASE \E j \in DOMAIN stack : p = InSlot(j)
    <3>1. PICK j \in DOMAIN stack : p = InSlot(j)
      BY <2>1
    <3>2. j # k /\ stk[j] = stack[j] /\ j \in DOMAIN stk
      BY <1>1, <1>5, <3>1
    <3>3. H1[p] = Held(stk[j], vals[j])
      BY <3>1, <3>2, HoldingIs
    <3> QED BY <3>1, <3>2, <3>3, HeldHere
  <2>2. CASE \E n \in Names : env[n] # Nothing /\ p = InName(n)
    BY <2>2, HeldHere, HoldingIs
  <2> QED BY <2>1, <2>2, HeldHere
<1>6. Agrees(stack, bound, done, moved, vals, env, gone)
  BY DEF Running
<1>7. \A j \in DOMAIN stack :
        /\ stk[j].ty = stack[j].ty /\ stk[j].leaf = stack[j].leaf /\ stack[j].alias \subseteq stk[j].alias
        /\ stack[j].deriv # Nothing => KeepsPlaces(stack[j].deriv, stk[j].deriv, stack[j].ty)
  BY DEF KeepsPlaces
<1>8. Agrees(stk, bound, done, moved, vals, env, gone)
  BY <1>1, <1>6, <1>7, Relabels
<1> QED BY <1>3, <1>4, <1>5, <1>8

LEMMA FreshIsRegion ==
  ASSUME BorrowAssumption, FreeRegions # {}
  PROVE  FreshAlias \in SUBSET (Ids \X {Whole}) /\ FreshAlias # {}
<1>1. FreeRegions \in SUBSET Ids
  BY DEF FreeRegions
<1>2. Min(FreeRegions) \in Ids
  BY <1>1, LeastIsIn
<1> QED BY <1>2 DEF FreshAlias

LEMMA OverAgrees ==
  ASSUME BorrowAssumption, Plain, Running, Over
  PROVE  Agrees(stack', bound', done', moved', vals', env', gone')
<1> DEFINE k == Len(stack) - 1
           p == InSlot(k)
           below == stack[k]
           alias == OverAlias(below)
           others == {stack[i] : i \in DOMAIN stack \ {k}}
           stk == [stack EXCEPT ![k].alias = alias]
           s == [below EXCEPT !.alias = alias]
           H1 == Holding(stk, bound, vals, env)
<1>1. /\ Len(stack) >= 2 /\ below.ty \in {"agg", "ref"} /\ FreeRegions # {} /\ ~Anonymous(below, others)
      /\ stack' = Append(stk, s) /\ Execute(Append(vals, vals[Len(vals) - 1]), env, {}) /\ UNCHANGED <<bound, done, moved>>
  BY DEF Over, Has, Plain
<1>2. k \in DOMAIN stack /\ Len(vals) - 1 = k
  BY <1>1, RunningIs
<1>3. below \in Slots /\ vals[k] \in Values /\ vals[k].ty = below.ty /\ HeldNow[p] = Held(below, vals[k]) /\ p \in LiveNow /\ p \in DOMAIN HeldNow
  BY <1>2, RunningIs, HeldHere
<1>4. Good(HeldNow, LiveNow, gone) /\ LiveNow \subseteq DOMAIN HeldNow
  BY RunningIs
<1>5. CASE below.ty = "ref"
  <2>1. alias = below.alias
    BY <1>5 DEF OverAlias
  <2>2. s = below
    BY <1>3, <2>1 DEF Slots
  <2>3. stk = stack
    BY <1>2, <1>3, <2>1, RunningIs DEF Running, Fit, StackOK, Slots
  <2> HIDE DEF s, stk
  <2>4. stack' = Append(stack, stack[k]) /\ Execute(Append(vals, vals[k]), env, {})
    BY <1>1, <1>2, <2>2, <2>3
  <2> QED BY <1>1, <1>2, <1>5, <2>4, CopiesReference
<1>6. CASE below.ty = "agg"
  <2>1. alias \in SUBSET Regions /\ below.alias \subseteq alias /\ alias # {}
    BY <1>1, <1>3, <1>6, FreshIsRegion DEF OverAlias, Slots, Regions
  <2>2. stack \in Seq(Slots)
    BY DEF Running, Fit, StackOK
  <2> HIDE DEF alias, k
  <2>3. /\ s \in Slots /\ s.ty = "agg" /\ s.alias = alias /\ s.leaf = below.leaf /\ s.deriv = below.deriv
        /\ stk \in Seq(Slots) /\ Len(stk) = Len(stack) /\ stk[k] = s /\ \A j \in DOMAIN stack : j # k => stk[j] = stack[j]
    <3>1. k \in DOMAIN stack /\ alias \in SUBSET Regions
      BY <1>2, <2>1
    <3>2. /\ s \in Slots /\ s.alias = alias /\ s.ty = stack[k].ty /\ s.leaf = stack[k].leaf /\ s.deriv = stack[k].deriv
          /\ stk \in Seq(Slots) /\ Len(stk) = Len(stack) /\ stk[k] = s /\ \A j \in DOMAIN stack : j # k => stk[j] = stack[j]
      BY <2>2, <3>1, Widened, Zenon
    <3> HIDE DEF s, stk
    <3> QED BY <1>6, <3>2
  <2> HIDE DEF stk, s
  <2>4. stk \in Seq(Slots) /\ Agrees(stk, bound, done, moved, vals, env, gone) /\ Usable(stk, env, done, moved) = LiveNow
        /\ DOMAIN H1 = DOMAIN HeldNow /\ H1[p] = Held(s, vals[k]) /\ \A r \in DOMAIN HeldNow : r # p => H1[r] = HeldNow[r]
    BY <1>2, <1>6, <2>1, <2>3, Widens, SMTT(30)
  <2> HIDE DEF H1
  <2>5. /\ H1[p].ty = "agg" /\ H1[p].st = vals[k].st /\ H1[p].alias = alias
        /\ HeldNow[p].ty = "agg" /\ HeldNow[p].st = vals[k].st /\ HeldNow[p].alias = below.alias /\ HeldNow[p].via = vals[k].via
    BY <1>3, <1>6, <2>3, <2>4, HeldIs
  <2>6. vals[k].via = {}
    BY <1>3, <1>4, <2>5 DEF Good, Descent, IsRef
  <2>7. ASSUME NEW h \in LiveNow, H1[h].ty = "mut", H1[h].st = vals[k].st PROVE FALSE
    <3>1. h # p /\ HeldNow[h].ty = "mut" /\ HeldNow[h].st = HeldNow[p].st /\ h \in DOMAIN HeldNow
      BY <1>4, <2>4, <2>5, <2>7
    <3>2. FromRegion(HeldNow, h, p)
      BY <1>3, <1>4, <2>5, <3>1, Places, SMTT(30) DEF Good, SoleOwner, IsRef
    <3>3. Overlap(below.alias, HeldNow[h].alias)
      BY <2>5, <3>2 DEF FromRegion, Overlap, PathsMeet
    <3>4. \A j \in DOMAIN stack : h = InSlot(j) => stack[j] \in others
      BY <3>1
    <3> HIDE DEF others
    <3>5. ReferenceInto(below.alias, TRUE, others)
      BY <3>1, <3>3, <3>4, SeenReference DEF IsRef
    <3> QED BY <1>1, <1>6, <3>5 DEF Anonymous, IsRef
  <2>8. Again(H1, LiveNow, p, Held(s, vals[k]))
    BY <1>3, <2>1, <2>3, <2>4, <2>5, <2>7, HeldIs DEF Again
  <2>9. stack' = Append(stk, s) /\ Execute(Append(vals, vals[k]), env, {})
    BY <1>1, <1>2 DEF stk, s, alias, k
  <2>10. Agrees(stack', bound, done, moved, vals', env', gone')
    <3>1. ~IsRef(s.ty) /\ vals[k].ty = s.ty
      BY <1>3, <1>6, <2>3 DEF IsRef
    <3>2. Again(Holding(stk, bound, vals, env), Usable(stk, env, done, moved), p, Held(s, vals[k]))
      BY <2>4, <2>8 DEF H1
    <3> HIDE DEF p
    <3> QED BY <1>3, <2>3, <2>4, <2>6, <2>9, <3>1, <3>2, PushOwned
  <2> QED BY <1>1, <2>10
<1> QED BY <1>1, <1>5, <1>6

LEMMA BelowAre ==
  ASSUME NEW S, NEW s \in Seq(S), NEW n \in 0..Len(s)
  PROVE  /\ Below(s, n) \in Seq(S) /\ Len(Below(s, n)) = Len(s) - n
         /\ \A j \in 1..Len(s) - n : Below(s, n)[j] = s[j] /\ s[j] \in SlotsOf(Below(s, n))
<1>1. Below(s, n) \in Seq(S) /\ Len(Below(s, n)) = Len(s) - n /\ \A j \in 1..Len(s) - n : Below(s, n)[j] = s[j]
  BY DEF Below
<1>2. DOMAIN Below(s, n) = 1..Len(s) - n
  BY <1>1
<1> QED BY <1>1, <1>2 DEF SlotsOf

LEMMA ProjectOwnedAgrees ==
  ASSUME BorrowAssumption, Plain, Running, NEW f \in Fields, NEW mutable \in BOOLEAN, ProjectOwned(f, mutable)
  PROVE  Agrees(stack', bound', done', moved', vals', env', gone')
<1> DEFINE n == Len(stack)
           p == InSlot(n)
           q == InSlot(n + 1)
           base == IF Top.alias = {} THEN FreshAlias ELSE Top.alias
           alias == FieldAlias(base, f)
           below == SlotsOf(Below(stack, 1))
           stk == [stack EXCEPT ![n].alias = base]
           s == Slot(RefTo(mutable), TRUE, alias, Top.deriv)
           v == Value(RefTo(mutable), TopVal.st, f, {})
           H1 == Holding(stk, bound, vals, env)
           H2 == Holding(Append(stk, s), bound, Append(vals, v), env)
<1>1. /\ stack # <<>> /\ ~IsRef(Top.ty) /\ FreeRegions # {} /\ ~ReferenceInto(alias, mutable, below)
      /\ mutable => ~AliasedElsewhere(base, Names, below) /\ ~BorrowedAs(base)
      /\ stack' = Append(stk, s) /\ Execute(Append(vals, v), env, {}) /\ UNCHANGED <<bound, done, moved>>
  BY DEF ProjectOwned, Has, Plain
<1>2. n \in DOMAIN stack /\ Top = stack[n] /\ TopVal = vals[n] /\ stack \in Seq(Slots) /\ n \in Nat \ {0}
  BY <1>1, RunningIs DEF Running, Fit, StackOK, Top, TopVal
<1>3. Top \in Slots /\ TopVal \in Values /\ HeldNow[p] = Held(Top, TopVal) /\ p \in LiveNow /\ p \in DOMAIN HeldNow /\ IsSlot(p)
  BY <1>2, RunningIs, HeldHere, Places
<1>4. Top.alias \subseteq Ids \X {Whole} /\ Top.deriv = Nothing /\ TopVal.ty = Top.ty
  BY <1>1, <1>2, RunningIs DEF SlotOK
<1>5. base \subseteq Ids \X {Whole} /\ base # {} /\ Top.alias \subseteq base
  BY <1>1, <1>4, FreshIsRegion
<1> HIDE DEF base
<1>6. base \in SUBSET Regions /\ alias \in SUBSET Regions /\ \A r \in base : r = <<r[1], Whole>> /\ <<r[1], f>> \in alias
  BY <1>5 DEF Regions, FieldAlias
<1>7. \A y \in alias : \E r \in base : y = <<r[1], f>>
  BY DEF FieldAlias
<1> HIDE DEF alias
<1>8. RefTo(mutable) \in Types /\ (RefTo(mutable) = "mut" <=> mutable) /\ IsRef(RefTo(mutable))
  BY DEF RefTo, IsRef, Types
<1>9. /\ s \in Slots /\ s.ty = RefTo(mutable) /\ s.leaf = TRUE /\ s.alias = alias /\ s.deriv = Nothing
      /\ v \in Values /\ v.ty = RefTo(mutable) /\ v.st = TopVal.st /\ v.path = f /\ v.via = {}
  BY <1>3, <1>4, <1>6, <1>8 DEF Slot, Slots, Value, Values
<1> HIDE DEF s, v, n
<1>10. /\ stk \in Seq(Slots) /\ Len(stk) = Len(stack) /\ stk[n].alias = base /\ stk[n].ty = Top.ty /\ stk[n].leaf = Top.leaf
       /\ stk[n].deriv = Top.deriv /\ \A j \in DOMAIN stack : j # n => stk[j] = stack[j]
  <2>1. base \in SUBSET Regions /\ n \in DOMAIN stack /\ stack \in Seq(Slots)
    BY <1>2, <1>6
  <2> DEFINE z == [stack[n] EXCEPT !.alias = base]
  <2>2. /\ z.alias = base /\ z.ty = stack[n].ty /\ z.leaf = stack[n].leaf /\ z.deriv = stack[n].deriv
        /\ stk \in Seq(Slots) /\ Len(stk) = Len(stack) /\ stk[n] = z /\ \A j \in DOMAIN stack : j # n => stk[j] = stack[j]
    BY <2>1, Widened, ZenonT(40)
  <2> HIDE DEF z, stk
  <2> QED BY <1>2, <2>2
<1> HIDE DEF stk
<1>11. /\ Agrees(stk, bound, done, moved, vals, env, gone) /\ Usable(stk, env, done, moved) = LiveNow
       /\ DOMAIN H1 = DOMAIN HeldNow /\ H1[p] = Held(stk[n], vals[n]) /\ \A r \in DOMAIN HeldNow : r # p => H1[r] = HeldNow[r]
  BY <1>2, <1>5, <1>10, Widens, ZenonT(40)
<1>12. Len(vals) = Len(stk) /\ vals \in Seq(Values)
  BY <1>10, RunningIs DEF Running, Fit
<1>13. q = InSlot(Len(stk) + 1)
  BY <1>10 DEF n
<1>14. Added(H1, q, H2) /\ H2[q] = Held(s, v)
  <2>1. Added(H1, InSlot(Len(stk) + 1), H2) /\ H2[InSlot(Len(stk) + 1)] = Held(s, v)
    BY <1>9, <1>10, <1>12, Pushed, SMTT(30)
  <2> HIDE DEF H1, H2, q
  <2> QED BY <1>13, <2>1
<1>15. Good(H1, LiveNow, gone) /\ LiveNow \subseteq DOMAIN H1
  BY <1>11, RunningIs DEF Agrees
<1> HIDE DEF H1, H2, q, p
<1>16. /\ ~IsRef(H1[p].ty) /\ H1[p].st = TopVal.st /\ H1[p].alias = base
       /\ H2[q].ty = RefTo(mutable) /\ H2[q].deriv = Nothing /\ H2[q].st = TopVal.st /\ H2[q].path = f /\ H2[q].alias = alias /\ H2[q].via = {}
       /\ \A r \in DOMAIN H1 : H2[r] = H1[r] /\ r \in DOMAIN H2
  BY <1>1, <1>2, <1>9, <1>10, <1>11, <1>14, HeldIs DEF Added
<1>17. \A j \in DOMAIN stack : p # InSlot(j) => stack[j] \in below
  <2>1. \A j \in 1..Len(stack) - 1 : stack[j] \in below
    <3>1. 1 \in 0..Len(stack) /\ stack \in Seq(Slots)
      BY <1>2 DEF n
    <3> QED BY <3>1, BelowAre
  <2>2. \A j \in DOMAIN stack : j # n => j \in 1..Len(stack) - 1
    BY <1>2 DEF n
  <2> QED BY <2>1, <2>2 DEF p
<1>18. \A k \in DOMAIN stack : \A r \in LiveNow : r # p /\ r = InSlot(k) => stack[k] \in below
  BY <1>17
<1> HIDE DEF below
<1>19. ASSUME NEW k \in LiveNow, ~IsRef(H1[k].ty), H1[k].st = TopVal.st
       PROVE  FromRegion(H2, q, k) /\ (k # p => Overlap(base, HeldNow[k].alias))
  <2>1. CASE k = p
    <3>1. PICK r \in base : TRUE
      BY <1>5
    <3>2. <<r[1], f>> \in H2[q].alias /\ <<r[1], Whole>> \in H2[k].alias
      BY <1>6, <1>15, <1>16, <2>1, <3>1
    <3> QED BY <1>16, <2>1, <3>2 DEF FromRegion
  <2>2. CASE k # p
    <3>1. H1[k] = HeldNow[k] /\ k \in DOMAIN HeldNow
      BY <1>11, <1>15, <2>2
    <3>2. Overlap(H1[p].alias, H1[k].alias)
      BY <1>3, <1>15, <1>16, <1>19, <2>2 DEF Good, SharedSeen
    <3>3. PICK r \in base, y \in HeldNow[k].alias : r[1] = y[1]
      BY <1>16, <3>1, <3>2 DEF Overlap
    <3>4. HeldNow[k].alias \subseteq Ids \X {Whole}
      BY <1>19, <3>1, HeldKinds
    <3>5. y = <<r[1], Whole>>
      BY <3>3, <3>4
    <3>6. <<r[1], f>> \in H2[q].alias /\ <<r[1], Whole>> \in H2[k].alias
      BY <1>6, <1>15, <1>16, <3>1, <3>3, <3>5
    <3> QED BY <1>16, <3>1, <3>2, <3>6 DEF FromRegion
  <2> QED BY <2>1, <2>2
<1>20. Leads(H1, LiveNow, H2, q)
  BY <1>16, <1>19 DEF Leads
<1>21. ASSUME mutable PROVE Alone(H1, LiveNow, H2, q)
  <2>1. ASSUME NEW k \in LiveNow, ~IsRef(H1[k].ty), H1[k].st = TopVal.st PROVE k = p
    <3> SUFFICES ASSUME k # p PROVE FALSE
      OBVIOUS
    <3>1. Overlap(base, HeldNow[k].alias)
      BY <1>19, <2>1
    <3>2. AliasedElsewhere(base, Names, below)
      BY <1>18, <3>1, SeenElsewhere
    <3> QED BY <1>1, <1>21, <3>2
  <2> QED BY <1>3, <1>16, <1>19, <2>1 DEF Alone
<1>22. ASSUME NEW k \in LiveNow, IsRef(H1[k].ty), H1[k].st = TopVal.st, PathsMeet(H1[k].path, f), H1[k].ty = "mut" \/ mutable
       PROVE  FALSE
  <2>1. k # p /\ H1[k] = HeldNow[k] /\ k \in DOMAIN HeldNow
    BY <1>11, <1>15, <1>16, <1>22
  <2>2. CASE FromRegion(H1, k, p)
    <3>1. PICK x \in H1[k].alias : x[2] = H1[k].path /\ <<x[1], Whole>> \in base
      BY <1>16, <2>2 DEF FromRegion
    <3>2. <<x[1], f>> \in alias
      BY <1>6, <3>1
    <3>3. Overlap(alias, HeldNow[k].alias)
      BY <1>22, <2>1, <3>1, <3>2 DEF Overlap, PathsMeet
    <3>4. ReferenceInto(alias, mutable, below)
      BY <1>18, <1>22, <2>1, <3>3, SeenReference
    <3> QED BY <1>1, <3>4
  <2>3. CASE FromRoot(H1, k, p) /\ mutable
    <3>1. PICK r : r = InName(H1[k].deriv.root)
      OBVIOUS
    <3>2. H1[k].deriv # Nothing /\ r \in DOMAIN H1 /\ r # p /\ Overlap(base, H1[r].alias)
      BY <1>3, <1>16, <2>3, <3>1, Places DEF FromRoot
    <3>3. H1[r] = HeldNow[r] /\ r \in DOMAIN HeldNow
      BY <1>11, <3>2
    <3>4. BorrowedAs(base)
      BY <1>22, <2>1, <3>1, <3>2, <3>3, SeenBorrowed
    <3> QED BY <1>1, <2>3, <3>4
  <2>4. CASE ~mutable
    <3>1. FromRegion(H1, k, p)
      BY <1>3, <1>15, <1>16, <1>22, <2>4, Places DEF Good, SoleOwner
    <3> QED BY <2>2, <3>1
  <2> QED BY <1>3, <1>15, <1>16, <1>22, <2>2, <2>3, <2>4 DEF Good, Traced
<1>23. Unrivalled(H1, LiveNow, H2, q)
  BY <1>8, <1>16, <1>22 DEF Unrivalled
<1>24. v.st \notin gone
  BY <1>3, <1>9, <1>15, <1>16 DEF Good, OwnedThere
<1>25. s.leaf <=> v.path # Whole
  BY <1>9 DEF BorrowAssumption
<1>26. /\ Leads(Holding(stk, bound, vals, env), Usable(stk, env, done, moved),
                Holding(Append(stk, s), bound, Append(vals, v), env), InSlot(Len(stk) + 1))
       /\ s.ty = "mut" => Alone(Holding(stk, bound, vals, env), Usable(stk, env, done, moved),
                                Holding(Append(stk, s), bound, Append(vals, v), env), InSlot(Len(stk) + 1))
       /\ Unrivalled(Holding(stk, bound, vals, env), Usable(stk, env, done, moved),
                     Holding(Append(stk, s), bound, Append(vals, v), env), InSlot(Len(stk) + 1))
  BY <1>8, <1>9, <1>11, <1>13, <1>20, <1>21, <1>23 DEF H1, H2
<1>27. Agrees(stack', bound, done, moved, vals', env', gone')
  BY <1>1, <1>8, <1>9, <1>10, <1>11, <1>24, <1>25, <1>26, PushReference
<1> QED BY <1>1, <1>27

LEMMA ConsumeAgrees ==
  ASSUME BorrowAssumption, Running, NEW k, Consume(k)
  PROVE  Agrees(stack', bound', done', moved', vals', env', gone')
<1> DEFINE n == Len(stack)
           stk == Below(stack, k)
           vs == Below(vals, k)
           D == {vals[i].st : i \in {j \in Len(vals) - k + 1..Len(vals) : vals[j].ty = "lin"}}
           g2 == (gone \cup D) \cap StoragesInUse(vs, env)
           H2 == Holding(stk, bound, vs, env)
           L2 == Usable(stk, env, done, moved)
           phi == [p \in DOMAIN H2 |-> p]
<1>1. /\ k \in 1..n /\ stack' = stk /\ Execute(vs, env, D) /\ UNCHANGED <<bound, done, moved>>
      /\ \A i \in n - k + 1..n : ~ConsumptionStrands(stack[i], {stack[j] : j \in DOMAIN stack \ {i}})
  BY DEF Consume
<1>2. stack \in Seq(Slots) /\ vals \in Seq(Values) /\ Len(vals) = n /\ n \in Nat /\ DOMAIN stack = 1..n /\ DOMAIN vals = 1..n
  BY RunningIs DEF Running, Fit, StackOK
<1>3. k \in 0..Len(stack) /\ k \in 0..Len(vals)
  BY <1>1, <1>2, SMTT(30)
<1>4. /\ stk \in Seq(Slots) /\ Len(stk) = n - k /\ vs \in Seq(Values) /\ Len(vs) = n - k
      /\ \A j \in 1..n - k : stk[j] = stack[j] /\ vs[j] = vals[j]
  BY <1>2, <1>3, BelowAre, ZenonT(40)
<1> HIDE DEF stk, vs
<1>5. DOMAIN stk = 1..n - k /\ DOMAIN vs = 1..n - k /\ \A j \in 1..n - k : j \in DOMAIN stack
  BY <1>1, <1>2, <1>4
<1>6. DOMAIN H2 \subseteq DOMAIN HeldNow /\ L2 \subseteq LiveNow /\ L2 \subseteq DOMAIN H2
  <2>1. Positions(stk, env) \subseteq Positions(stack, env)
    BY <1>5 DEF Positions
  <2> QED BY <2>1, HoldingIs, UsableAre DEF Usable, LiveNow, HeldNow
<1>7. ASSUME NEW p \in DOMAIN H2 PROVE H2[p] = HeldNow[p]
  <2>1. p \in Positions(stk, env)
    BY HoldingIs
  <2>2. CASE \E j \in DOMAIN stk : p = InSlot(j)
    <3>1. PICK j \in DOMAIN stk : p = InSlot(j)
      BY <2>2
    <3>2. H2[p] = Held(stk[j], vs[j])
      BY <3>1, HoldingIs
    <3>3. HeldNow[p] = Held(stack[j], vals[j])
      BY <1>5, <3>1, HeldHere
    <3> QED BY <1>4, <1>5, <3>1, <3>2, <3>3
  <2>3. CASE \E m \in Names : env[m] # Nothing /\ p = InName(m)
    BY <2>3, HeldHere, HoldingIs
  <2> QED BY <2>1, <2>2, <2>3, PositionsAre
<1>8. \A m : InName(m) \in DOMAIN HeldNow => InName(m) \in DOMAIN H2
  BY HeldHere, HoldingIs, PositionsAre
<1>9. \A i \in n - k + 1..n : InSlot(i) \notin DOMAIN H2
  <2>1. \A i \in n - k + 1..n : i \notin DOMAIN stk
    BY <1>1, <1>2, <1>5
  <2> QED BY <2>1, HoldingIs, PositionsAre
<1>10. Good(HeldNow, LiveNow, gone) /\ LiveNow \subseteq DOMAIN HeldNow
  BY RunningIs
<1> HIDE DEF H2, L2, D
<1>11. ASSUME NEW i \in n - k + 1..n, vals[i].ty = "lin", NEW p \in DOMAIN H2, H2[p].st = vals[i].st,
              p \in L2 \/ ~IsRef(H2[p].ty)
       PROVE  FALSE
  <2> DEFINE c == InSlot(i)
  <2>1. i \in DOMAIN stack
    BY <1>1, <1>2
  <2>2. c \in LiveNow /\ c \in DOMAIN HeldNow /\ HeldNow[c].ty = "lin" /\ HeldNow[c].st = vals[i].st /\ HeldNow[c].alias = stack[i].alias
        /\ stack[i].ty = "lin"
    BY <1>11, <2>1, HeldHere, HeldIs, RunningIs
  <2>3. p # c /\ p \in DOMAIN HeldNow /\ HeldNow[p] = H2[p]
    BY <1>6, <1>7, <1>9
  <2>4. CASE ~IsRef(H2[p].ty)
    BY <1>10, <1>11, <2>2, <2>3, <2>4 DEF Good, LinearAlone
  <2>5. CASE p \in L2 /\ IsRef(H2[p].ty)
    <3>1. p \in LiveNow /\ (FromRoot(HeldNow, p, c) \/ FromRegion(HeldNow, p, c))
      BY <1>6, <1>10, <1>11, <2>2, <2>3, <2>5 DEF Good, Traced, IsRef
    <3>2. CASE FromRoot(HeldNow, p, c)
      <4>1. PICK r : r = InName(HeldNow[p].deriv.root)
        OBVIOUS
      <4>2. r \in DOMAIN HeldNow /\ ~IsRef(HeldNow[r].ty) /\ HeldNow[r].st = HeldNow[c].st
        BY <1>11, <2>2, <2>3, <3>2, <4>1 DEF FromRoot
      <4>3. r # c
        BY <4>1, Places
      <4> QED BY <1>10, <2>2, <4>2, <4>3 DEF Good, LinearAlone
    <3>3. CASE FromRegion(HeldNow, p, c)
      <4>1. Overlap(stack[i].alias, HeldNow[p].alias)
        BY <2>2, <3>3 DEF FromRegion, Overlap, PathsMeet
      <4>2. \A j \in DOMAIN stack : p = InSlot(j) => stack[j] \in {stack[h] : h \in DOMAIN stack \ {i}}
        BY <2>3
      <4>3. ReferenceInto(stack[i].alias, TRUE, {stack[h] : h \in DOMAIN stack \ {i}})
        BY <2>3, <2>5, <3>1, <4>1, <4>2, SeenReference
      <4> QED BY <1>1, <2>2, <4>3 DEF ConsumptionStrands, IsRef
    <3> QED BY <3>1, <3>2, <3>3
  <2> QED BY <1>11, <2>4, <2>5
<1>12. \A p \in DOMAIN H2 : (p \in L2 \/ ~IsRef(H2[p].ty)) /\ H2[p].st \in g2 => H2[p].st \in gone
  BY <1>2, <1>11 DEF D
<1>13. /\ \A p \in DOMAIN H2 : phi[p] = p
       /\ phi \in [DOMAIN H2 -> DOMAIN HeldNow]
  BY <1>6
<1> HIDE DEF phi, g2
<1>14. \A p \in DOMAIN H2 : SameValue(HeldNow, H2, phi, p)
  BY <1>6, <1>7, <1>8, <1>10, <1>13 DEF SameValue, Good, Descent
<1>15. \A p \in L2 : SameReference(HeldNow, H2, L2, phi, p)
  BY <1>6, <1>7, <1>8, <1>13 DEF SameReference, KeepsPlaces
<1>16. Leaves(H2)
  BY <1>6, <1>7, <1>10 DEF Good, Leaves
<1>17. Carried(HeldNow, LiveNow, gone, H2, L2, g2, phi)
  BY <1>6, <1>12, <1>13, <1>14, <1>15, <1>16 DEF Carried
<1>18. Good(H2, L2, g2)
  BY <1>10, <1>17, Transfer
<1>19. \A j \in DOMAIN stk : vs[j].ty = stk[j].ty
  BY <1>4, <1>5, RunningIs
<1>20. Agrees(stk, bound, done, moved, vs, env, g2)
  BY <1>4, <1>18, <1>19 DEF Agrees, Running, H2, L2, g2
<1>21. vals' = vs /\ env' = env /\ gone' = g2
  BY <1>1, Executed DEF g2
<1> QED BY <1>1, <1>20, <1>21

LEMMA SwapAgrees ==
  ASSUME BorrowAssumption, Running, Swap
  PROVE  Agrees(stack', bound', done', moved', vals', env', gone')
<1> DEFINE n == Len(stack)
           stk == Exchange(stack)
           vs == Exchange(vals)
           turn == [j \in 1..n |-> IF j = n THEN n - 1 ELSE IF j = n - 1 THEN n ELSE j]
           g2 == (gone \cup {}) \cap StoragesInUse(vs, env)
           H2 == Holding(stk, bound, vs, env)
           L2 == Usable(stk, env, done, moved)
           phi == [p \in DOMAIN H2 |-> IF IsSlot(p) THEN InSlot(turn[p[2]]) ELSE p]
<1>1. n >= 2 /\ stack' = stk /\ Execute(vs, env, {}) /\ UNCHANGED <<bound, done, moved>>
  BY DEF Swap, Running
<1>2. stack \in Seq(Slots) /\ vals \in Seq(Values) /\ Len(vals) = n /\ n \in Nat /\ DOMAIN stack = 1..n /\ DOMAIN vals = 1..n
  BY RunningIs DEF Running, Fit, StackOK
<1>3. /\ stk \in Seq(Slots) /\ Len(stk) = n /\ vs \in Seq(Values) /\ Len(vs) = n /\ DOMAIN stk = 1..n /\ DOMAIN vs = 1..n
      /\ \A j \in 1..n : turn[j] \in 1..n /\ stk[j] = stack[turn[j]] /\ vs[j] = vals[turn[j]]
      /\ \A i, j \in 1..n : turn[i] = turn[j] => i = j
  BY <1>1, <1>2 DEF Exchange
<1> HIDE DEF stk, vs, turn
<1>4. DOMAIN H2 = DOMAIN HeldNow /\ L2 = LiveNow /\ LiveNow \subseteq DOMAIN HeldNow
  <2>1. Positions(stk, env) = Positions(stack, env)
    BY <1>2, <1>3 DEF Positions
  <2> QED BY <2>1, HoldingIs, UsableAre DEF Usable, LiveNow, HeldNow
<1>5. \A j \in 1..n : InSlot(j) \in DOMAIN H2 /\ phi[InSlot(j)] = InSlot(turn[j]) /\ H2[InSlot(j)] = HeldNow[InSlot(turn[j])]
  <2> SUFFICES ASSUME NEW j \in 1..n
               PROVE  InSlot(j) \in DOMAIN H2 /\ phi[InSlot(j)] = InSlot(turn[j]) /\ H2[InSlot(j)] = HeldNow[InSlot(turn[j])]
    OBVIOUS
  <2>1. InSlot(j) \in DOMAIN H2 /\ H2[InSlot(j)] = Held(stk[j], vs[j])
    BY <1>3, HoldingIs, PositionsAre
  <2>2. HeldNow[InSlot(turn[j])] = Held(stack[turn[j]], vals[turn[j]])
    BY <1>2, <1>3, HeldHere
  <2>3. phi[InSlot(j)] = InSlot(turn[j])
    BY <2>1, Places
  <2> QED BY <1>3, <2>1, <2>2, <2>3
<1>6. \A m : InName(m) \in DOMAIN HeldNow => InName(m) \in DOMAIN H2 /\ phi[InName(m)] = InName(m) /\ H2[InName(m)] = HeldNow[InName(m)]
  BY <1>4, Places, HeldHere, HoldingIs
<1>7. \A p \in DOMAIN H2 : (\E j \in 1..n : p = InSlot(j)) \/ (\E m : p = InName(m))
  BY <1>2, <1>4, HeldHere
<1>8. Good(HeldNow, LiveNow, gone)
  BY RunningIs
<1>9. g2 \subseteq gone
  OBVIOUS
<1> HIDE DEF H2, L2, phi, g2
<1>10. ASSUME NEW p \in DOMAIN H2
       PROVE  phi[p] \in DOMAIN HeldNow /\ H2[p] = HeldNow[phi[p]] /\ (p \in LiveNow => phi[p] \in LiveNow)
  <2>1. CASE \E j \in 1..n : p = InSlot(j)
    <3>1. PICK j \in 1..n : p = InSlot(j)
      BY <2>1
    <3>2. turn[j] \in DOMAIN stack
      BY <1>2, <1>3
    <3>3. InSlot(turn[j]) \in LiveNow /\ InSlot(turn[j]) \in DOMAIN HeldNow
      BY <3>2, HeldHere
    <3> QED BY <1>5, <3>1, <3>3
  <2>2. CASE \E m : p = InName(m)
    BY <1>4, <1>6, <2>2
  <2> QED BY <1>7, <2>1, <2>2
<1>11. phi \in [DOMAIN H2 -> DOMAIN HeldNow]
  BY <1>10 DEF phi
<1>12. ASSUME NEW p \in DOMAIN H2, NEW q \in DOMAIN H2, phi[p] = phi[q] PROVE p = q
  BY <1>3, <1>4, <1>5, <1>6, <1>7, <1>12, Places
<1>13. \A p \in L2 : phi[p] \in LiveNow
  BY <1>4, <1>10
<1>14. \A p \in DOMAIN H2 : SameValue(HeldNow, H2, phi, p)
  BY <1>6, <1>8, <1>10 DEF SameValue, Good, Descent
<1>15. \A p \in DOMAIN H2 : \A m : phi[p] = InName(m) => p = InName(m)
  BY <1>3, <1>4, <1>5, <1>6, <1>7, Places
<1>16. \A p \in L2 : SameReference(HeldNow, H2, L2, phi, p)
  BY <1>4, <1>6, <1>10, <1>15 DEF SameReference, KeepsPlaces
<1>17. Leaves(H2)
  BY <1>8, <1>10 DEF Good, Leaves
<1>18. \A p \in L2 : IsSlot(phi[p]) => IsSlot(p)
  BY <1>4, <1>6, <1>7, Places
<1>19. Carried(HeldNow, LiveNow, gone, H2, L2, g2, phi)
  BY <1>4, <1>9, <1>11, <1>12, <1>13, <1>14, <1>16, <1>17, <1>18 DEF Carried
<1>20. Good(H2, L2, g2)
  BY <1>4, <1>8, <1>19, Transfer
<1>21. \A j \in DOMAIN stk : vs[j].ty = stk[j].ty
  BY <1>2, <1>3, RunningIs
<1>22. Agrees(stk, bound, done, moved, vs, env, g2)
  BY <1>3, <1>20, <1>21 DEF Agrees, Running, H2, L2, g2
<1>23. vals' = vs /\ env' = env /\ gone' = g2
  BY <1>1, Executed DEF g2
<1> QED BY <1>1, <1>22, <1>23

LEMMA ProjectReferenceAgrees ==
  ASSUME BorrowAssumption, Running, NEW f \in Fields, ProjectReference(f)
  PROVE  Agrees(stack', bound', done', moved', vals', env', gone')
<1> DEFINE n == Len(stack)
           p == InSlot(n)
           stk == [stack EXCEPT ![n].leaf = TRUE]
           vs == [vals EXCEPT ![Len(vals)].path = f]
           g2 == (gone \cup {}) \cap StoragesInUse(vs, env)
           H2 == Holding(stk, bound, vs, env)
           L2 == Usable(stk, env, done, moved)
           phi == [r \in DOMAIN HeldNow |-> r]
           s == [stack[n] EXCEPT !.leaf = TRUE]
           v == [vals[n] EXCEPT !.path = f]
<1>1. /\ stack # <<>> /\ IsRef(Top.ty) /\ ~Top.leaf /\ stack' = stk /\ Execute(vs, env, {}) /\ UNCHANGED <<bound, done, moved>>
  BY DEF ProjectReference, Running
<1>2. /\ stack \in Seq(Slots) /\ vals \in Seq(Values) /\ Len(vals) = n /\ n \in Nat \ {0} /\ DOMAIN stack = 1..n /\ DOMAIN vals = 1..n
      /\ Top = stack[n] /\ n \in DOMAIN stack
  BY <1>1, RunningIs DEF Running, Fit, StackOK, Top
<1>3. stack[n] \in Slots /\ vals[n] \in Values /\ vals[n].ty = stack[n].ty
  BY <1>2, RunningIs
<1>4. /\ s \in Slots /\ s.ty = stack[n].ty /\ s.leaf = TRUE /\ s.alias = stack[n].alias /\ s.deriv = stack[n].deriv
      /\ v \in Values /\ v.ty = vals[n].ty /\ v.st = vals[n].st /\ v.path = f /\ v.via = vals[n].via
  BY <1>3 DEF Slots, Values
<1>5. stk = [stack EXCEPT ![n] = s] /\ vs = [vals EXCEPT ![n] = v]
  BY <1>2
<1>6. n = Len(stack)
  OBVIOUS
<1> HIDE DEF s, v, stk, vs
<1>7. /\ stk \in Seq(Slots) /\ Len(stk) = n /\ vs \in Seq(Values) /\ Len(vs) = n /\ DOMAIN stk = 1..n /\ DOMAIN vs = 1..n
      /\ stk[n] = s /\ vs[n] = v /\ \A j \in 1..n : j # n => stk[j] = stack[j] /\ vs[j] = vals[j]
  <2> HIDE DEF n
  <2>1. stk \in Seq(Slots) /\ Len(stk) = n /\ DOMAIN stk = 1..n /\ stk[n] = s /\ \A j \in 1..n : j # n => stk[j] = stack[j]
    BY <1>6, <1>2, <1>4, <1>5
  <2>2. vs \in Seq(Values) /\ Len(vs) = n /\ DOMAIN vs = 1..n /\ vs[n] = v /\ \A j \in 1..n : j # n => vs[j] = vals[j]
    BY <1>2, <1>4, <1>5
  <2> QED BY <2>1, <2>2
<1>8. DOMAIN H2 = DOMAIN HeldNow /\ L2 = LiveNow /\ LiveNow \subseteq DOMAIN HeldNow
  <2>1. Positions(stk, env) = Positions(stack, env)
    BY <1>2, <1>7 DEF Positions
  <2> QED BY <2>1, HoldingIs, UsableAre DEF Usable, LiveNow, HeldNow
<1>9. Good(HeldNow, LiveNow, gone)
  BY RunningIs
<1>10. p \in LiveNow /\ p \in DOMAIN HeldNow /\ HeldNow[p] = Held(stack[n], vals[n]) /\ H2[p] = Held(s, v)
  <2>1. n \in DOMAIN stk /\ n \in DOMAIN stack /\ stk[n] = s /\ vs[n] = v
    BY <1>2, <1>7
  <2>2. H2[p] = Held(stk[n], vs[n])
    BY <2>1, HoldingIs
  <2> QED BY <2>1, <2>2, HeldHere
<1>11. ASSUME NEW r \in DOMAIN HeldNow, r # p PROVE H2[r] = HeldNow[r]
  <2>1. CASE \E j \in DOMAIN stack : r = InSlot(j)
    <3>1. PICK j \in DOMAIN stack : r = InSlot(j)
      BY <2>1, SMTT(30)
    <3>2. j # n /\ j \in DOMAIN stk /\ stk[j] = stack[j] /\ vs[j] = vals[j]
      BY <1>2, <1>7, <1>11, <3>1
    <3>3. H2[r] = Held(stk[j], vs[j])
      BY <3>1, <3>2, HoldingIs
    <3> QED BY <3>1, <3>2, <3>3, HeldHere
  <2>2. CASE \E m \in Names : env[m] # Nothing /\ r = InName(m)
    BY <2>2, HeldHere, HoldingIs
  <2> QED BY <2>1, <2>2, HeldHere
<1> HIDE DEF H2, L2, p, n
<1>12. /\ IsRef(HeldNow[p].ty) /\ HeldNow[p].leaf = stack[n].leaf /\ H2[p].leaf = TRUE /\ H2[p].path = f
       /\ H2[p].ty = HeldNow[p].ty /\ H2[p].st = HeldNow[p].st /\ H2[p].alias = HeldNow[p].alias
       /\ H2[p].deriv = HeldNow[p].deriv /\ H2[p].via = HeldNow[p].via
  BY <1>1, <1>2, <1>3, <1>4, <1>10, HeldIs
<1>13. HeldNow[p].path = Whole
  BY <1>1, <1>2, <1>9, <1>10, <1>12 DEF Good, Leaves
<1>14. f # Whole
  BY DEF BorrowAssumption
<1>15. \A x \in HeldNow[p].alias : x[2] # Whole
  <2>1. HeldNow[p].alias \subseteq Ids \X Fields
    BY <1>10, <1>12, HeldKinds
  <2> QED BY <2>1 DEF BorrowAssumption
<1>16. ASSUME NEW r \in DOMAIN HeldNow
       PROVE  /\ H2[r].ty = HeldNow[r].ty /\ H2[r].st = HeldNow[r].st /\ H2[r].alias = HeldNow[r].alias
              /\ H2[r].deriv = HeldNow[r].deriv /\ H2[r].via = HeldNow[r].via
              /\ H2[r].path = HeldNow[r].path \/ (HeldNow[r].path = Whole /\ \A x \in HeldNow[r].alias : x[2] # Whole)
  BY <1>11, <1>12, <1>13, <1>15
<1>17. /\ \A r \in DOMAIN HeldNow : phi[r] = r
       /\ phi \in [DOMAIN HeldNow -> DOMAIN HeldNow]
  OBVIOUS
<1>18. g2 \subseteq gone
  OBVIOUS
<1> HIDE DEF phi, g2
<1>19. \A r \in DOMAIN HeldNow : SameValue(HeldNow, H2, phi, r)
  BY <1>8, <1>9, <1>16, <1>17 DEF SameValue, Good, Descent
<1>20. \A r \in LiveNow : SameReference(HeldNow, H2, LiveNow, phi, r)
  BY <1>8, <1>16, <1>17 DEF SameReference, KeepsPlaces
<1>21. Leaves(H2)
  <2> SUFFICES ASSUME NEW r \in DOMAIN H2, IsRef(H2[r].ty) PROVE H2[r].leaf <=> H2[r].path # Whole
    BY DEF Leaves
  <2>1. CASE r = p
    BY <1>12, <1>14, <2>1
  <2>2. CASE r # p
    BY <1>8, <1>9, <1>11, <2>2 DEF Good, Leaves
  <2> QED BY <2>1, <2>2
<1>22. Carried(HeldNow, LiveNow, gone, H2, LiveNow, g2, phi)
  BY <1>8, <1>17, <1>18, <1>19, <1>20, <1>21 DEF Carried
<1>23. Good(H2, LiveNow, g2)
  BY <1>8, <1>9, <1>22, Transfer
<1>24. \A j \in DOMAIN stk : vs[j].ty = stk[j].ty
  <2> SUFFICES ASSUME NEW j \in DOMAIN stk PROVE vs[j].ty = stk[j].ty
    OBVIOUS
  <2>1. j \in 1..n /\ j \in DOMAIN stack
    BY <1>2, <1>7
  <2>2. CASE j = n
    BY <1>3, <1>4, <1>7, <2>2
  <2>3. CASE j # n
    BY <1>7, <2>1, <2>3, RunningIs
  <2> QED BY <2>2, <2>3
<1>25. Agrees(stk, bound, done, moved, vs, env, g2)
  BY <1>7, <1>8, <1>23, <1>24 DEF Agrees, Running, H2, L2, g2
<1>26. vals' = vs /\ env' = env /\ gone' = g2
  BY <1>1, Executed DEF g2
<1> QED BY <1>1, <1>25, <1>26

LEMMA BindAgrees ==
  ASSUME BorrowAssumption, Plain, Running, Depth \in 0..MaxDepth, NEW m \in Names, NEW last, Bind(m, last)
  PROVE  Agrees(stack', bound', done', moved', vals', env', gone')
<1> DEFINE n == Len(stack)
           p == InSlot(n)
           q == InName(m)
           b == [ty |-> Top.ty, leaf |-> Top.leaf, deriv |-> Top.deriv, level |-> Depth,
                 alias |-> IF Top.alias = {} /\ ~IsRef(Top.ty) THEN FreshAlias ELSE Top.alias]
           stk == Below(stack, 1)
           vs == Below(vals, 1)
           bnd == [bound EXCEPT ![m] = b]
           e2 == [env EXCEPT ![m] = TopVal]
           g2 == (gone \cup {}) \cap StoragesInUse(vs, e2)
           H2 == Holding(stk, bnd, vs, e2)
           L2 == Usable(stk, e2, done, moved)
           phi == [r \in DOMAIN H2 |-> IF r = q THEN p ELSE r]
<1>1. /\ stack # <<>> /\ bound[m] = Nothing /\ FreeRegions # {} /\ ~Anonymous(Top, SlotsOf(Below(stack, 1)))
      /\ bound' = bnd /\ stack' = stk /\ Execute(vs, e2, {}) /\ done \subseteq done' /\ moved' = moved
  BY DEF Bind, Mentioned, Has, Plain
<1>2. /\ stack \in Seq(Slots) /\ vals \in Seq(Values) /\ Len(vals) = n /\ n \in Nat \ {0} /\ DOMAIN stack = 1..n /\ DOMAIN vals = 1..n
      /\ Top = stack[n] /\ TopVal = vals[n] /\ n \in DOMAIN stack
  BY <1>1, RunningIs DEF Running, Fit, StackOK, Top, TopVal
<1>3. Top \in Slots /\ TopVal \in Values /\ TopVal.ty = Top.ty
  BY <1>2, RunningIs
<1>4. 1 \in 0..Len(stack) /\ 1 \in 0..Len(vals)
  BY <1>2
<1>5. /\ stk \in Seq(Slots) /\ Len(stk) = n - 1 /\ vs \in Seq(Values) /\ Len(vs) = n - 1
      /\ \A j \in 1..n - 1 : stk[j] = stack[j] /\ vs[j] = vals[j] /\ stack[j] \in SlotsOf(stk)
  <2>1. stk \in Seq(Slots) /\ Len(stk) = n - 1 /\ \A j \in 1..n - 1 : stk[j] = stack[j] /\ stack[j] \in SlotsOf(stk)
    BY <1>2, <1>4, BelowAre, ZenonT(40)
  <2>2. vs \in Seq(Values) /\ Len(vs) = n - 1 /\ \A j \in 1..n - 1 : vs[j] = vals[j]
    <3>1. /\ vs \in Seq(Values) /\ Len(vs) = Len(vals) - 1
          /\ \A j \in 1..Len(vals) - 1 : vs[j] = vals[j] /\ vals[j] \in SlotsOf(vs)
      BY <1>2, <1>4, BelowAre, Zenon
    <3> HIDE DEF n, vs
    <3> QED BY <1>2, <3>1
  <2> HIDE DEF stk, vs
  <2> QED BY <2>1, <2>2, SMTT(30)
<1>6. b \in Bindings /\ b.ty = Top.ty /\ b.leaf = Top.leaf /\ b.deriv = Top.deriv /\ Top.alias \subseteq b.alias
  BY <1>1, <1>3, FreshIsRegion DEF Bindings, Slots, Regions
<1>7. env[m] = Nothing /\ b # Nothing /\ TopVal # Nothing
  BY <1>1, <1>3, <1>6, RunningIs DEF Scoped, BorrowAssumption
<1> HIDE DEF b
<1>8. /\ bnd[m] = b /\ \A j \in Names : j # m => bnd[j] = bound[j]
      /\ e2[m] = TopVal /\ \A j \in Names : j # m => e2[j] = env[j]
  BY DEF Running, Fit, BoundOK
<1> HIDE DEF stk, vs, bnd, e2
<1>9. DOMAIN stk = 1..n - 1 /\ DOMAIN vs = 1..n - 1 /\ DOMAIN stack = DOMAIN stk \cup {n} /\ n \notin DOMAIN stk
  BY <1>2, <1>5
<1> HIDE DEF n
<1>10. Positions(stk, e2) = (Positions(stack, env) \ {p}) \cup {q}
  <2>1. \A k : InSlot(k) \in Positions(stk, e2) <=> InSlot(k) \in Positions(stack, env) /\ k # n
    BY <1>9, PositionsAre
  <2>2. \A j : InName(j) \in Positions(stk, e2) <=> InName(j) \in Positions(stack, env) \/ j = m
    BY <1>7, <1>8, PositionsAre
  <2>3. ASSUME NEW r \in Positions(stk, e2) PROVE r \in (Positions(stack, env) \ {p}) \cup {q}
    BY <2>1, <2>2, Places, PositionsAre
  <2>4. ASSUME NEW r \in (Positions(stack, env) \ {p}) \cup {q} PROVE r \in Positions(stk, e2)
    BY <2>1, <2>2, Places, PositionsAre
  <2> QED BY <2>3, <2>4
<1>11. /\ DOMAIN H2 = (DOMAIN HeldNow \ {p}) \cup {q} /\ q \notin DOMAIN HeldNow /\ p # q
       /\ p \in LiveNow /\ p \in DOMAIN HeldNow /\ HeldNow[p] = Held(Top, TopVal) /\ H2[q] = Held(b, TopVal)
  <2>1. DOMAIN HeldNow = Positions(stack, env) /\ DOMAIN H2 = Positions(stk, e2)
    BY HoldingIs DEF HeldNow
  <2>2. q \notin DOMAIN HeldNow /\ p # q
    BY <1>7, HeldHere, Places
  <2>3. H2[q] = Held(b, TopVal)
    BY <1>7, <1>8, HoldingIs
  <2> QED BY <1>2, <1>10, <2>1, <2>2, <2>3, HeldHere
<1>12. ASSUME NEW r \in DOMAIN HeldNow, r # p PROVE H2[r] = HeldNow[r]
  <2>1. CASE \E j \in DOMAIN stack : r = InSlot(j)
    <3>1. PICK j \in DOMAIN stack : r = InSlot(j)
      BY <2>1
    <3>2. j \in DOMAIN stk
      BY <1>9, <1>12, <3>1
    <3>3. H2[r] = Held(stk[j], vs[j])
      BY <3>1, <3>2, HoldingIs
    <3> QED BY <1>5, <1>9, <3>1, <3>2, <3>3, HeldHere
  <2>2. CASE \E j \in Names : env[j] # Nothing /\ r = InName(j)
    <3>1. PICK j \in Names : env[j] # Nothing /\ r = InName(j)
      BY <2>2
    <3>2. j # m /\ e2[j] = env[j] /\ bnd[j] = bound[j]
      BY <1>7, <1>8, <3>1
    <3>3. H2[r] = Held(bnd[j], e2[j])
      BY <3>1, <3>2, HoldingIs
    <3> QED BY <3>1, <3>2, <3>3, HeldHere
  <2> QED BY <2>1, <2>2, HeldHere
<1>13. L2 \subseteq (LiveNow \ {p}) \cup {q}
  BY <1>10, UsableAre, Places DEF Usable, LiveNow
<1>14. L2 \subseteq DOMAIN H2
  BY UsableAre, HoldingIs
<1>15. g2 \subseteq gone
  OBVIOUS
<1>16. Good(HeldNow, LiveNow, gone) /\ LiveNow \subseteq DOMAIN HeldNow
  BY RunningIs
<1>17. IsSlot(p) /\ \A j \in DOMAIN stack : p # InSlot(j) => stack[j] \in SlotsOf(stk)
  BY <1>5, <1>9, Places
<1> HIDE DEF H2, L2, g2
<1>18. /\ \A r \in DOMAIN H2 : phi[r] = IF r = q THEN p ELSE r
       /\ phi \in [DOMAIN H2 -> DOMAIN HeldNow]
  BY <1>11
<1> HIDE DEF phi
<1>19. /\ H2[q].ty = HeldNow[p].ty /\ H2[q].st = HeldNow[p].st /\ HeldNow[p].alias \subseteq H2[q].alias /\ H2[q].via = HeldNow[p].via
       /\ H2[q].leaf = HeldNow[p].leaf /\ H2[q].deriv = HeldNow[p].deriv /\ H2[q].path = HeldNow[p].path
       /\ HeldNow[p].alias = Top.alias /\ HeldNow[p].ty = Top.ty
  BY <1>6, <1>11, HeldIs
<1>20. ASSUME NEW j, InName(j) \in DOMAIN HeldNow PROVE InName(j) \in DOMAIN H2 /\ phi[InName(j)] = InName(j)
  BY <1>11, <1>18, <1>20, Places
<1> HIDE DEF p, q
<1>21. ASSUME NEW r \in DOMAIN H2 PROVE SameValue(HeldNow, H2, phi, r)
  <2>1. CASE r = q
    BY <1>11, <1>16, <1>18, <1>19, <1>20, <2>1 DEF SameValue, Good, Descent
  <2>2. CASE r # q
    <3>1. r \in DOMAIN HeldNow /\ phi[r] = r /\ H2[r] = HeldNow[r]
      BY <1>11, <1>12, <1>18, <2>2
    <3> QED BY <1>16, <1>20, <3>1 DEF SameValue, Good, Descent
  <2> QED BY <2>1, <2>2
<1>22. ASSUME NEW r \in DOMAIN H2
       PROVE  H2[r].path = HeldNow[phi[r]].path /\ H2[r].deriv = HeldNow[phi[r]].deriv /\ H2[r].leaf = HeldNow[phi[r]].leaf
              /\ H2[r].ty = HeldNow[phi[r]].ty /\ H2[r].via = HeldNow[phi[r]].via /\ phi[r] \in DOMAIN HeldNow
  BY <1>11, <1>12, <1>18, <1>19
<1>23. \A r \in DOMAIN H2 : \A j : phi[r] = InName(j) => r = InName(j)
  BY <1>18, Places DEF p
<1>24. \A r \in L2 : SameReference(HeldNow, H2, L2, phi, r)
  BY <1>14, <1>20, <1>22, <1>23 DEF SameReference, KeepsPlaces
<1>25. Leaves(H2)
  BY <1>16, <1>22 DEF Good, Leaves
<1>26. /\ \A r \in L2 : phi[r] \in LiveNow
       /\ \A r, t \in DOMAIN H2 : phi[r] = phi[t] => r = t
  BY <1>11, <1>13, <1>14, <1>18
<1>27. ASSUME NEW r \in L2, ~IsRef(H2[r].ty), IsSlot(phi[r]), ~IsSlot(r), NEW h \in LiveNow, HeldNow[h].ty = "mut", FromRegion(HeldNow, h, phi[r])
       PROVE  FALSE
  <2>1. phi[r] = p /\ r = q
    BY <1>14, <1>18, <1>27
  <2>2. ~IsRef(Top.ty)
    BY <1>19, <1>27, <2>1
  <2>3. Overlap(Top.alias, HeldNow[h].alias)
    BY <1>19, <1>27, <2>1 DEF FromRegion, Overlap, PathsMeet
  <2>4. h # p
    BY <1>19, <1>27, <2>2 DEF IsRef
  <2>5. ReferenceInto(Top.alias, TRUE, SlotsOf(stk))
    BY <1>17, <1>27, <2>3, <2>4, SeenReference DEF IsRef
  <2> QED BY <1>1, <2>2, <2>5 DEF Anonymous, stk
<1>28. Carried(HeldNow, LiveNow, gone, H2, L2, g2, phi)
  BY <1>14, <1>15, <1>18, <1>21, <1>24, <1>25, <1>26, <1>27 DEF Carried
<1>29. Good(H2, L2, g2)
  BY <1>16, <1>28, Transfer
<1>30. \A j \in DOMAIN stk : vs[j].ty = stk[j].ty
  BY <1>5, <1>9, RunningIs
<1>31. /\ \A j \in Names : e2[j] # Nothing => bnd[j] # Nothing /\ e2[j].ty = bnd[j].ty
       /\ \A j \in Names \ moved : bnd[j] # Nothing => e2[j] # Nothing
  BY <1>3, <1>6, <1>7, <1>8, RunningIs DEF Scoped
<1>32. Agrees(stk, bnd, done, moved, vs, e2, g2)
  BY <1>5, <1>29, <1>30, <1>31 DEF Agrees, H2, L2, g2
<1>33. vals' = vs /\ env' = e2 /\ gone' = g2
  BY <1>1, Executed DEF g2
<1> QED BY <1>1, <1>32, <1>33, Dies

\* At the end of an arm the values of its names go, with what descends from them.
LEMMA LeavesArm ==
  ASSUME BorrowAssumption, Plain, Running, Depth \in Nat, LeaveArm, NEW dn, NEW mv,
         \A n \in Scoped \ Inner : (n \in done => n \in dn) /\ (n \in moved => n \in mv)
  PROVE  Agrees(stack, bound', dn, mv, vals', env', gone')
<1> DEFINE e2 == [n \in Names |-> IF n \in Inner \/ env[n] = Nothing THEN Nothing ELSE Forget(env[n])]
           vs2 == [i \in DOMAIN vals |-> Forget(vals[i])]
           bnd2 == [n \in Names |-> IF n \in Inner THEN Nothing ELSE bound[n]]
           g2 == gone \cap StoragesInUse(vs2, e2)
           H2 == Holding(stack, bnd2, vs2, e2)
           L2 == Usable(stack, e2, dn, mv)
           phi == [p \in DOMAIN H2 |-> p]
<1>1. /\ \A s \in SlotsOf(stack) : s.deriv # Nothing => s.deriv.root \notin Inner
      /\ bound' = bnd2 /\ vals' = vs2 /\ env' = e2 /\ gone' = g2
  BY DEF LeaveArm, Running, Plain, Has
<1>2. stack \in Seq(Slots) /\ vals \in Seq(Values) /\ Len(vals) = Len(stack) /\ DOMAIN vals = DOMAIN stack
  BY RunningIs DEF Running, Fit, StackOK
<1>3. \A v \in Values : /\ Forget(v) # Nothing /\ Forget(v).ty = v.ty /\ Forget(v).st = v.st /\ Forget(v).path = v.path
                        /\ Forget(v).via = v.via \ Inner
  BY DEF Forget, Values, BorrowAssumption
<1>4. /\ \A k \in DOMAIN stack : vs2[k] = Forget(vals[k]) /\ vals[k] \in Values
      /\ Len(vs2) = Len(stack)
  <2>1. DOMAIN vs2 = 1..Len(stack) /\ Len(stack) \in Nat
    BY <1>2
  <2>2. Len(vs2) = Len(stack)
    BY <2>1
  <2> QED BY <1>2, <2>2, RunningIs
<1>5. \A n \in Names : (e2[n] # Nothing <=> n \notin Inner /\ env[n] # Nothing) /\ (e2[n] # Nothing => e2[n] = Forget(env[n]))
  BY <1>3, RunningIs
<1>6. \A n \in Names : bnd2[n] = IF n \in Inner THEN Nothing ELSE bound[n]
  OBVIOUS
<1> HIDE DEF e2, vs2, bnd2
<1>7. DOMAIN H2 = Positions(stack, e2) /\ L2 \subseteq DOMAIN H2 /\ DOMAIN HeldNow = Positions(stack, env)
  BY HoldingIs, UsableAre DEF HeldNow
<1>8. ASSUME NEW p \in DOMAIN H2
      PROVE  /\ p \in DOMAIN HeldNow /\ H2[p].ty = HeldNow[p].ty /\ H2[p].st = HeldNow[p].st /\ H2[p].alias = HeldNow[p].alias
             /\ H2[p].path = HeldNow[p].path /\ H2[p].deriv = HeldNow[p].deriv /\ H2[p].leaf = HeldNow[p].leaf
             /\ H2[p].via = HeldNow[p].via \ Inner
  <2>1. CASE \E k \in DOMAIN stack : p = InSlot(k)
    <3>1. PICK k \in DOMAIN stack : p = InSlot(k)
      BY <2>1
    <3>2. H2[p] = Held(stack[k], Forget(vals[k])) /\ HeldNow[p] = Held(stack[k], vals[k]) /\ vals[k] \in Values /\ p \in DOMAIN HeldNow
      BY <1>4, <3>1, HoldingIs, HeldHere
    <3> HIDE DEF H2
    <3> QED BY <1>3, <3>2, HeldIs
  <2>2. CASE \E n \in Names : e2[n] # Nothing /\ p = InName(n)
    <3>1. PICK n \in Names : e2[n] # Nothing /\ p = InName(n)
      BY <2>2
    <3>2. H2[p] = Held(bound[n], Forget(env[n]))
      BY <1>5, <1>6, <3>1, HoldingIs
    <3>3. HeldNow[p] = Held(bound[n], env[n]) /\ env[n] \in Values /\ p \in DOMAIN HeldNow
      BY <1>5, <3>1, HeldHere, RunningIs
    <3> HIDE DEF H2
    <3> QED BY <1>3, <3>2, <3>3, HeldIs
  <2> QED BY <1>7, <2>1, <2>2, PositionsAre
<1>9. \A n : InName(n) \in DOMAIN H2 <=> InName(n) \in DOMAIN HeldNow /\ n \notin Inner
  BY <1>5, <1>7, PositionsAre
<1>10. ASSUME NEW p \in L2 PROVE p \in LiveNow
  <2>1. CASE \E k \in DOMAIN stack : p = InSlot(k)
    BY <2>1, HeldHere
  <2>2. CASE \E n \in Names : e2[n] # Nothing /\ p = InName(n)
    <3>1. PICK n \in Names : e2[n] # Nothing /\ p = InName(n)
      BY <2>2
    <3>2. n \notin dn /\ n \notin mv
      BY <3>1, UsableAre
    <3>3. n \in Scoped \ Inner /\ env[n] # Nothing
      BY <1>5, <3>1, RunningIs
    <3> QED BY <3>1, <3>2, <3>3, HeldHere
  <2> QED BY <1>7, <2>1, <2>2, PositionsAre
<1>11. ASSUME NEW p \in DOMAIN H2, HeldNow[p].deriv # Nothing, IsRef(HeldNow[p].ty), InName(HeldNow[p].deriv.root) \in DOMAIN HeldNow
       PROVE  HeldNow[p].deriv.root \notin Inner
  <2>1. CASE \E k \in DOMAIN stack : p = InSlot(k)
    <3>1. PICK k \in DOMAIN stack : p = InSlot(k)
      BY <2>1
    <3>2. HeldNow[p].deriv = stack[k].deriv /\ stack[k] \in SlotsOf(stack)
      BY <3>1, HeldHere, HeldIs DEF SlotsOf
    <3> QED BY <1>1, <1>11, <3>2
  <2>2. CASE \E n \in Names : e2[n] # Nothing /\ p = InName(n)
    <3>1. PICK n \in Names : e2[n] # Nothing /\ p = InName(n)
      BY <2>2
    <3>2. n \notin Inner /\ env[n] # Nothing /\ HeldNow[p] = Held(bound[n], env[n])
      BY <1>5, <3>1, HeldHere
    <3>3. HeldNow[p].deriv = bound[n].deriv /\ HeldNow[p].ty = bound[n].ty
      BY <3>2, HeldIs
    <3>4. PICK r : r = bound[n].deriv.root
      OBVIOUS
    <3>5. r \in Names /\ env[r] # Nothing
      BY <1>11, <3>3, <3>4, HeldHere
    <3>6. n \in Scoped /\ r \in Scoped /\ BindingOK(bound[n], bound) /\ r # Nothing
      BY <3>2, <3>5, RunningIs DEF BorrowAssumption
    <3>7. bound[r].level <= bound[n].level
      BY <1>11, <3>3, <3>4, <3>6 DEF BindingOK
    <3>8. bound[n].level \in Nat /\ bound[r].level \in Nat /\ bound[n].level <= Depth /\ bound[n].level # Depth
      BY <3>2, <3>6 DEF Running, Fit, BoundOK, Bindings, Scoped, Inner, BorrowAssumption
    <3>9. bound[r].level # Depth
      BY <3>7, <3>8
    <3> QED BY <3>3, <3>4, <3>9 DEF Inner
  <2> QED BY <1>7, <2>1, <2>2, PositionsAre
<1>12. Good(HeldNow, LiveNow, gone) /\ LiveNow \subseteq DOMAIN HeldNow
  BY RunningIs
<1>13. /\ \A p \in DOMAIN H2 : phi[p] = p
       /\ phi \in [DOMAIN H2 -> DOMAIN HeldNow]
  BY <1>8
<1>14. g2 \subseteq gone
  OBVIOUS
<1> HIDE DEF H2, L2, g2, phi
<1>15. \A p \in DOMAIN H2 : SameValue(HeldNow, H2, phi, p)
  BY <1>8, <1>9, <1>12, <1>13 DEF SameValue, Good, Descent
<1>16. ASSUME NEW p \in L2, IsRef(H2[p].ty) PROVE SameReference(HeldNow, H2, L2, phi, p)
  <2>1. p \in DOMAIN H2 /\ phi[p] = p
    BY <1>7, <1>13
  <2>2. HeldNow[p].deriv # Nothing /\ InName(HeldNow[p].deriv.root) \in DOMAIN HeldNow
        => InName(HeldNow[p].deriv.root) \in DOMAIN H2
    BY <1>8, <1>9, <1>11, <1>16, <2>1
  <2>3. \A q \in L2, n \in HeldNow[p].via : phi[q] = InName(n) => q = InName(n) /\ n \in H2[p].via
    BY <1>7, <1>8, <1>9, <1>13, <2>1
  <2> QED BY <1>8, <1>13, <2>1, <2>2, <2>3 DEF SameReference, KeepsPlaces
<1>17. Leaves(H2)
  BY <1>8, <1>12 DEF Good, Leaves
<1>18. Carried(HeldNow, LiveNow, gone, H2, L2, g2, phi)
  BY <1>7, <1>10, <1>13, <1>14, <1>15, <1>16, <1>17 DEF Carried
<1>19. Good(H2, L2, g2)
  BY <1>12, <1>18, Transfer
<1>20. \A k \in DOMAIN stack : vs2[k].ty = stack[k].ty
  BY <1>3, <1>4, RunningIs
<1>21. /\ \A n \in Names : e2[n] # Nothing => bnd2[n] # Nothing /\ e2[n].ty = bnd2[n].ty
       /\ \A n \in Names \ mv : bnd2[n] # Nothing => e2[n] # Nothing
  <2>1. \A n \in Names : e2[n] # Nothing => bnd2[n] # Nothing /\ e2[n].ty = bnd2[n].ty
    BY <1>3, <1>5, <1>6, RunningIs DEF Scoped
  <2>2. ASSUME NEW n \in Names \ mv, bnd2[n] # Nothing PROVE e2[n] # Nothing
    <3>1. n \in Scoped \ Inner
      BY <1>6, <2>2 DEF Scoped
    <3> QED BY <1>5, <2>2, <3>1, RunningIs
  <2> QED BY <2>1, <2>2
<1>22. Agrees(stack, bnd2, dn, mv, vs2, e2, g2)
  BY <1>4, <1>19, <1>20, <1>21 DEF Agrees, H2, L2, g2
<1> QED BY <1>1, <1>22
-----------------------------------------------------------------------------
(* What the checker's state is goes on.                                      *)

\* nothing of a frame at or above depth d
Inside(b, d) == b = Nothing \/ (b.level \in Nat /\ b.level >= d)
Outside(d) == \A n \in Names : bound'[n] = bound[n] \/ (Inside(bound[n], d) /\ Inside(bound'[n], d))

LEMMA OuterStays ==
  ASSUME NEW d \in Nat, Outside(d), NEW k \in 0..d
  PROVE  Outer(bound', k) = Outer(bound, k)
<1>1. \A n \in Names : (bound'[n] # Nothing /\ bound'[n].level < k) <=> (bound[n] # Nothing /\ bound[n].level < k)
  BY DEF Outside, Inside
<1>2. \A n \in Names : bound'[n] # Nothing /\ bound'[n].level < k => bound'[n] = bound[n]
  BY DEF Outside, Inside
<1> QED BY <1>1, <1>2 DEF Outer

LEMMA GrantedStays ==
  ASSUME NEW d \in Nat, Outside(d), NEW k \in 0..d - 1, k > 0 => frames'[k].grant = frames[k].grant
  PROVE  Granted(k)' = Granted(k)
<1>1. Grant(k)' = Grant(k)
  BY DEF Grant
<1>2. \A n \in Names : \/ bound'[n] = bound[n]
                       \/ /\ ~(bound[n] # Nothing /\ (bound[n].level = k \/ bound[n].level < k))
                          /\ ~(bound'[n] # Nothing /\ (bound'[n].level = k \/ bound'[n].level < k))
  BY DEF Outside, Inside
<1> QED BY <1>1, <1>2 DEF Granted

LEMMA FrameStays ==
  ASSUME NEW d \in Nat, Outside(d), NEW k \in 1..d, \A j \in 1..k : frames'[j].grant = frames[j].grant,
         frames'[k] = frames[k], FrameOK(k)
  PROVE  FrameOK(k)'
<1>1. k \in 0..d /\ k - 1 \in 0..d - 1 /\ (k - 1 > 0 => k - 1 \in 1..k)
  OBVIOUS
<1>2. Outer(bound', k) = Outer(bound, k)
  BY <1>1, OuterStays
<1>3. k - 1 > 0 => frames'[k - 1].grant = frames[k - 1].grant
  BY <1>1
<1>4. Granted(k - 1)' = Granted(k - 1)
  BY <1>1, <1>3, GrantedStays
<1>5. Grant(k - 1)' = Grant(k - 1)
  BY <1>3 DEF Grant
<1> QED BY <1>2, <1>4, <1>5 DEF FrameOK

Typed == vals \in Seq(Values) /\ env \in [Names -> Values \cup {Nothing}]
\* what each term is taken in, and what it goes on with
Sound == CheckerOK /\ Typed /\ (Executing => Agrees(stack, bound, done, moved, vals, env, gone))

LEMMA SoundRuns ==
  ASSUME Sound
  PROVE  Fit /\ (Executing => Running) /\ Depth \in 0..MaxDepth /\ Depth \in Nat /\ frames \in Seq(Frames)
BY DEF Sound, CheckerOK, Typed, Fit, Running, Depth

LEMMA BoundKept ==
  ASSUME CheckerOK, UNCHANGED <<bound, frames, granted>>, left' \in Nat,
         StackOK(stack', bound), MovedOK(moved', bound), done' \subseteq Granted(Depth)
  PROVE  CheckerOK'
<1>1. Depth' = Depth /\ \A k : Grant(k)' = Grant(k)
  BY DEF Depth, Grant
<1>2. \A k : Granted(k)' = Granted(k)
  BY <1>1 DEF Granted
<1>3. Granted(Depth)' = Granted(Depth)
  BY <1>1 DEF Granted, Grant
<1>4. \A k : FrameOK(k) => FrameOK(k)'
  BY <1>1, <1>2 DEF FrameOK
<1>5. BoundOK'
  BY <1>1 DEF CheckerOK, BoundOK
<1>6. StackOK(stack', bound') /\ MovedOK(moved', bound')
  OBVIOUS
<1>7. granted' = Grant(Depth)' /\ done' \subseteq Granted(Depth)'
  BY <1>1, <1>3 DEF CheckerOK, Grant
<1> QED BY <1>1, <1>4, <1>5, <1>6, <1>7 DEF CheckerOK

LEMMA TypedStays ==
  ASSUME Typed, NEW vs, NEW e, NEW d, Execute(vs, e, d), Executing => vs \in Seq(Values) /\ e \in [Names -> Values \cup {Nothing}]
  PROVE  Typed'
BY DEF Typed, Execute

LEMMA StackGrows ==
  ASSUME NEW stk, NEW bnd, StackOK(stk, bnd), NEW s \in Slots, SlotOK(s, bnd)
  PROVE  StackOK(Append(stk, s), bnd)
<1>1. stk \in Seq(Slots)
  BY DEF StackOK
<1>2. Append(stk, s) \in Seq(Slots) /\ \A k \in DOMAIN Append(stk, s) : Append(stk, s)[k] = s \/ (k \in DOMAIN stk /\ Append(stk, s)[k] = stk[k])
  BY <1>1
<1> QED BY <1>2 DEF StackOK

LEMMA StackAt ==
  ASSUME NEW stk, NEW bnd, StackOK(stk, bnd), NEW k \in DOMAIN stk, NEW s \in Slots, SlotOK(s, bnd)
  PROVE  StackOK([stk EXCEPT ![k] = s], bnd)
<1>1. stk \in Seq(Slots)
  BY DEF StackOK
<1>2. [stk EXCEPT ![k] = s] \in Seq(Slots) /\ DOMAIN [stk EXCEPT ![k] = s] = DOMAIN stk
      /\ \A j \in DOMAIN stk : [stk EXCEPT ![k] = s][j] = IF j = k THEN s ELSE stk[j]
  BY <1>1
<1> QED BY <1>2 DEF StackOK

LEMMA StackBelow ==
  ASSUME NEW stk, NEW bnd, StackOK(stk, bnd), NEW n \in 0..Len(stk)
  PROVE  StackOK(Below(stk, n), bnd)
<1>1. stk \in Seq(Slots)
  BY DEF StackOK
<1>2. Below(stk, n) \in Seq(Slots) /\ Len(Below(stk, n)) = Len(stk) - n
      /\ \A j \in 1..Len(stk) - n : Below(stk, n)[j] = stk[j]
  BY <1>1, BelowAre, Zenon
<1>3. DOMAIN Below(stk, n) = 1..Len(stk) - n /\ \A j \in 1..Len(stk) - n : j \in DOMAIN stk
  BY <1>1, <1>2
<1> QED BY <1>2, <1>3 DEF StackOK

LEMMA MakeFits ==
  ASSUME BorrowAssumption, Sound, NEW ty, Make(ty), left' \in Nat
  PROVE  CheckerOK' /\ Typed'
<1> DEFINE s == Slot(ty, FALSE, {}, Nothing)
           v == Value(ty, Min(FreeStorages), Whole, {})
<1>1. /\ ty \in {"agg", "lin"} /\ (Executing => FreeStorages # {}) /\ stack' = Append(stack, s) /\ Execute(Append(vals, v), env, {})
      /\ UNCHANGED <<bound, done, moved, granted, frames>>
  BY DEF Make
<1>2. s \in Slots /\ SlotOK(s, bound)
  BY <1>1 DEF Slot, Slots, SlotOK, Types, IsRef
<1>3. StackOK(stack', bound)
  BY <1>1, <1>2, StackGrows DEF Sound, CheckerOK
<1>4. CheckerOK'
  BY <1>1, <1>3, BoundKept DEF Sound, CheckerOK
<1>5. ASSUME Executing PROVE Append(vals, v) \in Seq(Values)
  <2>1. FreeStorages \in SUBSET Ids /\ FreeStorages # {}
    BY <1>1, <1>5 DEF FreeStorages
  <2>2. Min(FreeStorages) \in Ids
    BY <2>1, LeastIsIn
  <2>3. v \in Values
    BY <1>1, <2>2 DEF Value, Values, Types
  <2> QED BY <2>3 DEF Sound, Typed
<1>6. Typed'
  BY <1>1, <1>5, TypedStays DEF Sound, Typed
<1> QED BY <1>4, <1>6

LEMMA ConsumeFits ==
  ASSUME BorrowAssumption, Sound, NEW k, Consume(k), left' \in Nat
  PROVE  CheckerOK' /\ Typed'
<1>1. /\ k \in 1..Len(stack) /\ stack' = Below(stack, k) /\ \E d : Execute(Below(vals, k), env, d)
      /\ UNCHANGED <<bound, done, moved, granted, frames>>
  BY DEF Consume
<1>2. k \in 0..Len(stack)
  BY <1>1
<1>3. StackOK(stack', bound)
  BY <1>1, <1>2, StackBelow DEF Sound, CheckerOK
<1>4. CheckerOK'
  BY <1>1, <1>3, BoundKept DEF Sound, CheckerOK
<1>5. ASSUME Executing PROVE Below(vals, k) \in Seq(Values)
  <2>1. vals \in Seq(Values) /\ k \in 0..Len(vals)
    BY <1>2, <1>5 DEF Sound, Typed, Agrees
  <2> QED BY <2>1, BelowAre, Zenon
<1>6. Typed'
  BY <1>1, <1>5, TypedStays DEF Sound, Typed
<1> QED BY <1>4, <1>6

LEMMA SoundTop ==
  ASSUME Sound, stack # <<>>
  PROVE  /\ Len(stack) \in DOMAIN stack /\ Top = stack[Len(stack)] /\ Top \in Slots /\ SlotOK(Top, bound)
         /\ Executing => TopVal \in Values /\ TopVal = vals[Len(stack)] /\ Len(vals) = Len(stack) /\ TopVal.ty = Top.ty
<1>1. stack \in Seq(Slots) /\ \A k \in DOMAIN stack : SlotOK(stack[k], bound)
  BY DEF Sound, CheckerOK, StackOK
<1>2. Len(stack) \in DOMAIN stack /\ Top = stack[Len(stack)] /\ Top \in Slots
  BY <1>1 DEF Top
<1>3. ASSUME Executing PROVE TopVal \in Values /\ TopVal = vals[Len(stack)] /\ Len(vals) = Len(stack) /\ TopVal.ty = Top.ty
  <2>1. vals \in Seq(Values) /\ Len(vals) = Len(stack) /\ \A k \in DOMAIN stack : vals[k].ty = stack[k].ty
    BY <1>3 DEF Sound, Typed, Agrees
  <2>2. TopVal = vals[Len(stack)] /\ TopVal \in Values
    BY <1>1, <1>2, <2>1 DEF TopVal
  <2> QED BY <1>2, <2>1, <2>2
<1> QED BY <1>1, <1>2, <1>3

LEMMA DupFits ==
  ASSUME BorrowAssumption, Sound, Dup, left' \in Nat
  PROVE  CheckerOK' /\ Typed'
<1> DEFINE s == IF Top.ty = "ref" THEN Top ELSE [Top EXCEPT !.alias = {}]
           v == IF TopVal.ty = "ref" THEN TopVal ELSE [TopVal EXCEPT !.st = Min(FreeStorages)]
<1>1. /\ stack # <<>> /\ (Executing => FreeStorages # {}) /\ stack' = Append(stack, s) /\ Execute(Append(vals, v), env, {})
      /\ UNCHANGED <<bound, done, moved, granted, frames>> /\ Top.ty \in {"agg", "ref"}
  BY DEF Dup
<1>2. s \in Slots /\ SlotOK(s, bound)
  <2>1. Top \in Slots /\ SlotOK(Top, bound)
    BY <1>1, SoundTop
  <2>2. CASE Top.ty = "agg"
    <3>1. s = [Top EXCEPT !.alias = {}]
      BY <2>2
    <3>2. s \in Slots /\ s.ty = Top.ty /\ s.leaf = Top.leaf /\ s.deriv = Top.deriv /\ s.alias = {}
      BY <2>1, <3>1 DEF Slots
    <3> QED BY <2>1, <2>2, <3>2 DEF SlotOK, IsRef
  <2> QED BY <1>1, <2>1, <2>2
<1>3. StackOK(stack', bound)
  BY <1>1, <1>2, StackGrows DEF Sound, CheckerOK
<1>4. CheckerOK'
  BY <1>1, <1>3, BoundKept DEF Sound, CheckerOK
<1>5. ASSUME Executing PROVE Append(vals, v) \in Seq(Values)
  <2>1. FreeStorages \in SUBSET Ids /\ FreeStorages # {}
    BY <1>1, <1>5 DEF FreeStorages
  <2>2. Min(FreeStorages) \in Ids
    BY <2>1, LeastIsIn
  <2>3. TopVal \in Values
    BY <1>1, <1>5, SoundTop
  <2>4. v \in Values
    BY <2>2, <2>3 DEF Values
  <2> QED BY <2>4 DEF Sound, Typed
<1>6. Typed'
  BY <1>1, <1>5, TypedStays DEF Sound, Typed
<1> QED BY <1>4, <1>6

LEMMA OverFits ==
  ASSUME BorrowAssumption, Sound, Over, left' \in Nat
  PROVE  CheckerOK' /\ Typed'
<1> DEFINE n == Len(stack)
           below == stack[n - 1]
           alias == OverAlias(below)
           s == [below EXCEPT !.alias = alias]
           w == [stack EXCEPT ![n - 1] = s]
<1>1. /\ n >= 2 /\ below.ty \in {"agg", "ref"} /\ FreeRegions # {}
      /\ stack' = Append(w, s) /\ Execute(Append(vals, vals[Len(vals) - 1]), env, {})
      /\ UNCHANGED <<bound, done, moved, granted, frames>>
  BY DEF Over
<1>2. StackOK(stack, bound) /\ n \in Nat /\ n - 1 \in DOMAIN stack /\ below \in Slots /\ SlotOK(below, bound)
  BY <1>1 DEF Sound, CheckerOK, StackOK
<1>3. alias \in SUBSET Regions /\ (alias # below.alias => ~IsRef(below.ty) /\ alias \in SUBSET (Ids \X {Whole}))
  BY <1>1, <1>2, FreshIsRegion DEF OverAlias, Slots, Regions, IsRef
<1> HIDE DEF alias
<1>4. s \in Slots /\ s.ty = below.ty /\ s.leaf = below.leaf /\ s.deriv = below.deriv /\ s.alias = alias
  BY <1>2, <1>3 DEF Slots
<1>5. SlotOK(s, bound)
  BY <1>2, <1>3, <1>4 DEF SlotOK
<1> HIDE DEF s
<1>6. StackOK(w, bound)
  BY <1>2, <1>4, <1>5, StackAt
<1> HIDE DEF w
<1>7. StackOK(stack', bound)
  BY <1>1, <1>4, <1>5, <1>6, StackGrows
<1>8. CheckerOK'
  BY <1>1, <1>7, BoundKept DEF Sound, CheckerOK
<1>9. ASSUME Executing PROVE Append(vals, vals[Len(vals) - 1]) \in Seq(Values)
  BY <1>1, <1>9 DEF Sound, Typed, Agrees
<1>10. Typed'
  BY <1>1, <1>9, TypedStays DEF Sound, Typed
<1> QED BY <1>8, <1>10

LEMMA SwapFits ==
  ASSUME BorrowAssumption, Sound, Swap, left' \in Nat
  PROVE  CheckerOK' /\ Typed'
<1>1. /\ Len(stack) >= 2 /\ stack' = Exchange(stack) /\ Execute(IF Executing THEN Exchange(vals) ELSE vals, env, {})
      /\ UNCHANGED <<bound, done, moved, granted, frames>>
  BY DEF Swap
<1>2. stack \in Seq(Slots) /\ \A k \in DOMAIN stack : SlotOK(stack[k], bound)
  BY DEF Sound, CheckerOK, StackOK
<1>3. ASSUME NEW S, NEW s \in Seq(S), Len(s) >= 2
      PROVE  Exchange(s) \in Seq(S) /\ \A k \in DOMAIN Exchange(s) : \E j \in DOMAIN s : Exchange(s)[k] = s[j]
  BY <1>3 DEF Exchange
<1>4. StackOK(stack', bound)
  BY <1>1, <1>2, <1>3 DEF StackOK
<1>5. CheckerOK'
  BY <1>1, <1>4, BoundKept DEF Sound, CheckerOK
<1>6. ASSUME Executing PROVE Exchange(vals) \in Seq(Values)
  BY <1>1, <1>3, <1>6 DEF Sound, Typed, Agrees
<1>7. Typed'
  BY <1>1, <1>6, TypedStays DEF Sound, Typed
<1> QED BY <1>5, <1>7

LEMMA ProjectReferenceFits ==
  ASSUME BorrowAssumption, Sound, NEW f \in Fields, ProjectReference(f), left' \in Nat
  PROVE  CheckerOK' /\ Typed'
<1> DEFINE n == Len(stack)
           s == [Top EXCEPT !.leaf = TRUE]
<1>1. /\ stack # <<>> /\ stack' = [stack EXCEPT ![n].leaf = TRUE]
      /\ Execute(IF Executing THEN [vals EXCEPT ![Len(vals)].path = f] ELSE vals, env, {})
      /\ UNCHANGED <<bound, done, moved, granted, frames>>
  BY DEF ProjectReference
<1>2. n \in DOMAIN stack /\ Top = stack[n] /\ Top \in Slots /\ SlotOK(Top, bound)
  BY <1>1, SoundTop
<1>3. s \in Slots /\ s.ty = Top.ty /\ s.leaf = TRUE /\ s.deriv = Top.deriv /\ s.alias = Top.alias
  BY <1>2 DEF Slots
<1>4. SlotOK(s, bound)
  BY <1>2, <1>3 DEF SlotOK
<1>5. stack' = [stack EXCEPT ![n] = s]
  BY <1>1, <1>2
<1> HIDE DEF s
<1>6. StackOK(stack', bound)
  BY <1>2, <1>3, <1>4, <1>5, StackAt DEF Sound, CheckerOK
<1>7. CheckerOK'
  BY <1>1, <1>6, BoundKept DEF Sound, CheckerOK
<1>8. ASSUME Executing PROVE [vals EXCEPT ![Len(vals)].path = f] \in Seq(Values)
  <2>1. TopVal \in Values /\ TopVal = vals[Len(vals)] /\ vals \in Seq(Values) /\ Len(vals) = Len(stack)
    BY <1>1, <1>8, SoundTop DEF Sound, Typed
  <2> DEFINE v == [TopVal EXCEPT !.path = f]
  <2>2. v \in Values
    BY <2>1 DEF Values
  <2>3. [vals EXCEPT ![Len(vals)].path = f] = [vals EXCEPT ![Len(vals)] = v]
    BY <2>1
  <2>4. ASSUME NEW s2 \in Seq(Values), NEW i \in DOMAIN s2, NEW x \in Values PROVE [s2 EXCEPT ![i] = x] \in Seq(Values)
    OBVIOUS
  <2>5. Len(vals) \in DOMAIN vals
    BY <1>2, <2>1 DEF Sound, CheckerOK, StackOK
  <2> HIDE DEF v
  <2> QED BY <2>1, <2>2, <2>3, <2>4, <2>5
<1>9. Typed'
  BY <1>1, <1>8, TypedStays DEF Sound, Typed
<1> QED BY <1>7, <1>9

LEMMA ProjectOwnedFits ==
  ASSUME BorrowAssumption, Sound, NEW f \in Fields, NEW mutable \in BOOLEAN, ProjectOwned(f, mutable), left' \in Nat
  PROVE  CheckerOK' /\ Typed'
<1> DEFINE n == Len(stack)
           base == IF Top.alias = {} THEN FreshAlias ELSE Top.alias
           alias == FieldAlias(base, f)
           s == [Top EXCEPT !.alias = base]
           w == [stack EXCEPT ![n] = s]
           r == Slot(RefTo(mutable), TRUE, alias, Top.deriv)
           v == Value(RefTo(mutable), TopVal.st, f, {})
<1>1. /\ stack # <<>> /\ ~IsRef(Top.ty) /\ FreeRegions # {} /\ stack' = Append([stack EXCEPT ![n].alias = base], r)
      /\ Execute(Append(vals, v), env, {}) /\ UNCHANGED <<bound, done, moved, granted, frames>>
  BY DEF ProjectOwned
<1>2. n \in DOMAIN stack /\ Top = stack[n] /\ Top \in Slots /\ SlotOK(Top, bound)
  BY <1>1, SoundTop
<1>3. base \in SUBSET (Ids \X {Whole})
  BY <1>1, <1>2, FreshIsRegion DEF SlotOK
<1> HIDE DEF base
<1>4. alias \in SUBSET (Ids \X Fields)
  BY <1>3 DEF FieldAlias
<1> HIDE DEF alias
<1>5. s \in Slots /\ s.ty = Top.ty /\ s.leaf = Top.leaf /\ s.deriv = Top.deriv /\ s.alias = base
  BY <1>2, <1>3 DEF Slots, Regions
<1>6. SlotOK(s, bound)
  BY <1>1, <1>2, <1>3, <1>5 DEF SlotOK
<1>7. r \in Slots /\ SlotOK(r, bound)
  <2>1. Top.deriv = Nothing /\ RefTo(mutable) \in {"ref", "mut"}
    BY <1>1, <1>2 DEF SlotOK, RefTo
  <2>2. alias \in SUBSET Regions
    BY <1>4 DEF Regions
  <2> QED BY <1>4, <2>1, <2>2 DEF Slot, Slots, SlotOK, Types, IsRef
<1>8. [stack EXCEPT ![n].alias = base] = w
  BY <1>2
<1> HIDE DEF s, r
<1>9. StackOK(w, bound)
  BY <1>2, <1>5, <1>6, StackAt DEF Sound, CheckerOK
<1> HIDE DEF w
<1>10. StackOK(stack', bound)
  BY <1>1, <1>7, <1>8, <1>9, StackGrows
<1>11. CheckerOK'
  BY <1>1, <1>10, BoundKept DEF Sound, CheckerOK
<1>12. ASSUME Executing PROVE Append(vals, v) \in Seq(Values)
  <2>1. TopVal \in Values
    BY <1>1, <1>12, SoundTop
  <2>2. v \in Values
    BY <2>1 DEF Values, Value, RefTo, Types
  <2> QED BY <2>2 DEF Sound, Typed
<1>13. Typed'
  BY <1>1, <1>12, TypedStays DEF Sound, Typed
<1> QED BY <1>11, <1>13

\* A name mentioned for the last time was bound here, or granted.
LEMMA MentionedGranted ==
  ASSUME Sound, NEW n \in Scoped, NEW last, MayBeLast(n, last), Mentioned(n, last)
  PROVE  done' \subseteq Granted(Depth)
<1>1. done \subseteq Granted(Depth) /\ granted = Grant(Depth) /\ n \in Names /\ bound[n] # Nothing /\ bound[n].level <= Depth
  BY DEF Sound, CheckerOK, BoundOK, Scoped
<1>2. bound[n].level \in Int /\ Depth \in Nat
  BY <1>1, SoundRuns DEF Sound, CheckerOK, BoundOK, Bindings
<1>3. last => n \in Granted(Depth)
  BY <1>1, <1>2 DEF MayBeLast, Releasable, Granted
<1> QED BY <1>1, <1>3 DEF Mentioned

LEMMA SoundName ==
  ASSUME Sound, NEW n \in Scoped
  PROVE  /\ n \in Names /\ bound[n] \in Bindings /\ BindingOK(bound[n], bound)
         /\ Executing /\ n \notin moved => env[n] \in Values /\ env[n].ty = bound[n].ty
<1>1. n \in Names /\ bound[n] # Nothing
  BY DEF Scoped
<1>2. bound[n] \in Bindings /\ BindingOK(bound[n], bound)
  BY <1>1 DEF Sound, CheckerOK, BoundOK
<1>3. Executing /\ n \notin moved => env[n] # Nothing /\ env[n].ty = bound[n].ty
  BY <1>1 DEF Sound, Agrees
<1>4. env[n] \in Values \cup {Nothing}
  BY <1>1 DEF Sound, Typed
<1> QED BY <1>1, <1>2, <1>3, <1>4

LEMMA NameReferenceFits ==
  ASSUME BorrowAssumption, Sound, NEW n, NEW last, NameReference(n, last), left' \in Nat
  PROVE  CheckerOK' /\ Typed'
<1> DEFINE b == bound[n]
           d == Reborrowed(n, b.ty = "mut")
           s == Slot(b.ty, b.leaf, {}, d)
           v == Descend(env[n], n)
<1>1. /\ n \in Scoped /\ IsRef(b.ty) /\ MayBeLast(n, last) /\ Mentioned(n, last)
      /\ stack' = Append(stack, s) /\ Execute(Append(vals, v), env, {}) /\ UNCHANGED <<bound, moved, granted, frames>>
  BY DEF NameReference
<1>2. n \in Names /\ b \in Bindings /\ BindingOK(b, bound)
  BY <1>1, SoundName
<1>3. b.deriv \in Derivs \cup {Nothing} /\ b.ty \in Types /\ b.leaf \in BOOLEAN
  BY <1>2 DEF Bindings
<1>4. /\ d \in Derivs /\ (d.mutable <=> b.ty = "mut")
      /\ d.root = Nothing \/ bound[d.root] # Nothing
  <2>1. d \in Derivs /\ d.mutable = (b.ty = "mut") /\ d.root = IF b.deriv = Nothing THEN Nothing ELSE b.deriv.root
    BY <1>2, <1>3 DEF Reborrowed, Derivs
  <2>2. b.deriv # Nothing => b.deriv.root = Nothing \/ bound[b.deriv.root] # Nothing
    BY <1>1, <1>2 DEF BindingOK, SlotOK
  <2> HIDE DEF b, d
  <2> QED BY <2>1, <2>2
<1> HIDE DEF d
<1>5. s \in Slots /\ SlotOK(s, bound)
  BY <1>1, <1>3, <1>4 DEF Slot, Slots, SlotOK
<1>6. StackOK(stack', bound)
  BY <1>1, <1>5, StackGrows DEF Sound, CheckerOK
<1>7. done' \subseteq Granted(Depth)
  BY <1>1, MentionedGranted
<1>8. CheckerOK'
  BY <1>1, <1>6, <1>7, BoundKept DEF Sound, CheckerOK
<1>9. n \notin moved
  BY <1>1 DEF Sound, CheckerOK, MovedOK, IsRef
<1>10. ASSUME Executing PROVE Append(vals, v) \in Seq(Values)
  <2>1. env[n] \in Values
    BY <1>1, <1>9, <1>10, SoundName
  <2>2. v \in Values
    BY <1>2, <2>1 DEF Values, Descend
  <2> QED BY <2>2 DEF Sound, Typed
<1>11. Typed'
  BY <1>1, <1>10, TypedStays DEF Sound, Typed
<1> QED BY <1>8, <1>11

LEMMA NameAggregateFits ==
  ASSUME BorrowAssumption, Sound, NEW n, NEW last, NameAggregate(n, last), left' \in Nat
  PROVE  CheckerOK' /\ Typed'
<1> DEFINE b == bound[n]
           s == Slot(b.ty, FALSE, b.alias, b.deriv)
           e2 == IF b.ty = "lin" THEN [env EXCEPT ![n] = Nothing] ELSE env
<1>1. /\ n \in Scoped /\ n \notin moved /\ ~IsRef(b.ty) /\ MayBeLast(n, last) /\ Mentioned(n, last)
      /\ stack' = Append(stack, s) /\ Execute(Append(vals, env[n]), e2, {}) /\ UNCHANGED <<bound, granted, frames>>
      /\ moved' = IF b.ty = "lin" THEN moved \cup {n} ELSE moved
  BY DEF NameAggregate
<1>2. n \in Names /\ b \in Bindings /\ BindingOK(b, bound) /\ b # Nothing
  BY <1>1, SoundName DEF Scoped
<1>3. s \in Slots /\ SlotOK(s, bound)
  BY <1>1, <1>2 DEF Bindings, Slot, Slots, SlotOK, BindingOK
<1>4. StackOK(stack', bound)
  BY <1>1, <1>3, StackGrows DEF Sound, CheckerOK
<1>5. done' \subseteq Granted(Depth)
  BY <1>1, MentionedGranted
<1>6. MovedOK(moved', bound)
  BY <1>1, <1>2 DEF Sound, CheckerOK, MovedOK
<1>7. CheckerOK'
  BY <1>1, <1>4, <1>5, <1>6, BoundKept DEF Sound, CheckerOK
<1>8. ASSUME Executing PROVE Append(vals, env[n]) \in Seq(Values)
  BY <1>1, <1>8, SoundName DEF Sound, Typed
<1>9. e2 \in [Names -> Values \cup {Nothing}]
  BY DEF Sound, Typed
<1>10. Typed'
  BY <1>1, <1>8, <1>9, TypedStays DEF Sound
<1> QED BY <1>7, <1>10

LEMMA BorrowFits ==
  ASSUME BorrowAssumption, Sound, NEW n, NEW mutable \in BOOLEAN, NEW last, Borrow(n, mutable, last), left' \in Nat
  PROVE  CheckerOK' /\ Typed'
<1> DEFINE s == Slot(RefTo(mutable), FALSE, {}, Borrowed(n, mutable))
           v == Value(RefTo(mutable), env[n].st, Whole, {})
<1>1. /\ n \in Scoped /\ n \notin moved /\ MayBeLast(n, last) /\ Mentioned(n, last)
      /\ stack' = Append(stack, s) /\ Execute(Append(vals, v), env, {}) /\ UNCHANGED <<bound, moved, granted, frames>>
  BY DEF Borrow
<1>2. n \in Names /\ bound[n] # Nothing
  BY <1>1 DEF Scoped
<1>3. s \in Slots /\ SlotOK(s, bound)
  BY <1>2 DEF Slot, Slots, SlotOK, Types, IsRef, RefTo, Borrowed, Derivs
<1>4. StackOK(stack', bound)
  BY <1>1, <1>3, StackGrows DEF Sound, CheckerOK
<1>5. done' \subseteq Granted(Depth)
  BY <1>1, MentionedGranted
<1>6. CheckerOK'
  BY <1>1, <1>4, <1>5, BoundKept DEF Sound, CheckerOK
<1>7. ASSUME Executing PROVE Append(vals, v) \in Seq(Values)
  <2>1. env[n] \in Values
    BY <1>1, <1>7, SoundName
  <2>2. v \in Values
    BY <2>1 DEF Value, Values, Types, RefTo
  <2> QED BY <2>2 DEF Sound, Typed
<1>8. Typed'
  BY <1>1, <1>7, TypedStays DEF Sound, Typed
<1> QED BY <1>6, <1>8

LEMMA BindFits ==
  ASSUME BorrowAssumption, Plain, Sound, NEW m \in Names, NEW last, Bind(m, last), left' \in Nat
  PROVE  CheckerOK' /\ Typed' /\ Outside(Depth)
<1> DEFINE b == [ty |-> Top.ty, leaf |-> Top.leaf, deriv |-> Top.deriv, level |-> Depth,
                 alias |-> IF Top.alias = {} /\ ~IsRef(Top.ty) THEN FreshAlias ELSE Top.alias]
<1>1. /\ stack # <<>> /\ bound[m] = Nothing /\ FreeRegions # {} /\ ~Anonymous(Top, SlotsOf(Below(stack, 1)))
      /\ bound' = [bound EXCEPT ![m] = b] /\ stack' = Below(stack, 1) /\ Mentioned(m, last)
      /\ Execute(Below(vals, 1), [env EXCEPT ![m] = TopVal], {}) /\ UNCHANGED <<moved, granted, frames>>
  BY DEF Bind, Has, Plain
<1>2. Top \in Slots /\ SlotOK(Top, bound) /\ 1 \in 0..Len(stack)
  BY <1>1, SoundTop DEF Sound, CheckerOK, StackOK
<1>3. PICK d \in 0..MaxDepth : d = Depth
  BY SoundRuns
<1>4. bound \in [Names -> {Nothing} \cup Bindings] /\ d \in Nat
  BY <1>3 DEF Sound, CheckerOK, BoundOK, BorrowAssumption
<1>5. /\ b \in Bindings /\ b.ty = Top.ty /\ b.leaf = Top.leaf /\ b.deriv = Top.deriv /\ b.level = d
      /\ b.alias \in SUBSET Regions
      /\ IF IsRef(b.ty) THEN b.alias = {} ELSE b.alias # {} /\ b.alias \subseteq Ids \X {Whole}
  BY <1>1, <1>2, <1>3, FreshIsRegion, ZenonT(40) DEF Bindings, Slots, Regions, Anonymous, SlotOK
<1>6. b # Nothing
  BY <1>5 DEF BorrowAssumption
<1> HIDE DEF b
<1>7. bound'[m] = b /\ \A j \in Names : j # m => bound'[j] = bound[j]
  BY <1>1, <1>4
<1>8. \A j \in Names : bound[j] # Nothing => bound'[j] = bound[j]
  BY <1>1, <1>7
<1>9. \A c : SlotOK(c, bound) => SlotOK(c, bound')
  BY <1>8 DEF SlotOK, Derivs
<1>10. SlotOK(b, bound)
  BY <1>2, <1>5 DEF SlotOK
<1>11. Outside(Depth)
  BY <1>1, <1>3, <1>4, <1>5, <1>7 DEF Outside, Inside
<1>12. StackOK(stack', bound')
  <2>1. StackOK(stack', bound)
    BY <1>1, <1>2, StackBelow DEF Sound, CheckerOK
  <2> QED BY <1>9, <2>1 DEF StackOK
<1>13. MovedOK(moved', bound')
  BY <1>1, <1>8 DEF Sound, CheckerOK, MovedOK
<1>14. Depth' = d /\ frames' = frames
  BY <1>1, <1>3 DEF Depth
<1>15. ASSUME NEW j \in Names, bound'[j] # Nothing
       PROVE  BindingOK(bound'[j], bound') /\ bound'[j].level <= d
  <2>1. CASE j # m
    <3>1. bound'[j] = bound[j] /\ BindingOK(bound[j], bound) /\ bound[j].level <= d
      BY <1>3, <1>7, <1>15, <2>1 DEF Sound, CheckerOK, BoundOK
    <3>2. SlotOK(bound[j], bound) /\ SlotOK(bound[j], bound')
      BY <1>9, <3>1 DEF BindingOK
    <3>3. IsRef(bound[j].ty) /\ bound[j].deriv # Nothing /\ bound[j].deriv.root # Nothing
          => bound'[bound[j].deriv.root] = bound[bound[j].deriv.root]
      BY <1>8, <3>2 DEF SlotOK, Derivs
    <3> QED BY <3>1, <3>2, <3>3 DEF BindingOK
  <2>2. CASE j = m
    <3>1. IsRef(b.ty) /\ b.deriv # Nothing /\ b.deriv.root # Nothing => bound'[b.deriv.root].level <= d
      <4> SUFFICES ASSUME IsRef(b.ty), b.deriv # Nothing, b.deriv.root # Nothing PROVE bound'[b.deriv.root].level <= d
        OBVIOUS
      <4>1. b.deriv.root \in Names /\ bound[b.deriv.root] # Nothing
        BY <1>10 DEF SlotOK, Derivs
      <4> QED BY <1>3, <1>8, <4>1 DEF Sound, CheckerOK, BoundOK
    <3> QED BY <1>5, <1>7, <1>9, <1>10, <2>2, <3>1 DEF BindingOK
  <2> QED BY <2>1, <2>2
<1>16. BoundOK'
  <2>1. bound' \in [Names -> {Nothing} \cup Bindings]
    BY <1>1, <1>4, <1>5
  <2> QED BY <1>14, <1>15, <2>1 DEF BoundOK
<1>17. done' \subseteq Granted(Depth)'
  <2>1. \A k : Grant(k)' = Grant(k)
    BY <1>14 DEF Grant
  <2>2. \A j \in Granted(d) : j \in Granted(d)'
    BY <1>8, <2>1 DEF Granted
  <2>3. m \in Granted(d)'
    BY <1>5, <1>6, <1>7 DEF Granted
  <2>4. done' \subseteq done \cup {m} /\ done \subseteq Granted(d)
    BY <1>1, <1>3 DEF Mentioned, Sound, CheckerOK
  <2>5. Granted(Depth)' = Granted(d)'
    BY <1>14 DEF Granted, Grant
  <2> QED BY <2>2, <2>3, <2>4, <2>5
<1>18. \A k \in 1..d : FrameOK(k)'
  <2> SUFFICES ASSUME NEW k \in 1..d PROVE FrameOK(k)'
    OBVIOUS
  <2>1. Outside(d) /\ FrameOK(k)
    BY <1>3, <1>11 DEF Sound, CheckerOK
  <2> QED BY <1>4, <1>14, <2>1, FrameStays
<1>19. granted' = Grant(Depth)'
  BY <1>1, <1>14 DEF Sound, CheckerOK, Grant, Depth
<1>20. CheckerOK'
  BY <1>12, <1>13, <1>14, <1>16, <1>17, <1>18, <1>19, <1>3 DEF CheckerOK, Sound
<1>21. ASSUME Executing PROVE Below(vals, 1) \in Seq(Values) /\ [env EXCEPT ![m] = TopVal] \in [Names -> Values \cup {Nothing}]
  <2>1. TopVal \in Values /\ vals \in Seq(Values) /\ 1 \in 0..Len(vals) /\ env \in [Names -> Values \cup {Nothing}]
    BY <1>1, <1>2, <1>21, SoundTop DEF Sound, Typed
  <2>2. Below(vals, 1) \in Seq(Values)
    BY <2>1, BelowAre, Zenon
  <2> QED BY <2>1, <2>2
<1>22. Typed'
  BY <1>1, <1>21, TypedStays DEF Sound
<1> QED BY <1>11, <1>20, <1>22

\* What each term does to both sides.
Onward ==
  /\ CheckerOK' /\ Typed' /\ Outside(Depth) /\ UNCHANGED <<frames, mode>>
  /\ Executing => Agrees(stack', bound', done', moved', vals', env', gone')
  /\ ~Executing => UNCHANGED <<vals, env, gone>>

LEMMA Waits ==
  ASSUME NEW vs, NEW e, NEW d, Execute(vs, e, d)
  PROVE  UNCHANGED mode /\ (~Executing => UNCHANGED <<vals, env, gone>>)
BY DEF Execute

LEMMA TermOnward ==
  ASSUME BorrowAssumption, Plain, Sound, NEW kinds, Term(kinds), left' \in Nat
  PROVE  Onward
<1>1. bound' = bound => Outside(Depth)
  BY DEF Outside
<1>2. /\ Executing => Running
      /\ Depth \in 0..MaxDepth
  BY SoundRuns
<1>3. CASE \E ty \in Types : Make(ty)
  <2>1. PICK ty \in Types : Make(ty)
    BY <1>3
  <2>2. CheckerOK' /\ Typed' /\ (Executing => Agrees(stack', bound', done', moved', vals', env', gone'))
    BY <1>2, <2>1, MakeFits, MakeAgrees
  <2>3. bound' = bound /\ frames' = frames /\ UNCHANGED mode /\ (~Executing => UNCHANGED <<vals, env, gone>>)
    BY <2>1, Waits DEF Make
  <2> QED BY <1>1, <2>2, <2>3 DEF Onward
<1>4. CASE \E k \in 1..2 : Consume(k)
  <2>1. PICK k \in 1..2 : Consume(k)
    BY <1>4
  <2>2. CheckerOK' /\ Typed' /\ (Executing => Agrees(stack', bound', done', moved', vals', env', gone'))
    BY <1>2, <2>1, ConsumeFits, ConsumeAgrees
  <2>3. bound' = bound /\ frames' = frames /\ UNCHANGED mode /\ (~Executing => UNCHANGED <<vals, env, gone>>)
    BY <2>1, Waits DEF Consume
  <2> QED BY <1>1, <2>2, <2>3 DEF Onward
<1>5. CASE Dup
  <2>1. CheckerOK' /\ Typed' /\ (Executing => Agrees(stack', bound', done', moved', vals', env', gone'))
    BY <1>2, <1>5, DupFits, DupAgrees
  <2>2. bound' = bound /\ frames' = frames /\ UNCHANGED mode /\ (~Executing => UNCHANGED <<vals, env, gone>>)
    BY <1>5, Waits DEF Dup
  <2> QED BY <1>1, <2>1, <2>2 DEF Onward
<1>6. CASE Over
  <2>1. CheckerOK' /\ Typed' /\ (Executing => Agrees(stack', bound', done', moved', vals', env', gone'))
    BY <1>2, <1>6, OverFits, OverAgrees
  <2>2. bound' = bound /\ frames' = frames /\ UNCHANGED mode /\ (~Executing => UNCHANGED <<vals, env, gone>>)
    BY <1>6, Waits DEF Over
  <2> QED BY <1>1, <2>1, <2>2 DEF Onward
<1>7. CASE Swap
  <2>1. CheckerOK' /\ Typed' /\ (Executing => Agrees(stack', bound', done', moved', vals', env', gone'))
    BY <1>2, <1>7, SwapFits, SwapAgrees
  <2>2. bound' = bound /\ frames' = frames /\ UNCHANGED mode /\ (~Executing => UNCHANGED <<vals, env, gone>>)
    BY <1>7, Waits DEF Swap
  <2> QED BY <1>1, <2>1, <2>2 DEF Onward
<1>8. CASE \E n \in Names, last \in BOOLEAN : Bind(n, last)
  <2>1. PICK n \in Names, last \in BOOLEAN : Bind(n, last)
    BY <1>8
  <2>2. CheckerOK' /\ Typed' /\ Outside(Depth)
    BY <2>1, BindFits
  <2>3. Executing => Agrees(stack', bound', done', moved', vals', env', gone')
    BY <1>2, <2>1, BindAgrees
  <2>4. frames' = frames /\ UNCHANGED mode /\ (~Executing => UNCHANGED <<vals, env, gone>>)
    BY <2>1, Waits DEF Bind
  <2> QED BY <2>2, <2>3, <2>4 DEF Onward
<1>9. CASE \E n \in Names, last \in BOOLEAN : NameReference(n, last)
  <2>1. PICK n \in Names, last \in BOOLEAN : NameReference(n, last)
    BY <1>9
  <2>2. CheckerOK' /\ Typed'
    BY <2>1, NameReferenceFits
  <2>3. Executing => Agrees(stack', bound', done', moved', vals', env', gone')
    BY <1>2, <2>1, NameReferenceAgrees
  <2>4. bound' = bound /\ frames' = frames /\ UNCHANGED mode /\ (~Executing => UNCHANGED <<vals, env, gone>>)
    BY <2>1, Waits DEF NameReference
  <2> QED BY <1>1, <2>2, <2>3, <2>4 DEF Onward
<1>10. CASE \E n \in Names, last \in BOOLEAN : NameAggregate(n, last)
  <2>1. PICK n \in Names, last \in BOOLEAN : NameAggregate(n, last)
    BY <1>10
  <2>2. CheckerOK' /\ Typed'
    BY <2>1, NameAggregateFits
  <2>3. Executing => Agrees(stack', bound', done', moved', vals', env', gone')
    BY <1>2, <2>1, NameCopyAgrees, NameLinearAgrees
  <2>4. bound' = bound /\ frames' = frames /\ UNCHANGED mode /\ (~Executing => UNCHANGED <<vals, env, gone>>)
    BY <2>1, Waits DEF NameAggregate
  <2> QED BY <1>1, <2>2, <2>3, <2>4 DEF Onward
<1>11. CASE \E n \in Names, last \in BOOLEAN, mutable \in BOOLEAN : Borrow(n, mutable, last)
  <2>1. PICK n \in Names, last \in BOOLEAN, mutable \in BOOLEAN : Borrow(n, mutable, last)
    BY <1>11
  <2>2. CheckerOK' /\ Typed'
    BY <2>1, BorrowFits
  <2>3. Executing => Agrees(stack', bound', done', moved', vals', env', gone')
    BY <1>2, <2>1, BorrowAgrees
  <2>4. bound' = bound /\ frames' = frames /\ UNCHANGED mode /\ (~Executing => UNCHANGED <<vals, env, gone>>)
    BY <2>1, Waits DEF Borrow
  <2> QED BY <1>1, <2>2, <2>3, <2>4 DEF Onward
<1>12. CASE \E f \in Fields : ProjectReference(f)
  <2>1. PICK f \in Fields : ProjectReference(f)
    BY <1>12
  <2>2. CheckerOK' /\ Typed'
    BY <2>1, ProjectReferenceFits
  <2>3. Executing => Agrees(stack', bound', done', moved', vals', env', gone')
    BY <1>2, <2>1, ProjectReferenceAgrees
  <2>4. bound' = bound /\ frames' = frames /\ UNCHANGED mode /\ (~Executing => UNCHANGED <<vals, env, gone>>)
    BY <2>1, Waits DEF ProjectReference
  <2> QED BY <1>1, <2>2, <2>3, <2>4 DEF Onward
<1>13. CASE \E f \in Fields, mutable \in BOOLEAN : ProjectOwned(f, mutable)
  <2>1. PICK f \in Fields, mutable \in BOOLEAN : ProjectOwned(f, mutable)
    BY <1>13
  <2>2. CheckerOK' /\ Typed'
    BY <2>1, ProjectOwnedFits
  <2>3. Executing => Agrees(stack', bound', done', moved', vals', env', gone')
    BY <1>2, <2>1, ProjectOwnedAgrees
  <2>4. bound' = bound /\ frames' = frames /\ UNCHANGED mode /\ (~Executing => UNCHANGED <<vals, env, gone>>)
    BY <2>1, Waits DEF ProjectOwned
  <2> QED BY <1>1, <2>2, <2>3, <2>4 DEF Onward
<1> QED BY <1>3, <1>4, <1>5, <1>6, <1>7, <1>8, <1>9, <1>10, <1>11, <1>12, <1>13 DEF Term

\* A body goes on in the arm taken, or waits where it waited.
LEMMA OnwardSynced ==
  ASSUME BorrowAssumption, Sound, Synced, Onward
  PROVE  Synced'
<1>1. frames' = frames /\ Depth' = Depth /\ mode' = mode
  BY DEF Onward, Depth
<1>2. CASE Executing
  <2>1. Executing'
    BY <1>1, <1>2 DEF Executing
  <2>2. \A k \in 1..Depth' : frames'[k].pick = frames'[k].arm
    BY <1>1, <1>2 DEF Synced
  <2> QED BY <1>2, <2>1, <2>2 DEF Synced, Onward
<1>3. CASE ~Executing
  <2>1. ~Executing' /\ UNCHANGED <<vals, env, gone>>
    BY <1>1, <1>3 DEF Executing, Onward
  <2>2. PICK a \in 1..Depth :
          LET f == frames[a]  b == Outer(bound, a) IN
          /\ \A k \in 1..Depth : IF k < a THEN frames[k].pick = frames[k].arm ELSE k > a => frames[k].pick = 0
          /\ \/ f.arm = 1 /\ f.pick = 2 /\ Agrees(f.entry, b, f.entryDone, f.entryMoved, vals, env, gone)
             \/ f.arm = 2 /\ f.pick = 1 /\ Agrees(f.first, b, f.grant, f.firstMoved, vals, env, gone)
    BY <1>3 DEF Synced
  <2>3. Outer(bound', a) = Outer(bound, a)
    <3>1. PICK d : d = Depth
      OBVIOUS
    <3>2. d \in Nat /\ Outside(d) /\ a \in 0..d
      BY <3>1, SoundRuns DEF Onward
    <3> QED BY <3>2, OuterStays
  <2> QED BY <1>1, <2>1, <2>2, <2>3 DEF Synced
<1> QED BY <1>2, <1>3

LEMMA StraightKeeps ==
  ASSUME BorrowAssumption, Plain, IInv, NEW kinds, Straight(kinds)
  PROVE  IInv'
<1>1. Sound /\ Synced
  BY DEF IInv, Sound, Typed, Synced
<1>2. left' \in Nat
  BY DEF IInv, CheckerOK, Straight, Depth
<1>3. Onward
  BY <1>1, <1>2, TermOnward DEF Straight
<1>4. Synced'
  BY <1>1, <1>3, OnwardSynced
<1> QED BY <1>3, <1>4 DEF Onward, IInv, Typed
-----------------------------------------------------------------------------
(* The arms of a branch.                                                     *)

\* What this invocation may grant is what it bound or was granted.
LEMMA ReleasableGranted ==
  ASSUME Sound, NEW n \in Scoped, Releasable(n)
  PROVE  n \in Granted(Depth)
<1>1. granted = Grant(Depth) /\ n \in Names /\ bound[n] # Nothing /\ bound[n].level <= Depth
  BY DEF Sound, CheckerOK, BoundOK, Scoped
<1>2. bound[n].level \in Int /\ Depth \in Nat
  BY <1>1, SoundRuns DEF Sound, CheckerOK, BoundOK, Bindings
<1> QED BY <1>1, <1>2 DEF Releasable, Granted

LEMMA WholeOuter ==
  ASSUME Sound, NEW d \in Nat, d > Depth
  PROVE  Outer(bound, d) = bound
<1>1. bound \in [Names -> {Nothing} \cup Bindings] /\ \A n \in Names : bound[n] # Nothing => bound[n].level <= Depth
  BY DEF Sound, CheckerOK, BoundOK
<1>2. \A n \in Names : bound[n] # Nothing => bound[n].level < d
  BY <1>1, SoundRuns DEF Bindings
<1> QED BY <1>1, <1>2 DEF Outer

LEMMA OpenKeeps ==
  ASSUME BorrowAssumption, IInv, NEW grant \in SUBSET Names, NEW unused \in SUBSET Names, NEW pick \in 1..2, Open(grant, unused, pick)
  PROVE  IInv'
<1> DEFINE p == IF Executing THEN pick ELSE 0
           f == [entry |-> stack, entryMoved |-> moved, entryDone |-> done, outer |-> granted,
                 grant |-> grant, arm |-> 1, first |-> <<>>, firstMoved |-> {}, pick |-> p, left |-> left]
<1>1. /\ Depth < MaxDepth /\ done \subseteq grant /\ grant \subseteq {n \in Scoped : Releasable(n)}
      /\ done \subseteq unused /\ unused \subseteq grant /\ frames' = Append(frames, f)
      /\ granted' = grant /\ done' = unused /\ left' = ArmTerms
      /\ mode' = IF Executing /\ pick = 1 THEN "run" ELSE "skip"
      /\ UNCHANGED <<stack, bound, moved, vals, env, gone>>
  BY DEF Open
<1>2. Sound /\ Synced
  BY DEF IInv, Sound, Typed, Synced
<1>3. PICK d \in Nat : d = Depth
  BY <1>2, SoundRuns
<1>4. frames \in Seq(Frames) /\ Len(frames) = d
  BY <1>2, <1>3, SoundRuns DEF Depth
<1>5. grant \subseteq Granted(d)
  BY <1>1, <1>2, <1>3, ReleasableGranted
<1>6. /\ StackOK(stack, bound) /\ MovedOK(moved, bound) /\ granted = Grant(d) /\ left \in Nat /\ BoundOK
      /\ \A k \in 1..d : FrameOK(k)
  BY <1>2, <1>3 DEF Sound, CheckerOK
<1>7. granted \subseteq Names
  <2>1. d # 0 => frames[d] \in Frames
    BY <1>4
  <2> QED BY <1>6, <2>1 DEF Grant, Frames
<1>8. f \in Frames
  BY <1>1, <1>6, <1>7 DEF Frames, StackOK, MovedOK
<1>9. /\ f.entry = stack /\ f.entryMoved = moved /\ f.entryDone = done /\ f.outer = granted /\ f.grant = grant
      /\ f.arm = 1 /\ f.pick = p /\ p \in 0..2
  OBVIOUS
<1> HIDE DEF f
<1>10. /\ frames' \in Seq(Frames) /\ Len(frames') = d + 1 /\ Depth' = d + 1 /\ frames'[d + 1] = f
       /\ \A k \in 1..d : frames'[k] = frames[k]
  BY <1>1, <1>4, <1>8 DEF Depth
<1>11. Outside(d)
  BY <1>1 DEF Outside
<1>12. ASSUME NEW k \in 1..d PROVE FrameOK(k)'
  BY <1>6, <1>10, <1>11, FrameStays
<1>13. Outer(bound', d + 1) = bound
  BY <1>1, <1>2, <1>3, WholeOuter
<1>14. Grant(d)' = Grant(d) /\ Grant(d + 1)' = grant
  BY <1>9, <1>10 DEF Grant
<1>15. Granted(d)' = Granted(d)
  BY <1>1, <1>14 DEF Granted
<1>16. FrameOK(d + 1)'
  <2>1. (d + 1) - 1 = d
    OBVIOUS
  <2>2. f.outer = Grant(d)' /\ f.grant \subseteq Granted(d)' /\ f.entryDone \subseteq f.grant
    BY <1>1, <1>5, <1>6, <1>9, <1>14, <1>15
  <2>3. StackOK(f.entry, Outer(bound', d + 1)) /\ MovedOK(f.entryMoved, Outer(bound', d + 1))
    BY <1>6, <1>9, <1>13
  <2> QED BY <1>9, <1>10, <2>1, <2>2, <2>3 DEF FrameOK
<1>17. done' \subseteq Granted(d + 1)'
  <2> SUFFICES ASSUME NEW n \in unused PROVE n \in Granted(d + 1)'
    BY <1>1
  <2>1. n \in grant /\ n \in Scoped /\ n \in Names
    BY <1>1 DEF Scoped
  <2>2. bound[n] # Nothing /\ bound[n].level <= d /\ bound[n].level \in Int
    BY <1>3, <1>6, <2>1 DEF BoundOK, Scoped, Bindings
  <2> QED BY <1>1, <1>14, <2>1, <2>2 DEF Granted
<1>18. BoundOK'
  <2>1. \A n \in Names : bound[n] # Nothing => bound[n].level <= d /\ bound[n].level \in Int
    BY <1>3, <1>6 DEF BoundOK, Bindings
  <2> QED BY <1>1, <1>6, <1>10, <2>1 DEF BoundOK
<1>19. granted' = Grant(Depth)' /\ done' \subseteq Granted(Depth)'
  <2>1. Grant(Depth)' = Grant(d + 1)' /\ Granted(Depth)' = Granted(d + 1)'
    BY <1>10 DEF Grant, Granted
  <2> QED BY <1>1, <1>14, <1>17, <2>1
<1>20. CheckerOK'
  <2>1. \A k \in 1..d + 1 : FrameOK(k)'
    BY <1>12, <1>16
  <2>2. d + 1 <= MaxDepth /\ left' \in Nat
    BY <1>1, <1>3 DEF BorrowAssumption
  <2>3. StackOK(stack', bound') /\ MovedOK(moved', bound')
    BY <1>1, <1>6
  <2> QED BY <1>10, <1>18, <1>19, <2>1, <2>2, <2>3 DEF CheckerOK
<1>21. Synced'
  <2>1. CASE Executing /\ pick = 1
    <3>1. Executing' /\ p = 1
      BY <1>1, <2>1 DEF Executing
    <3>2. Agrees(stack, bound, unused, moved, vals, env, gone)
      BY <1>1, <1>2, <2>1, Dies DEF Sound
    <3>3. \A k \in 1..d + 1 : frames'[k].pick = frames'[k].arm
      BY <1>2, <1>3, <1>9, <1>10, <2>1, <3>1 DEF Synced
    <3> QED BY <1>1, <1>10, <3>1, <3>2, <3>3 DEF Synced
  <2>2. CASE Executing /\ pick = 2
    <3>1. ~Executing' /\ p = 2
      BY <1>1, <2>2 DEF Executing
    <3>2. Agrees(f.entry, Outer(bound', d + 1), f.entryDone, f.entryMoved, vals, env, gone)
      BY <1>2, <1>9, <1>13, <2>2 DEF Sound
    <3>3. \A k \in 1..d + 1 : IF k < d + 1 THEN frames'[k].pick = frames'[k].arm ELSE k > d + 1 => frames'[k].pick = 0
      BY <1>2, <1>3, <1>10, <2>2 DEF Synced
    <3>4. d + 1 \in 1..d + 1
      OBVIOUS
    <3> QED BY <1>1, <1>9, <1>10, <3>1, <3>2, <3>3, <3>4 DEF Synced
  <2>3. CASE ~Executing
    <3>1. ~Executing' /\ p = 0
      BY <1>1, <2>3 DEF Executing
    <3>2. PICK a \in 1..Depth :
            LET g == frames[a]  b == Outer(bound, a) IN
            /\ \A k \in 1..Depth : IF k < a THEN frames[k].pick = frames[k].arm ELSE k > a => frames[k].pick = 0
            /\ \/ g.arm = 1 /\ g.pick = 2 /\ Agrees(g.entry, b, g.entryDone, g.entryMoved, vals, env, gone)
               \/ g.arm = 2 /\ g.pick = 1 /\ Agrees(g.first, b, g.grant, g.firstMoved, vals, env, gone)
      BY <1>2, <2>3 DEF Synced
    <3>3. a \in 1..d /\ a \in 1..d + 1 /\ frames'[a] = frames[a]
      BY <1>3, <1>10
    <3>4. \A k \in 1..d + 1 : IF k < a THEN frames'[k].pick = frames'[k].arm ELSE k > a => frames'[k].pick = 0
      <4>1. \A k \in 1..d : IF k < a THEN frames[k].pick = frames[k].arm ELSE k > a => frames[k].pick = 0
        BY <1>3, <3>2
      <4>2. frames'[d + 1].pick = 0 /\ d + 1 > a
        BY <1>9, <1>10, <3>1, <3>3
      <4>3. \A k \in 1..d + 1 : k \in 1..d \/ k = d + 1
        OBVIOUS
      <4> QED BY <1>10, <4>1, <4>2, <4>3, SMTT(30)
    <3> QED BY <1>1, <1>10, <3>1, <3>2, <3>3, <3>4 DEF Synced
  <2> QED BY <2>1, <2>2, <2>3
<1> QED BY <1>1, <1>2, <1>20, <1>21 DEF IInv, Sound, Typed

\* What the frames and the scope are when an arm is left.
LEMMA ArmLeft ==
  ASSUME BorrowAssumption, Plain, Sound, LeaveArm, NEW d \in Nat \ {0}, d = Depth
  PROVE  /\ bound' = Outer(bound, d) /\ Outside(d) /\ Outer(bound', d) = bound' /\ Typed'
         /\ StackOK(stack, bound') /\ MovedOK(MovedOuter, bound') /\ bound' \in [Names -> {Nothing} \cup Bindings]
         /\ \A n \in Names : bound'[n] # Nothing =>
              BindingOK(bound'[n], bound') /\ bound'[n].level <= d - 1 /\ bound'[n] = bound[n] /\ n \notin Inner
         /\ \A n \in Scoped \ Inner : bound'[n] = bound[n]
<1>1. /\ \A s \in SlotsOf(stack) : s.deriv # Nothing => s.deriv.root \notin Inner
      /\ bound' = [n \in Names |-> IF n \in Inner THEN Nothing ELSE bound[n]]
  BY DEF LeaveArm, Plain, Has
<1>2. /\ bound \in [Names -> {Nothing} \cup Bindings]
      /\ \A n \in Names : bound[n] # Nothing => BindingOK(bound[n], bound) /\ bound[n].level <= d
  BY DEF Sound, CheckerOK, BoundOK
<1>3. \A n \in Names : bound[n] # Nothing => bound[n].level \in Nat
  BY <1>2 DEF Bindings
<1>4. \A n \in Names : n \in Inner <=> bound[n] # Nothing /\ ~(bound[n].level < d)
  BY <1>2, <1>3 DEF Inner, Scoped
<1>5. bound' = Outer(bound, d)
  BY <1>1, <1>4 DEF Outer
<1>6. \A n \in Names : bound'[n] = IF n \in Inner THEN Nothing ELSE bound[n]
  BY <1>1
<1>7. Outside(d)
  BY <1>2, <1>3, <1>6 DEF Outside, Inside, Inner, Scoped
<1>8. Outer(bound', d) = bound'
  <2>1. Outer(bound', d) = Outer(bound, d)
    BY <1>7, OuterStays
  <2> QED BY <1>5, <2>1
<1>9. ASSUME NEW s, SlotOK(s, bound), s.deriv # Nothing => s.deriv.root \notin Inner
      PROVE  SlotOK(s, bound')
  BY <1>6, <1>9 DEF SlotOK, Derivs
<1>10. StackOK(stack, bound')
  <2>1. stack \in Seq(Slots) /\ \A k \in DOMAIN stack : SlotOK(stack[k], bound) /\ stack[k] \in SlotsOf(stack)
    BY DEF Sound, CheckerOK, StackOK, SlotsOf
  <2> QED BY <1>1, <1>9, <2>1 DEF StackOK
<1>11. MovedOK(MovedOuter, bound')
  BY <1>6 DEF Sound, CheckerOK, MovedOK, MovedOuter
<1>12. ASSUME NEW n \in Names, bound'[n] # Nothing
       PROVE  BindingOK(bound'[n], bound') /\ bound'[n].level <= d - 1 /\ bound'[n] = bound[n] /\ n \notin Inner
  <2>1. bound'[n] = bound[n] /\ n \notin Inner /\ BindingOK(bound[n], bound) /\ bound[n].level < d
    BY <1>2, <1>4, <1>6, <1>12
  <2>2. ASSUME IsRef(bound[n].ty), bound[n].deriv # Nothing, bound[n].deriv.root # Nothing
        PROVE  bound[n].deriv.root \notin Inner /\ bound'[bound[n].deriv.root] = bound[bound[n].deriv.root]
               /\ bound[bound[n].deriv.root].level <= bound[n].level
    <3>1. bound[n].deriv.root \in Names /\ bound[bound[n].deriv.root] # Nothing /\ bound[bound[n].deriv.root].level <= bound[n].level
      BY <2>1, <2>2 DEF BindingOK, SlotOK, Derivs
    <3>2. bound[bound[n].deriv.root].level < d
      <4>1. \A i, j \in Nat : i <= j /\ j < d => i < d
        OBVIOUS
      <4>2. bound[bound[n].deriv.root].level \in Nat /\ bound[n].level \in Nat
        BY <1>3, <1>12, <2>1, <3>1
      <4> QED BY <2>1, <3>1, <4>1, <4>2, Zenon
    <3> QED BY <1>4, <1>6, <3>1, <3>2
  <2>3. SlotOK(bound[n], bound')
    <3>1. SlotOK(bound[n], bound)
      BY <2>1 DEF BindingOK
    <3>2. bound[n].deriv # Nothing => bound[n].deriv.root \notin Inner
      <4>1. CASE IsRef(bound[n].ty) /\ bound[n].deriv # Nothing /\ bound[n].deriv.root # Nothing
        BY <2>2, <4>1
      <4>2. CASE bound[n].deriv # Nothing /\ bound[n].deriv.root = Nothing
        BY <4>2 DEF Inner, Scoped, BorrowAssumption
      <4>3. CASE ~IsRef(bound[n].ty)
        BY <3>1, <4>3 DEF SlotOK
      <4> QED BY <4>1, <4>2, <4>3
    <3> QED BY <1>9, <3>1, <3>2
  <2>4. BindingOK(bound[n], bound')
    BY <2>1, <2>2, <2>3 DEF BindingOK
  <2>5. bound[n].level <= d - 1
    BY <1>2, <1>3, <1>12, <2>1
  <2> QED BY <2>1, <2>4, <2>5
<1>13. Typed'
  <2>1. CASE ~Executing
    BY <2>1 DEF LeaveArm, Sound, Typed
  <2>2. CASE Executing
    <3> DEFINE e == [n \in Names |-> IF n \in Inner \/ env[n] = Nothing THEN Nothing ELSE Forget(env[n])]
               vs == [i \in DOMAIN vals |-> Forget(vals[i])]
    <3>1. vals' = vs /\ env' = e
      BY <2>2 DEF LeaveArm
    <3>2. \A v \in Values : Forget(v) \in Values
      BY DEF Forget, Values
    <3>3. vals \in Seq(Values) /\ env \in [Names -> Values \cup {Nothing}]
      BY DEF Sound, Typed
    <3>4. vs \in Seq(Values)
      <4>1. DOMAIN vals = 1..Len(vals) /\ Len(vals) \in Nat /\ \A i \in DOMAIN vals : vals[i] \in Values
        BY <3>3
      <4>2. vs \in [1..Len(vals) -> Values]
        BY <3>2, <4>1
      <4> QED BY <4>1, <4>2
    <3>5. e \in [Names -> Values \cup {Nothing}]
      BY <3>2, <3>3
    <3> QED BY <3>1, <3>4, <3>5 DEF Typed
  <2> QED BY <2>1, <2>2
<1>14. \A n \in Scoped \ Inner : bound'[n] = bound[n]
  BY <1>6 DEF Scoped
<1>15. bound' \in [Names -> {Nothing} \cup Bindings]
  BY <1>1, <1>2
<1> QED BY <1>5, <1>7, <1>8, <1>10, <1>11, <1>12, <1>13, <1>14, <1>15

LEMMA SkipsAt ==
  ASSUME Synced, ~Executing
  PROVE  \E a \in 1..Depth :
           /\ \A k \in 1..Depth : IF k < a THEN frames[k].pick = frames[k].arm ELSE k > a => frames[k].pick = 0
           /\ \/ /\ frames[a].arm = 1 /\ frames[a].pick = 2
                 /\ Agrees(frames[a].entry, Outer(bound, a), frames[a].entryDone, frames[a].entryMoved, vals, env, gone)
              \/ /\ frames[a].arm = 2 /\ frames[a].pick = 1
                 /\ Agrees(frames[a].first, Outer(bound, a), frames[a].grant, frames[a].firstMoved, vals, env, gone)
BY DEF Synced

LEMMA NextArmKeeps ==
  ASSUME BorrowAssumption, Plain, IInv, NEW unused \in SUBSET Names, NextArm(unused)
  PROVE  IInv'
<1>1. PICK d : d = Depth
  OBVIOUS
<1>2. Sound /\ Synced
  BY DEF IInv, Sound, Typed, Synced
<1> DEFINE f == frames[d]
           f2 == [f EXCEPT !.arm = 2, !.first = stack, !.firstMoved = MovedOuter]
<1>3. /\ Depth > 0 /\ f.arm = 1 /\ f.entryDone \subseteq unused /\ unused \subseteq f.grant /\ LeaveArm
      /\ frames' = [frames EXCEPT ![d] = f2]
      /\ stack' = f.entry /\ moved' = f.entryMoved /\ done' = unused /\ left' = ArmTerms
      /\ mode' = IF f.pick = 2 THEN "run" ELSE "skip"
      /\ granted' = granted
  BY <1>1 DEF NextArm, Resumes
<1>4. d \in Nat \ {0} /\ frames \in Seq(Frames) /\ Len(frames) = d /\ d <= MaxDepth
  BY <1>1, <1>2, <1>3, SoundRuns DEF Depth, BorrowAssumption
<1>5. f \in Frames
  BY <1>4
<1>6. /\ bound' = Outer(bound, d) /\ Outside(d) /\ Outer(bound', d) = bound' /\ Typed'
      /\ StackOK(stack, bound') /\ MovedOK(MovedOuter, bound') /\ bound' \in [Names -> {Nothing} \cup Bindings]
      /\ \A n \in Names : bound'[n] # Nothing => BindingOK(bound'[n], bound') /\ bound'[n].level <= d - 1
      /\ \A n \in Scoped \ Inner : bound'[n] = bound[n]
  BY <1>1, <1>2, <1>3, <1>4, ArmLeft
<1>7. f2 \in Frames /\ f2.entry = f.entry /\ f2.entryMoved = f.entryMoved /\ f2.entryDone = f.entryDone /\ f2.outer = f.outer
      /\ f2.grant = f.grant /\ f2.arm = 2 /\ f2.first = stack /\ f2.firstMoved = MovedOuter /\ f2.pick = f.pick
  <2>1. stack \in Seq(Slots) /\ MovedOuter \subseteq Names
    BY <1>6 DEF StackOK, MovedOK
  <2> HIDE DEF f
  <2> QED BY <1>5, <2>1 DEF Frames
<1> HIDE DEF f2
<1>8. /\ frames' \in Seq(Frames) /\ Len(frames') = d /\ Depth' = d /\ frames'[d] = f2
      /\ \A k \in 1..d : k # d => frames'[k] = frames[k]
  BY <1>3, <1>4, <1>7 DEF Depth
<1>9. FrameOK(d) /\ (\A k \in 1..d : FrameOK(k)) /\ granted = Grant(d) /\ done \subseteq Granted(d)
  BY <1>1, <1>2, <1>4 DEF Sound, CheckerOK
<1>10. \A k \in 1..d : frames'[k].grant = frames[k].grant
  BY <1>7, <1>8
<1>11. ASSUME NEW k \in 1..d, k # d PROVE FrameOK(k)'
  <2>1. frames'[k] = frames[k] /\ \A j \in 1..k : frames'[j].grant = frames[j].grant
    BY <1>4, <1>8, <1>10, <1>11, SMTT(30)
  <2> QED BY <1>4, <1>6, <1>9, <2>1, FrameStays
<1>12. Granted(d - 1)' = Granted(d - 1)
  <2>1. d - 1 \in 0..d - 1 /\ (d - 1 > 0 => d - 1 \in 1..d)
    BY <1>4
  <2> QED BY <1>4, <1>6, <1>10, <2>1, GrantedStays
<1>13. FrameOK(d)'
  <2>1. Grant(d - 1)' = Grant(d - 1)
    <3>1. d - 1 # 0 => d - 1 \in 1..d
      BY <1>4
    <3> QED BY <1>10, <3>1 DEF Grant
  <2>2. /\ f.pick \in 0..2 /\ f.outer = Grant(d - 1) /\ f.grant \subseteq Granted(d - 1) /\ f.entryDone \subseteq f.grant
        /\ StackOK(f.entry, bound') /\ MovedOK(f.entryMoved, bound')
    BY <1>6, <1>9 DEF FrameOK
  <2> QED BY <1>6, <1>7, <1>8, <1>12, <2>1, <2>2 DEF FrameOK
<1>14. granted' = Grant(Depth)' /\ done' \subseteq Granted(Depth)'
  <2>1. Grant(Depth)' = f.grant /\ Granted(Depth)' = Granted(d)'
    BY <1>4, <1>7, <1>8 DEF Grant, Granted
  <2>2. granted = f.grant
    BY <1>4, <1>9 DEF Grant
  <2>3. ASSUME NEW n \in unused PROVE n \in Granted(d)'
    <3>1. n \in f.grant /\ n \in Granted(d - 1)'
      BY <1>3, <1>9, <1>12 DEF FrameOK
    <3>2. n \in Names /\ bound'[n] # Nothing
      BY <3>1 DEF Granted
    <3>3. bound'[n].level < d
      BY <1>4, <1>6, <3>2 DEF Bindings
    <3>4. n \in Grant(d)'
      BY <1>4, <1>7, <1>8, <3>1 DEF Grant
    <3> QED BY <3>2, <3>3, <3>4 DEF Granted
  <2> QED BY <1>3, <2>1, <2>2, <2>3
<1>15. CheckerOK'
  <2>1. BoundOK'
    <3>1. \A n \in Names : bound'[n] # Nothing => bound'[n].level <= d
      BY <1>4, <1>6 DEF Bindings
    <3> QED BY <1>6, <1>8, <3>1 DEF BoundOK
  <2>2. StackOK(stack', bound') /\ MovedOK(moved', bound')
    BY <1>3, <1>6, <1>9 DEF FrameOK
  <2>3. left' \in Nat
    BY <1>3 DEF BorrowAssumption
  <2> QED BY <1>4, <1>8, <1>11, <1>13, <1>14, <2>1, <2>2, <2>3 DEF CheckerOK
<1>16. CASE Executing
  <2>1. f.pick = 1 /\ \A k \in 1..d : frames[k].pick = frames[k].arm
    BY <1>1, <1>2, <1>3, <1>4, <1>16 DEF Synced
  <2>2. ~Executing'
    BY <1>3, <2>1 DEF Executing
  <2>3. \A n \in Scoped \ Inner : (n \in done => n \in f.grant) /\ (n \in moved => n \in MovedOuter)
    BY <1>1, <1>4, <1>9 DEF Granted, Grant, Inner, MovedOuter
  <2>4. Agrees(stack, bound', f.grant, MovedOuter, vals', env', gone')
    <3>1. Running /\ Depth \in Nat
      BY <1>2, <1>16, SoundRuns
    <3> QED BY <1>3, <2>3, <3>1, LeavesArm
  <2>5. d \in 1..d /\ \A k \in 1..d : IF k < d THEN frames'[k].pick = frames'[k].arm ELSE k > d => frames'[k].pick = 0
    BY <1>4, <1>8, <2>1
  <2>6. Synced'
    BY <1>6, <1>7, <1>8, <2>1, <2>2, <2>4, <2>5 DEF Synced
  <2> QED BY <1>6, <1>15, <2>6 DEF IInv, Typed
<1>17. CASE ~Executing
  <2>1. UNCHANGED <<vals, env, gone>>
    BY <1>3, <1>17 DEF LeaveArm
  <2>2. PICK a \in 1..d :
           /\ \A k \in 1..d : IF k < a THEN frames[k].pick = frames[k].arm ELSE k > a => frames[k].pick = 0
           /\ \/ /\ frames[a].arm = 1 /\ frames[a].pick = 2
                 /\ Agrees(frames[a].entry, Outer(bound, a), frames[a].entryDone, frames[a].entryMoved, vals, env, gone)
              \/ /\ frames[a].arm = 2 /\ frames[a].pick = 1
                 /\ Agrees(frames[a].first, Outer(bound, a), frames[a].grant, frames[a].firstMoved, vals, env, gone)
    BY <1>1, <1>2, <1>17, SkipsAt
  <2>3. CASE a = d
    <3>1. f.pick = 2 /\ Agrees(f.entry, bound', f.entryDone, f.entryMoved, vals, env, gone)
      BY <1>3, <1>6, <2>2, <2>3
    <3>2. Executing'
      BY <1>3, <3>1 DEF Executing
    <3>3. Agrees(f.entry, bound', unused, f.entryMoved, vals, env, gone)
      BY <1>3, <3>1, Dies
    <3>4. \A k \in 1..d : frames'[k].pick = frames'[k].arm
      BY <1>4, <1>7, <1>8, <2>2, <2>3, <3>1
    <3>5. Synced'
      BY <1>3, <1>8, <2>1, <3>2, <3>3, <3>4 DEF Synced
    <3> QED BY <1>6, <1>15, <3>5 DEF IInv, Typed
  <2>4. CASE a # d
    <3>1. f.pick = 0 /\ frames'[a] = frames[a]
      BY <1>4, <1>8, <2>2, <2>4
    <3>2. ~Executing'
      BY <1>3, <3>1 DEF Executing
    <3>3. Outer(bound', a) = Outer(bound, a)
      BY <1>4, <1>6, OuterStays
    <3>4. \A k \in 1..d : IF k < a THEN frames'[k].pick = frames'[k].arm ELSE k > a => frames'[k].pick = 0
      <4>1. \A k \in 1..d : k < a => k # d
        BY <1>4
      <4> QED BY <1>7, <1>8, <2>2, <3>1, <4>1
    <3>5. Synced'
      BY <1>8, <2>1, <2>2, <3>1, <3>2, <3>3, <3>4 DEF Synced
    <3> QED BY <1>6, <1>15, <3>5 DEF IInv, Typed
  <2> QED BY <2>3, <2>4
<1> QED BY <1>16, <1>17

\* Whichever arm was taken, the merged slots say of its values what it said.
LEMMA MergeAgrees ==
  ASSUME BorrowAssumption, NEW s, NEW t, NEW bnd, StackOK(s, bnd), StackOK(t, bnd), Len(s) = Len(t),
         \A i \in DOMAIN t : s[i].ty = t[i].ty /\ s[i].leaf = t[i].leaf /\ Agree(s[i], t[i]),
         NEW w, w = [i \in DOMAIN t |-> Merge(s[i], t[i])]
  PROVE  /\ StackOK(w, bnd)
         /\ \A dn, mv, vs, e, g : Agrees(s, bnd, dn, mv, vs, e, g) => Agrees(w, bnd, dn, mv, vs, e, g)
         /\ \A dn, mv, vs, e, g : Agrees(t, bnd, dn, mv, vs, e, g) => Agrees(w, bnd, dn, mv, vs, e, g)
<1>1. s \in Seq(Slots) /\ t \in Seq(Slots) /\ DOMAIN s = 1..Len(t) /\ DOMAIN t = 1..Len(t) /\ Len(t) \in Nat
  BY DEF StackOK
<1>2. ASSUME NEW i \in DOMAIN t
      PROVE  /\ s[i] \in Slots /\ t[i] \in Slots /\ SlotOK(s[i], bnd) /\ SlotOK(t[i], bnd)
             /\ s[i].ty = t[i].ty /\ s[i].leaf = t[i].leaf /\ Agree(s[i], t[i])
  BY <1>1 DEF StackOK
<1>3. ASSUME NEW i \in DOMAIN t
      PROVE  /\ w[i] \in Slots /\ w[i].ty = s[i].ty /\ w[i].leaf = s[i].leaf /\ w[i].alias = s[i].alias \cup t[i].alias
             /\ w[i].deriv = IF s[i].deriv # Nothing THEN s[i].deriv ELSE t[i].deriv
  BY <1>2, ZenonT(40) DEF Merge, MergedAlias, MergedDeriv, Slots
<1>4. DOMAIN w = DOMAIN t
  OBVIOUS
<1>5. w \in Seq(Slots) /\ Len(w) = Len(t)
  <2>1. w \in [1..Len(t) -> Slots]
    <3>1. w = [i \in 1..Len(t) |-> w[i]]
      BY <1>1
    <3> QED BY <1>1, <1>3, <3>1
  <2> QED BY <1>1, <2>1
<1>6. ASSUME NEW i \in DOMAIN t PROVE SlotOK(w[i], bnd)
  BY <1>2, <1>3, SMTT(30) DEF SlotOK
<1>7. StackOK(w, bnd)
  BY <1>4, <1>5, <1>6 DEF StackOK
<1>8. ASSUME NEW i \in DOMAIN t
      PROVE  /\ s[i].deriv # Nothing => KeepsPlaces(s[i].deriv, w[i].deriv, s[i].ty)
             /\ t[i].deriv # Nothing => KeepsPlaces(t[i].deriv, w[i].deriv, t[i].ty)
  <2>1. s[i].deriv # Nothing => KeepsPlaces(s[i].deriv, w[i].deriv, s[i].ty)
    BY <1>3 DEF KeepsPlaces
  <2>2. CASE t[i].deriv # Nothing /\ s[i].deriv = Nothing
    BY <1>3, <2>1, <2>2 DEF KeepsPlaces
  <2>3. CASE t[i].deriv # Nothing /\ s[i].deriv # Nothing
    <3>1. w[i].deriv = s[i].deriv /\ Suspension(s[i].deriv) = Suspension(t[i].deriv)
      BY <1>2, <1>3, <2>3 DEF Agree
    <3>2. /\ s[i].deriv.root = t[i].deriv.root
          /\ (IF s[i].deriv.reborrow /\ s[i].deriv.mutable THEN s[i].deriv.place ELSE Nothing)
             = (IF t[i].deriv.reborrow /\ t[i].deriv.mutable THEN t[i].deriv.place ELSE Nothing)
      BY <3>1 DEF Suspension
    <3>3. t[i].deriv.place # Nothing /\ (t[i].ty = "mut" => t[i].deriv.mutable)
      <4>1. t[i].deriv \in Derivs /\ (IsRef(t[i].ty) => (t[i].deriv.mutable <=> t[i].ty = "mut"))
        BY <1>2, <2>3 DEF SlotOK
      <4> QED BY <4>1 DEF Derivs, BorrowAssumption, IsRef
    <3> QED BY <2>1, <2>3, <3>1, <3>2, <3>3 DEF KeepsPlaces
  <2> QED BY <2>1, <2>2, <2>3
<1>9. ASSUME NEW dn, NEW mv, NEW vs, NEW e, NEW g, Agrees(s, bnd, dn, mv, vs, e, g) PROVE Agrees(w, bnd, dn, mv, vs, e, g)
  <2>1. DOMAIN w = DOMAIN s /\ Len(w) = Len(s)
    BY <1>1, <1>4, <1>5
  <2>2. \A i \in DOMAIN s : /\ w[i].ty = s[i].ty /\ w[i].leaf = s[i].leaf /\ s[i].alias \subseteq w[i].alias
                            /\ s[i].deriv # Nothing => KeepsPlaces(s[i].deriv, w[i].deriv, s[i].ty)
    BY <1>1, <1>3, <1>8
  <2> QED BY <1>9, <2>1, <2>2, Relabels
<1>10. ASSUME NEW dn, NEW mv, NEW vs, NEW e, NEW g, Agrees(t, bnd, dn, mv, vs, e, g) PROVE Agrees(w, bnd, dn, mv, vs, e, g)
  <2>1. \A i \in DOMAIN t : /\ w[i].ty = t[i].ty /\ w[i].leaf = t[i].leaf /\ t[i].alias \subseteq w[i].alias
                            /\ t[i].deriv # Nothing => KeepsPlaces(t[i].deriv, w[i].deriv, t[i].ty)
    BY <1>2, <1>3, <1>8
  <2> QED BY <1>4, <1>5, <1>10, <2>1, Relabels
<1> QED BY <1>7, <1>9, <1>10

LEMMA CloseKeeps ==
  ASSUME BorrowAssumption, Plain, IInv, Close
  PROVE  IInv'
<1>1. PICK d : d = Depth
  OBVIOUS
<1>2. Sound /\ Synced
  BY DEF IInv, Sound, Typed, Synced
<1> DEFINE f == frames[d]
           w == [i \in DOMAIN stack |-> Merge(f.first[i], stack[i])]
           mv2 == f.firstMoved \cup MovedOuter
<1>3. /\ Depth > 0 /\ f.arm = 2 /\ Len(f.first) = Len(stack) /\ LeaveArm
      /\ \A i \in DOMAIN stack : f.first[i].ty = stack[i].ty /\ f.first[i].leaf = stack[i].leaf /\ Agree(f.first[i], stack[i])
      /\ stack' = w /\ moved' = mv2 /\ done' = f.grant /\ left' = f.left /\ granted' = f.outer
      /\ frames' = SubSeq(frames, 1, d - 1)
      /\ mode' = IF f.pick > 0 THEN "run" ELSE "skip"
  BY <1>1 DEF Close
<1>4. d \in Nat \ {0} /\ frames \in Seq(Frames) /\ Len(frames) = d /\ d <= MaxDepth /\ MaxDepth \in Nat
  BY <1>1, <1>2, <1>3, SoundRuns DEF Depth, BorrowAssumption
<1>5. f \in Frames
  BY <1>4
<1>6. /\ bound' = Outer(bound, d) /\ Outside(d) /\ Outer(bound', d) = bound' /\ Typed'
      /\ StackOK(stack, bound') /\ MovedOK(MovedOuter, bound') /\ bound' \in [Names -> {Nothing} \cup Bindings]
      /\ \A n \in Names : bound'[n] # Nothing => BindingOK(bound'[n], bound') /\ bound'[n].level <= d - 1
      /\ \A n \in Scoped \ Inner : bound'[n] = bound[n]
  BY <1>1, <1>2, <1>3, <1>4, ArmLeft
<1>7. /\ frames' \in Seq(Frames) /\ Len(frames') = d - 1 /\ Depth' = d - 1
      /\ \A k \in 1..d - 1 : frames'[k] = frames[k]
  BY <1>3, <1>4 DEF Depth
<1>8. FrameOK(d) /\ (\A k \in 1..d : FrameOK(k)) /\ granted = Grant(d) /\ done \subseteq Granted(d)
  BY <1>1, <1>2, <1>4 DEF Sound, CheckerOK
<1>9. /\ f.pick \in 0..2 /\ f.outer = Grant(d - 1) /\ f.grant \subseteq Granted(d - 1)
      /\ StackOK(f.first, bound') /\ MovedOK(f.firstMoved, bound')
  BY <1>3, <1>6, <1>8 DEF FrameOK
<1>10. ASSUME NEW k \in 1..d - 1 PROVE FrameOK(k)'
  <2>1. /\ k \in 1..d /\ frames'[k] = frames[k] /\ \A j \in 1..k : frames'[j].grant = frames[j].grant
        /\ k \in 0..d
    BY <1>4, <1>7
  <2> QED BY <1>4, <1>6, <1>8, <2>1, FrameStays
<1>11. granted' = Grant(Depth)' /\ done' \subseteq Granted(Depth)'
  <2>1. d - 1 \in 0..d - 1 /\ (d - 1 # 0 => d - 1 \in 1..d - 1)
    BY <1>4
  <2>2. Grant(d - 1)' = Grant(d - 1)
    BY <1>7, <2>1 DEF Grant
  <2>3. Granted(d - 1)' = Granted(d - 1)
    BY <1>4, <1>6, <1>7, <2>1, GrantedStays
  <2>4. Grant(Depth)' = Grant(d - 1)' /\ Granted(Depth)' = Granted(d - 1)'
    BY <1>7 DEF Grant, Granted
  <2> QED BY <1>3, <1>9, <2>2, <2>3, <2>4
<1>12. /\ StackOK(w, bound')
       /\ \A dn, mv, vs, e, g : Agrees(f.first, bound', dn, mv, vs, e, g) => Agrees(w, bound', dn, mv, vs, e, g)
       /\ \A dn, mv, vs, e, g : Agrees(stack, bound', dn, mv, vs, e, g) => Agrees(w, bound', dn, mv, vs, e, g)
  <2>1. PICK m, b, s, t : m = w /\ b = bound' /\ s = f.first /\ t = stack
    OBVIOUS
  <2>2. /\ StackOK(s, b) /\ StackOK(t, b) /\ Len(s) = Len(t) /\ m = [i \in DOMAIN t |-> Merge(s[i], t[i])]
        /\ \A i \in DOMAIN t : s[i].ty = t[i].ty /\ s[i].leaf = t[i].leaf /\ Agree(s[i], t[i])
    BY <1>3, <1>6, <1>9, <2>1
  <2> HIDE DEF f, w, mv2
  <2>3. /\ StackOK(m, b)
        /\ \A dn, mv, vs, e, g : Agrees(s, b, dn, mv, vs, e, g) => Agrees(m, b, dn, mv, vs, e, g)
        /\ \A dn, mv, vs, e, g : Agrees(t, b, dn, mv, vs, e, g) => Agrees(m, b, dn, mv, vs, e, g)
    BY <2>2, MergeAgrees, ZenonT(60)
  <2> QED BY <2>1, <2>3
<1> HIDE DEF w
<1>13. CheckerOK'
  <2>1. BoundOK'
    BY <1>6, <1>7 DEF BoundOK
  <2>2. StackOK(stack', bound') /\ MovedOK(moved', bound')
    BY <1>3, <1>6, <1>9, <1>12 DEF MovedOK
  <2>3. left' \in Nat
    BY <1>3, <1>5 DEF Frames
  <2>4. Depth' <= MaxDepth
    BY <1>4, <1>7
  <2> QED BY <1>7, <1>10, <1>11, <2>1, <2>2, <2>3, <2>4 DEF CheckerOK
<1>14. CASE Executing
  <2>1. f.pick = 2 /\ \A k \in 1..d : frames[k].pick = frames[k].arm
    BY <1>1, <1>2, <1>3, <1>4, <1>14 DEF Synced
  <2>2. Executing'
    BY <1>3, <2>1 DEF Executing
  <2>3. \A n \in Scoped \ Inner : (n \in done => n \in f.grant) /\ (n \in moved => n \in mv2)
    BY <1>1, <1>4, <1>8 DEF Granted, Grant, Inner, MovedOuter
  <2>4. Agrees(stack, bound', f.grant, mv2, vals', env', gone')
    <3>1. Running /\ Depth \in Nat
      BY <1>2, <1>14, SoundRuns
    <3> QED BY <1>3, <2>3, <3>1, LeavesArm
  <2>5. Agrees(w, bound', f.grant, mv2, vals', env', gone')
    BY <1>12, <2>4
  <2>6. \A k \in 1..d - 1 : frames'[k].pick = frames'[k].arm
    BY <1>4, <1>7, <2>1
  <2>7. Synced'
    BY <1>3, <1>7, <2>2, <2>5, <2>6 DEF Synced
  <2> QED BY <1>6, <1>13, <2>7 DEF IInv, Typed
<1>15. CASE ~Executing
  <2>1. UNCHANGED <<vals, env, gone>>
    BY <1>3, <1>15 DEF LeaveArm
  <2>2. PICK a \in 1..d :
           /\ \A k \in 1..d : IF k < a THEN frames[k].pick = frames[k].arm ELSE k > a => frames[k].pick = 0
           /\ \/ /\ frames[a].arm = 1 /\ frames[a].pick = 2
                 /\ Agrees(frames[a].entry, Outer(bound, a), frames[a].entryDone, frames[a].entryMoved, vals, env, gone)
              \/ /\ frames[a].arm = 2 /\ frames[a].pick = 1
                 /\ Agrees(frames[a].first, Outer(bound, a), frames[a].grant, frames[a].firstMoved, vals, env, gone)
    BY <1>1, <1>2, <1>15, SkipsAt
  <2>3. CASE a = d
    <3>1. f.pick = 1 /\ Agrees(f.first, bound', f.grant, f.firstMoved, vals, env, gone)
      BY <1>3, <1>6, <2>2, <2>3
    <3>2. Executing'
      BY <1>3, <3>1 DEF Executing
    <3>3. Agrees(w, bound', f.grant, mv2, vals, env, gone)
      <4>1. Agrees(w, bound', f.grant, f.firstMoved, vals, env, gone)
        BY <1>12, <3>1
      <4> QED BY <4>1, Dies
    <3>4. \A k \in 1..d - 1 : frames'[k].pick = frames'[k].arm
      BY <1>4, <1>7, <2>2, <2>3
    <3>5. Synced'
      BY <1>3, <1>7, <2>1, <3>2, <3>3, <3>4 DEF Synced
    <3> QED BY <1>6, <1>13, <3>5 DEF IInv, Typed
  <2>4. CASE a # d
    <3>1. f.pick = 0 /\ a \in 1..d - 1 /\ frames'[a] = frames[a]
      BY <1>4, <1>7, <2>2, <2>4
    <3>2. ~Executing'
      BY <1>3, <3>1 DEF Executing
    <3>3. Outer(bound', a) = Outer(bound, a)
      BY <1>4, <1>6, OuterStays
    <3>4. \A k \in 1..d - 1 : IF k < a THEN frames'[k].pick = frames'[k].arm ELSE k > a => frames'[k].pick = 0
      <4>1. \A k \in 1..d - 1 : k \in 1..d
        BY <1>4
      <4> QED BY <1>7, <2>2, <4>1
    <3>5. Synced'
      BY <1>7, <2>1, <2>2, <3>1, <3>2, <3>3, <3>4 DEF Synced
    <3> QED BY <1>6, <1>13, <3>5 DEF IInv, Typed
  <2> QED BY <2>3, <2>4
<1> QED BY <1>14, <1>15
-----------------------------------------------------------------------------
(* The beginning, and every step.                                            *)

LEMMA Starts ==
  ASSUME BorrowAssumption, BorrowInit
  PROVE  IInv
<1>1. PICK eff \in Effects :
        /\ stack = [i \in DOMAIN eff |-> Slot(eff[i], FALSE, {}, Nothing)]
        /\ vals = [i \in DOMAIN eff |-> Value(eff[i], i, Whole, {})]
  BY DEF BorrowInit
<1>2. /\ bound = [n \in Names |-> Nothing] /\ env = [n \in Names |-> Nothing]
      /\ done = {} /\ moved = {} /\ granted = {} /\ gone = {} /\ frames = <<>> /\ left = 0 /\ mode = "run"
  BY DEF BorrowInit
<1>3. eff \in Seq(Types) /\ Len(eff) <= MaxIds /\ MaxIds \in Nat /\ MaxDepth \in Nat
  BY DEF BorrowAssumption
<1>4. Len(eff) \in Nat /\ DOMAIN eff = 1..Len(eff) /\ \A i \in DOMAIN eff : eff[i] \in Types /\ i \in Ids
  BY <1>3 DEF Ids
<1>5. \A i \in DOMAIN eff : /\ stack[i] = Slot(eff[i], FALSE, {}, Nothing) /\ stack[i] \in Slots /\ SlotOK(stack[i], bound)
                            /\ vals[i] = Value(eff[i], i, Whole, {}) /\ vals[i] \in Values
  BY <1>1, <1>4 DEF Slot, Slots, Value, Values, SlotOK
<1> DEFINE Taken(i) == /\ stack[i].ty = eff[i] /\ stack[i].leaf = FALSE
                       /\ vals[i].ty = eff[i] /\ vals[i].st = i /\ vals[i].path = Whole /\ vals[i].via = {}
<1>6. \A i \in DOMAIN eff : Taken(i)
  <2> SUFFICES ASSUME NEW i \in DOMAIN eff PROVE Taken(i)
    OBVIOUS
  <2>1. stack[i] = Slot(eff[i], FALSE, {}, Nothing) /\ vals[i] = Value(eff[i], i, Whole, {})
    BY <1>5
  <2>2. Slot(eff[i], FALSE, {}, Nothing).ty = eff[i] /\ Slot(eff[i], FALSE, {}, Nothing).leaf = FALSE
    BY DEF Slot
  <2>3. /\ Value(eff[i], i, Whole, {}).ty = eff[i] /\ Value(eff[i], i, Whole, {}).st = i
        /\ Value(eff[i], i, Whole, {}).path = Whole /\ Value(eff[i], i, Whole, {}).via = {}
    BY DEF Value
  <2> QED BY <2>1, <2>2, <2>3
<1>7. /\ stack \in Seq(Slots) /\ vals \in Seq(Values) /\ DOMAIN stack = DOMAIN eff
      /\ Len(stack) = Len(eff) /\ Len(vals) = Len(eff)
  <2>1. stack \in [1..Len(eff) -> Slots] /\ vals \in [1..Len(eff) -> Values]
    BY <1>1, <1>4, <1>5
  <2> QED BY <1>4, <2>1
<1>8. CheckerOK
  <2>1. BoundOK /\ MovedOK(moved, bound) /\ StackOK(stack, bound)
    BY <1>2, <1>5, <1>7 DEF BoundOK, MovedOK, StackOK
  <2>2. frames \in Seq(Frames) /\ Depth = 0
    BY <1>2 DEF Depth
  <2>3. granted = Grant(Depth) /\ done \subseteq Granted(Depth)
    BY <1>2, <2>2 DEF Grant
  <2> QED BY <1>2, <1>3, <2>1, <2>2, <2>3 DEF CheckerOK
<1> DEFINE H == Holding(stack, bound, vals, env)
           L == Usable(stack, env, done, moved)
<1>9. \A n \in Names : env[n] = Nothing
  BY <1>2
<1>10. \A p \in DOMAIN H : \E i \in DOMAIN eff : p = InSlot(i) /\ H[p] = Held(stack[i], vals[i])
  BY <1>7, <1>9, HoldingIs, PositionsAre
<1>11. L \subseteq DOMAIN H
  BY HoldingIs, UsableAre
<1> HIDE DEF H, L
<1>12. /\ \A p \in DOMAIN H : H[p].leaf = FALSE /\ H[p].path = Whole /\ H[p].via = {}
       /\ \A p, q \in DOMAIN H : H[p].st = H[q].st => p = q
  <2>1. \A i \in DOMAIN eff : /\ Held(stack[i], vals[i]).leaf = FALSE /\ Held(stack[i], vals[i]).path = Whole
                              /\ Held(stack[i], vals[i]).via = {} /\ Held(stack[i], vals[i]).st = i
    BY <1>6, HeldIs
  <2>2. ASSUME NEW p \in DOMAIN H
        PROVE  H[p].leaf = FALSE /\ H[p].path = Whole /\ H[p].via = {}
    <3>1. PICK i \in DOMAIN eff : p = InSlot(i) /\ H[p] = Held(stack[i], vals[i])
      BY <1>10
    <3> QED BY <3>1, <2>1
  <2>3. ASSUME NEW p \in DOMAIN H, NEW q \in DOMAIN H, H[p].st = H[q].st
        PROVE  p = q
    <3>1. PICK i \in DOMAIN eff : p = InSlot(i) /\ H[p] = Held(stack[i], vals[i])
      BY <1>10
    <3>2. PICK j \in DOMAIN eff : q = InSlot(j) /\ H[q] = Held(stack[j], vals[j])
      BY <1>10
    <3>3. i = j
      BY <3>1, <3>2, <2>1, <2>3
    <3> QED BY <3>1, <3>2, <3>3
  <2> QED BY <2>2, <2>3
<1>13. \A p, q \in L : H[p].st = H[q].st => p = q
  BY <1>11, <1>12
<1>14. Good(H, L, {})
  <2>1. LinearAlone(H)
    BY <1>12 DEF LinearAlone
  <2>2. OwnedThere(H, {}) /\ Reaching(H, L, {})
    BY DEF OwnedThere, Reaching
  <2>3. Descent(H)
    BY <1>12 DEF Descent
  <2>4. Leaves(H)
    BY <1>12 DEF Leaves
  <2>5. Traced(H, L)
    BY <1>13 DEF Traced
  <2>6. SharedSeen(H, L)
    BY <1>13 DEF SharedSeen
  <2>7. SoleOwner(H, L)
    BY <1>13 DEF SoleOwner, IsRef
  <2>8. Apart(H, L)
    BY <1>13 DEF Apart
  <2>9. Suspended(H, L)
    BY <1>11, <1>12 DEF Suspended
  <2> QED BY <2>1, <2>2, <2>3, <2>4, <2>5, <2>6, <2>7, <2>8, <2>9 DEF Good
<1>15. Agrees(stack, bound, done, moved, vals, env, gone)
  <2>1. \A i \in DOMAIN stack : vals[i].ty = stack[i].ty
    BY <1>7, <1>6
  <2>2. \A n \in Names : bound[n] = Nothing
    BY <1>2
  <2> QED BY <1>2, <1>7, <1>9, <1>14, <2>1, <2>2 DEF Agrees, H, L
<1>16. Synced
  <2>1. Executing /\ \A k \in 1..Depth : frames[k].pick = frames[k].arm
    BY <1>2 DEF Executing, Depth
  <2> QED BY <1>15, <2>1 DEF Synced
<1> QED BY <1>2, <1>7, <1>8, <1>16 DEF IInv

LEMMA NothingChanges ==
  ASSUME IInv, UNCHANGED body
  PROVE  IInv'
<1>1. /\ UNCHANGED <<stack, bound, done, moved, granted, frames, left>>
      /\ UNCHANGED <<vals, env, gone, mode>>
  BY DEF body, checker, running
<1>2. Depth' = Depth /\ (\A k : Grant(k)' = Grant(k)) /\ (\A k : Granted(k)' = Granted(k))
  BY <1>1 DEF Depth, Grant, Granted
<1>3. \A k : FrameOK(k) => FrameOK(k)'
  BY <1>1, <1>2 DEF FrameOK
<1>4. CheckerOK'
  <2>1. BoundOK'
    BY <1>1, <1>2 DEF IInv, CheckerOK, BoundOK
  <2>2. Granted(Depth)' = Granted(Depth) /\ Grant(Depth)' = Grant(Depth)
    BY <1>1, <1>2 DEF Granted, Grant
  <2> QED BY <1>1, <1>2, <1>3, <2>1, <2>2 DEF IInv, CheckerOK
<1>5. Synced'
  <2>1. CASE Executing
    BY <1>1, <1>2, <2>1 DEF IInv, Synced, Executing
  <2>2. CASE ~Executing
    BY <1>1, <1>2, <2>2 DEF IInv, Synced, Executing
  <2> QED BY <2>1, <2>2
<1> QED BY <1>1, <1>4, <1>5 DEF IInv

\* The invariant: the checker's state and the execution agree throughout.
THEOREM Invariance == ASSUME Shapes \subseteq {"projection"} PROVE BorrowSpec => []IInv
<1>1. Plain
  BY DEF Plain
<1>2. BorrowInit => IInv
  BY BorrowAssumption, Starts
<1>3. IInv /\ [BorrowNext]_body => IInv'
  <2> SUFFICES ASSUME IInv, [BorrowNext]_body PROVE IInv'
    OBVIOUS
  <2>1. CASE UNCHANGED body
    BY <2>1, NothingChanges
  <2>2. CASE Straight(Terms)
    BY <1>1, <2>2, BorrowAssumption, StraightKeeps
  <2>3. CASE \E grant, unused \in SUBSET Names, pick \in 1..2 : Open(grant, unused, pick)
    BY <2>3, BorrowAssumption, OpenKeeps
  <2>4. CASE \E unused \in SUBSET Names : NextArm(unused)
    BY <1>1, <2>4, BorrowAssumption, NextArmKeeps
  <2>5. CASE Close
    BY <1>1, <2>5, BorrowAssumption, CloseKeeps
  <2> QED BY <2>1, <2>2, <2>3, <2>4, <2>5 DEF BorrowNext, Step
<1> QED BY <1>2, <1>3, PTL DEF BorrowSpec

\* The positions of the holders the properties speak of.
LEMMA HolderAt ==
  ASSUME BorrowAssumption, Running, NEW h \in Holders
  PROVE  \E p \in LiveNow :
           /\ HeldNow[p].ty = h.v.ty /\ HeldNow[p].st = h.v.st /\ HeldNow[p].path = h.v.path /\ HeldNow[p].via = h.v.via
           /\ \/ \E k \in DOMAIN stack : p = InSlot(k) /\ h = [at |-> k, v |-> vals[k]]
              \/ \E n \in Names : p = InName(n) /\ h = [at |-> n, v |-> env[n]]
<1>1. CASE \E k \in DOMAIN vals : h = [at |-> k, v |-> vals[k]]
  <2>1. PICK k \in DOMAIN vals : h = [at |-> k, v |-> vals[k]]
    BY <1>1
  <2>2. k \in DOMAIN stack /\ vals[k].ty = stack[k].ty /\ h.v = vals[k]
    BY <2>1, RunningIs
  <2>3. InSlot(k) \in LiveNow /\ HeldNow[InSlot(k)] = Held(stack[k], vals[k])
    BY <2>2, HeldHere
  <2> QED BY <2>1, <2>2, <2>3, HeldIs
<1>2. CASE \E n \in LiveNames \ moved : env[n] # Nothing /\ h = [at |-> n, v |-> env[n]]
  <2>1. PICK n \in LiveNames \ moved : env[n] # Nothing /\ h = [at |-> n, v |-> env[n]]
    BY <1>2
  <2>2. n \in Names /\ env[n].ty = bound[n].ty /\ h.v = env[n] /\ n \notin done \cup moved
    BY <2>1, RunningIs DEF LiveNames, Scoped
  <2>3. InName(n) \in LiveNow /\ HeldNow[InName(n)] = Held(bound[n], env[n])
    BY <2>1, <2>2, HeldHere
  <2> QED BY <2>1, <2>2, <2>3, HeldIs
<1>3. Executing
  BY DEF Running
<1> QED BY <1>1, <1>2, <1>3 DEF Holders

LEMMA InvariantRuns ==
  ASSUME IInv, Executing
  PROVE  Running
BY DEF IInv, CheckerOK, Synced, Running, Fit

\* No reference an accepted body can still use points to storage disposed of or
\* given away (consumed_place_conflict, live_borrow_of, check_branch_join).
THEOREM ReferencesReachStorage == ASSUME Shapes \subseteq {"projection"} PROVE BorrowSpec => []NoDangling
<1>1. IInv => NoDangling
  <2> SUFFICES ASSUME IInv, NEW h \in References PROVE h.v.st \notin gone
    BY DEF NoDangling
  <2>1. h \in Holders /\ IsRef(h.v.ty) /\ Running
    BY InvariantRuns DEF References, Holders
  <2>2. PICK p \in LiveNow : HeldNow[p].ty = h.v.ty /\ HeldNow[p].st = h.v.st
    BY <2>1, BorrowAssumption, HolderAt
  <2> QED BY <2>1, <2>2, BorrowAssumption, RunningIs DEF Good, Reaching
<1> QED BY <1>1, Invariance, PTL

\* A mutable reference shares storage only with the local it reborrows, or a
\* local that reborrows it (check_reference_word, overlapping_projection).
THEOREM MutableReferencesExclude == ASSUME Shapes \subseteq {"projection"} PROVE BorrowSpec => []Exclusive
<1>1. IInv => Exclusive
  <2> SUFFICES ASSUME IInv, NEW h \in References, NEW k \in References, h # k, h.v.ty = "mut", SameStorage(h.v, k.v)
               PROVE  Lends(h, k) \/ Lends(k, h)
    BY DEF Exclusive
  <2>1. h \in Holders /\ k \in Holders /\ IsRef(k.v.ty) /\ Running
    BY InvariantRuns DEF References, Holders
  <2>2. PICK p \in LiveNow :
           /\ HeldNow[p].ty = h.v.ty /\ HeldNow[p].st = h.v.st /\ HeldNow[p].path = h.v.path /\ HeldNow[p].via = h.v.via
           /\ \/ \E i \in DOMAIN stack : p = InSlot(i) /\ h = [at |-> i, v |-> vals[i]]
              \/ \E n \in Names : p = InName(n) /\ h = [at |-> n, v |-> env[n]]
    BY <2>1, BorrowAssumption, HolderAt
  <2>3. PICK q \in LiveNow :
           /\ HeldNow[q].ty = k.v.ty /\ HeldNow[q].st = k.v.st /\ HeldNow[q].path = k.v.path /\ HeldNow[q].via = k.v.via
           /\ \/ \E i \in DOMAIN stack : q = InSlot(i) /\ k = [at |-> i, v |-> vals[i]]
              \/ \E n \in Names : q = InName(n) /\ k = [at |-> n, v |-> env[n]]
    BY <2>1, BorrowAssumption, HolderAt
  <2>4. p # q
    BY <2>2, <2>3, Places
  <2>5. Lent(HeldNow, p, q) \/ Lent(HeldNow, q, p)
    BY <2>1, <2>2, <2>3, <2>4, BorrowAssumption, RunningIs DEF Good, Apart, SameStorage
  <2>6. \A n : (p = InName(n) => h.at = n) /\ (q = InName(n) => k.at = n)
    BY <2>2, <2>3, Places
  <2> QED BY <2>2, <2>3, <2>5, <2>6 DEF Lent, Lends
<1> QED BY <1>1, Invariance, PTL

\* Where a mutable reference can write, one value at most is left to read
\* (aliasing_origin, overlapping_projection): nobody sees a value change.
THEOREM NobodySeesAValueChange == ASSUME Shapes \subseteq {"projection"} PROVE BorrowSpec => []NoSharedMutation
<1>1. IInv => NoSharedMutation
  <2> SUFFICES ASSUME IInv, NEW h \in References, h.v.ty = "mut"
               PROVE  Cardinality({k \in Holders : ~IsRef(k.v.ty) /\ k.v.st = h.v.st}) <= 1
    BY DEF NoSharedMutation
  <2> DEFINE S == {k \in Holders : ~IsRef(k.v.ty) /\ k.v.st = h.v.st}
  <2>1. h \in Holders /\ Running
    BY InvariantRuns DEF References, Holders
  <2>2. PICK p \in LiveNow : HeldNow[p].ty = "mut" /\ HeldNow[p].st = h.v.st
    BY <2>1, BorrowAssumption, HolderAt
  <2>3. ASSUME NEW j \in S, NEW k \in S PROVE j = k
    <3>1. PICK q \in LiveNow :
             /\ HeldNow[q].ty = j.v.ty /\ HeldNow[q].st = j.v.st
             /\ \/ \E i \in DOMAIN stack : q = InSlot(i) /\ j = [at |-> i, v |-> vals[i]]
                \/ \E n \in Names : q = InName(n) /\ j = [at |-> n, v |-> env[n]]
      BY <2>1, BorrowAssumption, HolderAt
    <3>2. PICK r \in LiveNow :
             /\ HeldNow[r].ty = k.v.ty /\ HeldNow[r].st = k.v.st
             /\ \/ \E i \in DOMAIN stack : r = InSlot(i) /\ k = [at |-> i, v |-> vals[i]]
                \/ \E n \in Names : r = InName(n) /\ k = [at |-> n, v |-> env[n]]
      BY <2>1, BorrowAssumption, HolderAt
    <3>3. q = r
      <4>1. SoleOwner(HeldNow, LiveNow)
        BY <2>1, BorrowAssumption, RunningIs DEF Good
      <4>2. ~IsRef(HeldNow[q].ty) /\ ~IsRef(HeldNow[r].ty) /\ HeldNow[q].st = HeldNow[p].st /\ HeldNow[r].st = HeldNow[p].st
        BY <2>2, <3>1, <3>2
      <4> QED BY <2>2, <4>1, <4>2 DEF SoleOwner
    <3> QED BY <3>1, <3>2, <3>3, Places
  <2> HIDE DEF S
  <2>4. ASSUME S = {} PROVE Cardinality(S) <= 1
    BY <2>4, FS_EmptySet
  <2>5. ASSUME S # {} PROVE Cardinality(S) <= 1
    <3>1. PICK k \in S : TRUE
      BY <2>5
    <3>2. S = {k}
      BY <2>3, <3>1
    <3>3. Cardinality({k}) = 1
      BY FS_Singleton
    <3> QED BY <3>2, <3>3
  <2>6. Cardinality(S) <= 1
    BY <2>4, <2>5
  <2> QED BY <2>6 DEF S
<1> QED BY <1>1, Invariance, PTL
=============================================================================
