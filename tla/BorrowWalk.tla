---------------------------- MODULE BorrowWalk ----------------------------
(* The walk of a word body as far as borrows go: which place each live       *)
(* reference traces back to (`Deriv`), which region each aggregate denotes   *)
(* (`Alias`), which locals are past their last use (`Liveness`), and the     *)
(* checks the terms make against them (check/engine.rs,                      *)
(* check/word_families.rs, check/terms.rs).                                  *)
(*                                                                           *)
(* Beside the checker the module runs the body on storages and pointers, and *)
(* the properties compare the two.  Moves and leaks are LinearWalk's         *)
(* subject: only "gone or not" is kept of a move-state here.  A term the     *)
(* checker refuses is a term the next action may not take.                   *)
EXTENDS Naturals, Sequences, FiniteSets, FiniteSetsExt

CONSTANTS
  Names,      \* the locals a body may bind
  Fields,     \* the Copy fields every aggregate of the body has
  Effects,    \* the declared inputs: sequences of members of Types
  MaxStack,   \* bound: slots on the virtual stack
  MaxHeld,    \* bound: slots and locals together
  MaxDepth,   \* bound: branches open at once
  ArmTerms,   \* bound: terms of an arm, branches not counted
  MaxIds,     \* bound: regions, and storages, in use at once
  Terms,      \* bound: the kinds of term the bodies are made of
  Shapes,     \* the shapes below that the bodies may contain
  Nothing        \* no binding, derivation, root or value

Whole == "whole"
Types == {"agg", "lin", "ref", "mut"}   \* Copy and linear aggregate, &T, &!T
IsRef(ty) == ty \in {"ref", "mut"}
RefTo(mutable) == IF mutable THEN "mut" ELSE "ref"

VARIABLES
  \* --- the checker
  stack,    \* the virtual stack: Slots
  bound,    \* Scope.bound: name -> Binding or Nothing
  done,     \* the names `Liveness.dead` holds of
  moved,    \* the linear names whose value has, or may have, been taken
  granted,  \* `outer_releasable` of the innermost check_terms invocation
  frames,   \* one record per open check_branch_join
  left,     \* how many terms the arm may still have (a bound, not state)
  \* --- the execution
  vals,     \* the values of the stack
  env,      \* the values of the locals: a value or Nothing
  gone,     \* storages disposed of or given away that a value still points to
  mode      \* "run", or "skip" while the walk is in the arm not taken

checker == <<stack, bound, done, moved, granted, frames, left>>
running == <<vals, env, gone, mode>>
body == <<checker, running>>

Ids == 1..MaxIds
Regions == Ids \X ({Whole} \cup Fields)
Derivs == [place : Names, root : Names \cup {Nothing}, reborrow : BOOLEAN, mutable : BOOLEAN]
Slots == [ty : Types, leaf : BOOLEAN, alias : SUBSET Regions, deriv : Derivs \cup {Nothing}]
Bindings == [ty : Types, leaf : BOOLEAN, alias : SUBSET Regions, deriv : Derivs \cup {Nothing}, level : 0..MaxDepth]
Values == [ty : Types, st : Ids, path : {Whole} \cup Fields, via : SUBSET Names]

ASSUME BorrowAssumption ==
  /\ MaxStack \in Nat /\ MaxHeld \in Nat /\ MaxDepth \in Nat /\ ArmTerms \in Nat /\ MaxIds \in Nat
  /\ Shapes \subseteq {"projection", "projectionShared", "projectionNamed", "secondName", "rechain"}
  /\ Whole \notin Fields /\ Nothing \notin Names \cup Derivs \cup Values \cup Bindings
  /\ \A eff \in Effects : eff \in Seq(Types) /\ Len(eff) <= MaxIds

Depth == Len(frames)
Scoped == {n \in Names : bound[n] # Nothing}
Top == stack[Len(stack)]
Below(s, n) == SubSeq(s, 1, Len(s) - n)
Slot(ty, leaf, alias, deriv) == [ty |-> ty, leaf |-> leaf, alias |-> alias, deriv |-> deriv]
Value(ty, st, path, via) == [ty |-> ty, st |-> st, path |-> path, via |-> via]
SlotsOf(s) == {s[i] : i \in DOMAIN s}
-----------------------------------------------------------------------------
(* Provenance and Liveness.                                                  *)

\* The ids minted and still mentioned; the code's counter never looks back, and
\* an id nothing mentions is as good as new.
RegionsInUse ==
  UNION ({s.alias : s \in SlotsOf(stack)} \cup {bound[n].alias : n \in Scoped}
         \cup {s.alias : s \in UNION {SlotsOf(f.entry) \cup SlotsOf(f.first) : f \in SlotsOf(frames)}})
FreeRegions == Ids \ {r[1] : r \in RegionsInUse}
FreshAlias == {<<Min(FreeRegions), Whole>>}
StoragesInUse(vs, e) == {v.st : v \in SlotsOf(vs)} \cup {e[n].st : n \in {m \in Names : e[m] # Nothing}}
FreeStorages == Ids \ StoragesInUse(vals, env)

\* regions_overlap / alias_sets_overlap: equal, or one a field of the other.
PathsMeet(p, q) == p = q \/ Whole \in {p, q}
Overlap(a, b) == \E x \in a, y \in b : x[1] = y[1] /\ PathsMeet(x[2], y[2])
FieldAlias(alias, f) == {<<r[1], f>> : r \in alias}

LiveNames == Scoped \ done
LiveDerivs == ({s.deriv : s \in SlotsOf(stack)} \cup {bound[n].deriv : n \in LiveNames}) \ {Nothing}
RootedAt(d, n) == d.root = n \/ d.place = n
LiveBorrowOf(n) == \E d \in LiveDerivs : RootedAt(d, n)
LiveMutableBorrowOf(n) == \E d \in LiveDerivs : d.mutable /\ RootedAt(d, n)
\* A linear local is consumed by being named, so nothing may derive from it.
MayMoveUnlessMut(n) == ~LiveMutableBorrowOf(n)   \* mutant
MayMove(n) == ~LiveBorrowOf(n)
\* Exclusivity, symmetric: a new &! against any borrow, a new & against a &!.
ConflictsMutableOnly(n, mutable) == mutable /\ LiveMutableBorrowOf(n)   \* mutant
Conflicts(n, mutable) == IF mutable THEN LiveBorrowOf(n) ELSE LiveMutableBorrowOf(n)

\* Provenance::borrow of an owned local, and the reborrow of a reference local.
Borrowed(n, mutable) == [place |-> n, root |-> n, reborrow |-> FALSE, mutable |-> mutable]
Reborrowed(n, mutable) ==
  [place |-> n, root |-> IF bound[n].deriv = Nothing THEN Nothing ELSE bound[n].deriv.root,
   reborrow |-> TRUE, mutable |-> mutable]

\* aliasing_origin: another live name, or a stack slot, denotes part of n.
AliasedByName(alias, names, slots) ==   \* mutant: the names, not the slots
  \E m \in (names \cap LiveNames) \ moved : Overlap(alias, bound[m].alias)
AliasedElsewhere(alias, names, slots) ==
  \/ \E m \in (names \cap LiveNames) \ moved : Overlap(alias, bound[m].alias)
  \/ \E s \in slots : Overlap(alias, s.alias)

\* overlapping_projection: a live reference into the regions of `alias`.
NewMutableInto(alias, mutable, slots) ==   \* mutant: a shared reference may join a &!
  mutable /\ \/ \E m \in LiveNames : IsRef(bound[m].ty) /\ Overlap(alias, bound[m].alias)
             \/ \E s \in slots : IsRef(s.ty) /\ Overlap(alias, s.alias)
ReferenceInto(alias, mutable, slots) ==
  \/ \E m \in LiveNames : /\ IsRef(bound[m].ty) /\ Overlap(alias, bound[m].alias)
                          /\ mutable \/ bound[m].ty = "mut"
  \/ \E s \in slots : IsRef(s.ty) /\ Overlap(alias, s.alias) /\ (mutable \/ s.ty = "mut")

\* consumed_place_conflict: consuming a reference ends no place.
ConsumptionStrandsMutable(s, others) == ~IsRef(s.ty) /\ ReferenceInto(s.alias, FALSE, others)   \* mutant
ConsumptionStrands(s, others) == ~IsRef(s.ty) /\ ReferenceInto(s.alias, TRUE, others)

\* The places a derivation keeps suspended (Deriv::suspension).
Suspension(d) == <<d.root, IF d.reborrow /\ d.mutable THEN d.place ELSE Nothing>>
-----------------------------------------------------------------------------
(* The execution.                                                            *)

Executing == mode = "run"
Execute(vs, e, disposed) ==
  /\ IF Executing
     THEN /\ vals' = vs /\ env' = e
          /\ gone' = (gone \cup disposed) \cap StoragesInUse(vs, e)
     ELSE UNCHANGED <<vals, env, gone>>
  /\ UNCHANGED mode

TopVal == vals[Len(vals)]
\* A reference that reborrows local n also descends from whatever n's did.
Descend(v, n) == [v EXCEPT !.via = @ \cup {n}]
Room == Len(stack) < MaxStack /\ Len(stack) + Cardinality(Scoped) < MaxHeld

\* After its last mention a local is dead.  Only a name this invocation bound,
\* or was granted, ever is; which mention is the last is a fact of the body.
Releasable(n) == bound[n].level = Depth \/ n \in granted
MayBeLast(n, last) == last => Releasable(n)
Mentioned(n, last) == done' = IF last THEN done \cup {n} ELSE done

(* Shapes of body the checker does not look through, each an instance of its  *)
(* own; a passing run has those that keep the properties.                    *)
(*   projection        `&f` off an owned value on the stack                  *)
(*   projectionShared  `&!f` off a value that something else denotes too     *)
(*   projectionNamed   such a projection bound to a local, or its receiver   *)
(*                     bound or copied by `over` meanwhile                   *)
(*   secondName        `&!n` while a reference is live that was borrowed     *)
(*                     from another name for the region of n, itself dead,   *)
(*                     or of an arm that has ended                           *)
(*   rechain           naming a reborrow of a local still to be named again  *)
Has(shape) == shape \in Shapes
Anonymous(s, others) == IF IsRef(s.ty) THEN s.alias # {} ELSE ReferenceInto(s.alias, TRUE, others)
Chained(n) ==
  /\ bound[n].ty = "mut" /\ bound[n].deriv # Nothing /\ bound[n].deriv.reborrow
  /\ bound[n].deriv.place \in LiveNames
BorrowedAs(alias) ==
  \E d \in LiveDerivs : d.root \in Scoped /\ Overlap(alias, bound[d.root].alias)
-----------------------------------------------------------------------------
(* The terms.                                                                *)

\* A word call that leaves a fresh aggregate, denoting no region yet.
Make(ty) ==
  /\ ty \in {"agg", "lin"} /\ Room
  /\ stack' = Append(stack, Slot(ty, FALSE, {}, Nothing))
  /\ Executing => FreeStorages # {}
  /\ Execute(Append(vals, Value(ty, Min(FreeStorages), Whole, {})), env, {})
  /\ UNCHANGED <<bound, done, moved, granted, frames>>

\* A word call that consumes the top k slots, `drop` when k is 1, and the
\* accesses `@` and `!`, which consume a reference.
Consume(k) ==
  /\ k \in 1..Len(stack)
  /\ \A i \in Len(stack) - k + 1..Len(stack) :
       ~ConsumptionStrands(stack[i], {stack[j] : j \in DOMAIN stack \ {i}})
  /\ stack' = Below(stack, k)
  /\ Execute(Below(vals, k), env,
             {vals[i].st : i \in {j \in Len(vals) - k + 1..Len(vals) : vals[j].ty = "lin"}})
  /\ UNCHANGED <<bound, done, moved, granted, frames>>

\* `dup`: an aggregate is copied into storage of its own, a reference is not.
Dup ==
  /\ stack # <<>> /\ Room /\ Top.ty \in {"agg", "ref"}
  /\ stack' = Append(stack, IF Top.ty = "ref" THEN Top ELSE [Top EXCEPT !.alias = {}])
  /\ Executing => FreeStorages # {}
  /\ Execute(Append(vals, IF TopVal.ty = "ref" THEN TopVal
                          ELSE [TopVal EXCEPT !.st = Min(FreeStorages)]), env, {})
  /\ UNCHANGED <<bound, done, moved, granted, frames>>

\* `over` shares the value below the top, and gives it a region to say so.
OverAliasUnminted(s) == s.alias   \* mutant
OverAlias(s) == IF s.alias = {} /\ s.ty = "agg" THEN FreshAlias ELSE s.alias
Over ==
  LET n == Len(stack)  below == stack[n - 1]  alias == OverAlias(below)
  IN /\ n >= 2 /\ Room /\ below.ty \in {"agg", "ref"}
     /\ FreeRegions # {}
     /\ Has("projectionNamed") \/ ~Anonymous(below, {stack[i] : i \in DOMAIN stack \ {n - 1}})
     /\ stack' = Append([stack EXCEPT ![n - 1].alias = alias], [below EXCEPT !.alias = alias])
     /\ Execute(Append(vals, vals[Len(vals) - 1]), env, {})
     /\ UNCHANGED <<bound, done, moved, granted, frames>>

Exchange(s) == [s EXCEPT ![Len(s)] = s[Len(s) - 1], ![Len(s) - 1] = s[Len(s)]]
Swap ==
  /\ Len(stack) >= 2
  /\ stack' = Exchange(stack)
  /\ Execute(IF Executing THEN Exchange(vals) ELSE vals, env, {})
  /\ UNCHANGED <<bound, done, moved, granted, frames>>

\* `| n |`: an aggregate with no region gets one here (Scope::bind).
Bind(n, last) ==
  /\ stack # <<>> /\ bound[n] = Nothing
  /\ FreeRegions # {}
  /\ Has("projectionNamed") \/ ~Anonymous(Top, SlotsOf(Below(stack, 1)))
  /\ bound' = [bound EXCEPT ![n] =
       [ty |-> Top.ty, leaf |-> Top.leaf, deriv |-> Top.deriv, level |-> Depth,
        alias |-> IF Top.alias = {} /\ ~IsRef(Top.ty) THEN FreshAlias ELSE Top.alias]]
  /\ stack' = Below(stack, 1)
  /\ Mentioned(n, last)
  /\ Execute(Below(vals, 1), [env EXCEPT ![n] = TopVal], {})
  /\ UNCHANGED <<moved, granted, frames>>

\* The name of a reference local: a reborrow.
NameReference(n, last) ==
  LET b == bound[n]  mutable == b.ty = "mut" IN
  /\ n \in Scoped \ done /\ IsRef(b.ty) /\ Room /\ MayBeLast(n, last)
  /\ mutable => ~\E d \in LiveDerivs : d.reborrow /\ d.place = n
  /\ Has("rechain") \/ ~Chained(n)
  /\ stack' = Append(stack, Slot(b.ty, b.leaf, {}, Reborrowed(n, mutable)))
  /\ Mentioned(n, last)
  /\ Execute(Append(vals, Descend(env[n], n)), env, {})
  /\ UNCHANGED <<bound, moved, granted, frames>>

\* The name of an aggregate: a linear one is moved, a Copy one is not copied.
NameAggregate(n, last) ==
  LET b == bound[n] IN
  /\ n \in Scoped \ (done \cup moved) /\ ~IsRef(b.ty) /\ Room /\ MayBeLast(n, last)
  /\ b.ty = "lin" => MayMove(n)
  /\ ~LiveMutableBorrowOf(n)
  /\ stack' = Append(stack, Slot(b.ty, FALSE, b.alias, b.deriv))
  /\ moved' = IF b.ty = "lin" THEN moved \cup {n} ELSE moved
  /\ Mentioned(n, last)
  /\ Execute(Append(vals, env[n]),
             IF b.ty = "lin" THEN [env EXCEPT ![n] = Nothing] ELSE env, {})
  /\ UNCHANGED <<bound, granted, frames>>

\* `&n` / `&!n`: exclusivity against the live derivations of n, and, for a
\* mutable borrow, against other names for its region.
Borrow(n, mutable, last) ==
  LET b == bound[n] IN
  /\ n \in Scoped \ (done \cup moved) /\ ~IsRef(b.ty) /\ Room /\ MayBeLast(n, last)
  /\ ~Conflicts(n, mutable)
  /\ mutable => ~AliasedElsewhere(b.alias, Names \ {n}, SlotsOf(stack))
  /\ Has("secondName") \/ ~mutable \/ ~BorrowedAs(b.alias)
  /\ stack' = Append(stack, Slot(RefTo(mutable), FALSE, {}, Borrowed(n, mutable)))
  /\ Mentioned(n, last)
  /\ Execute(Append(vals, Value(RefTo(mutable), env[n].st, Whole, {})), env, {})
  /\ UNCHANGED <<bound, moved, granted, frames>>

\* `&f` / `&!f` on a reference consumes it; region and derivation go along.
ProjectReference(f) ==
  /\ stack # <<>> /\ IsRef(Top.ty) /\ ~Top.leaf
  /\ stack' = [stack EXCEPT ![Len(stack)].leaf = TRUE]
  /\ Execute(IF Executing THEN [vals EXCEPT ![Len(vals)].path = f] ELSE vals, env, {})
  /\ UNCHANGED <<bound, done, moved, granted, frames>>

\* `&f` / `&!f` on an owned value leaves it there, and denotes a child of its
\* region; there may be no name to root a derivation on.
ProjectOwned(f, mutable) ==
  LET n == Len(stack)
      base == IF Top.alias = {} THEN FreshAlias ELSE Top.alias
      alias == FieldAlias(base, f)
      below == SlotsOf(Below(stack, 1))
  IN /\ Has("projection")
     /\ stack # <<>> /\ ~IsRef(Top.ty) /\ Room /\ FreeRegions # {}
     /\ ~ReferenceInto(alias, mutable, below)
     /\ Has("projectionShared") \/ ~mutable \/ ~(AliasedElsewhere(base, Names, below) \/ BorrowedAs(base))
     /\ stack' = Append([stack EXCEPT ![n].alias = base], Slot(RefTo(mutable), TRUE, alias, Top.deriv))
     /\ Execute(Append(vals, Value(RefTo(mutable), TopVal.st, f, {})), env, {})
     /\ UNCHANGED <<bound, done, moved, granted, frames>>
-----------------------------------------------------------------------------
(* branch: check_branch_join.                                                *)

\* releasable_into: names nothing after the branch mentions, among those this
\* invocation bound or was itself granted.  `unused` are those of them the arm
\* does not mention either.
Open(grant, unused, pick) ==
  /\ Depth < MaxDepth
  /\ done \subseteq grant /\ grant \subseteq {n \in Scoped : Releasable(n)}
  /\ done \subseteq unused /\ unused \subseteq grant
  /\ frames' = Append(frames,
       [entry |-> stack, entryMoved |-> moved, entryDone |-> done, outer |-> granted,
        grant |-> grant, arm |-> 1, first |-> <<>>, firstMoved |-> {},
        pick |-> IF Executing THEN pick ELSE 0, left |-> left])
  /\ granted' = grant /\ done' = unused /\ left' = ArmTerms
  /\ mode' = IF Executing /\ pick = 1 THEN "run" ELSE "skip"
  /\ UNCHANGED <<stack, bound, moved, vals, env, gone>>

\* leave_block: the names the arm bound go out of scope, and the values that
\* descend from them with them.
Inner == {n \in Scoped : bound[n].level = Depth}
Forget(v) == [v EXCEPT !.via = @ \ Inner]
LeaveArm ==
  /\ Has("secondName") \/ \A s \in SlotsOf(stack) : s.deriv # Nothing => s.deriv.root \notin Inner
  /\ bound' = [n \in Names |-> IF n \in Inner THEN Nothing ELSE bound[n]]
  /\ IF Executing
     THEN LET e == [n \in Names |-> IF n \in Inner \/ env[n] = Nothing THEN Nothing ELSE Forget(env[n])]
              vs == [i \in DOMAIN vals |-> Forget(vals[i])]
          IN vals' = vs /\ env' = e /\ gone' = gone \cap StoragesInUse(vs, e)
     ELSE UNCHANGED <<vals, env, gone>>

Resumes(frame, arm) == frame.pick = arm
MovedOuter == moved \ Inner

NextArm(unused) ==
  LET frame == frames[Depth] IN
  /\ Depth > 0 /\ frame.arm = 1
  /\ frame.entryDone \subseteq unused /\ unused \subseteq frame.grant
  /\ LeaveArm
  /\ frames' = [frames EXCEPT ![Depth] = [@ EXCEPT !.arm = 2, !.first = stack, !.firstMoved = MovedOuter]]
  /\ stack' = frame.entry /\ moved' = frame.entryMoved /\ done' = unused /\ left' = ArmTerms
  /\ mode' = IF Resumes(frame, 2) THEN "run" ELSE "skip"
  /\ UNCHANGED granted

\* The derivation of a merged slot: the arms must suspend the same places, save
\* that one rooted in no place of this frame may stand alone.
AgreeOnShape(s, t) == (s.deriv = Nothing) = (t.deriv = Nothing)   \* mutant: whatever they suspend
Agree(s, t) ==
  \/ s.deriv = Nothing /\ t.deriv = Nothing
  \/ s.deriv # Nothing /\ t.deriv # Nothing /\ Suspension(s.deriv) = Suspension(t.deriv)
  \/ s.deriv = Nothing /\ t.deriv # Nothing /\ t.deriv.root = Nothing
  \/ t.deriv = Nothing /\ s.deriv # Nothing /\ s.deriv.root = Nothing
MergedDerivOfBoth(s, t) == IF Nothing \in {s.deriv, t.deriv} THEN Nothing ELSE s.deriv   \* mutant
MergedDeriv(s, t) == IF s.deriv # Nothing THEN s.deriv ELSE t.deriv
MergedAliasOfFirst(s, t) == s.alias   \* mutant
MergedAlias(s, t) == s.alias \cup t.alias
Merge(s, t) == [s EXCEPT !.alias = MergedAlias(s, t), !.deriv = MergedDeriv(s, t)]

Close ==
  LET frame == frames[Depth] IN
  /\ Depth > 0 /\ frame.arm = 2
  /\ Len(frame.first) = Len(stack)
  /\ \A i \in DOMAIN stack : /\ frame.first[i].ty = stack[i].ty /\ frame.first[i].leaf = stack[i].leaf
                             /\ Agree(frame.first[i], stack[i])
  /\ LeaveArm
  /\ stack' = [i \in DOMAIN stack |-> Merge(frame.first[i], stack[i])]
  /\ moved' = frame.firstMoved \cup MovedOuter
  /\ done' = frame.grant /\ left' = frame.left
  /\ granted' = frame.outer
  /\ frames' = SubSeq(frames, 1, Depth - 1)
  /\ mode' = IF frame.pick > 0 THEN "run" ELSE "skip"
-----------------------------------------------------------------------------
\* The parameters are on the stack; a reference parameter reaches a storage of
\* an ancestor frame and derives from no place of this one.
BorrowInit ==
  /\ \E eff \in Effects :
       /\ stack = [i \in DOMAIN eff |-> Slot(eff[i], FALSE, {}, Nothing)]
       /\ vals = [i \in DOMAIN eff |-> Value(eff[i], i, Whole, {})]
  /\ bound = [n \in Names |-> Nothing] /\ env = [n \in Names |-> Nothing]
  /\ done = {} /\ moved = {} /\ granted = {} /\ gone = {}
  /\ frames = <<>> /\ left = 0 /\ mode = "run"

Term(kinds) ==
  \/ \E ty \in Types : "make" \in kinds /\ Make(ty)
  \/ \E k \in 1..2 : Consume(k)
  \/ "shuffle" \in kinds /\ (Dup \/ Over \/ Swap)
  \/ \E n \in Names, last \in BOOLEAN :
       \/ Bind(n, last) \/ NameReference(n, last) \/ NameAggregate(n, last)
       \/ \E mutable \in BOOLEAN : Borrow(n, mutable, last)
  \/ "project" \in kinds /\ \E f \in Fields : ProjectReference(f) \/ \E mutable \in BOOLEAN : ProjectOwned(f, mutable)

Straight(kinds) ==
  /\ Depth > 0 => left > 0
  /\ left' = IF Depth > 0 THEN left - 1 ELSE left
  /\ Term(kinds)
Step(kinds) ==
  \/ Straight(kinds)
  \/ \E grant, unused \in SUBSET Names, pick \in 1..2 : Open(grant, unused, pick)
  \/ \E unused \in SUBSET Names : NextArm(unused)
  \/ Close

BorrowNext == Step(Terms)
BorrowSpec == BorrowInit /\ [][BorrowNext]_body
-----------------------------------------------------------------------------
BorrowTypeOK ==
  /\ stack \in Seq(Slots) /\ Len(stack) <= MaxStack
  /\ bound \in [Names -> {Nothing} \cup Bindings]
  /\ done \subseteq Scoped /\ granted \subseteq Scoped /\ moved \subseteq Scoped
  /\ vals \in Seq(Values) /\ env \in [Names -> Values \cup {Nothing}] /\ gone \subseteq Ids
  /\ Executing => Len(vals) = Len(stack) /\ \A i \in DOMAIN stack : vals[i].ty = stack[i].ty

\* What the rest of the body can still reach: the stack, and the locals it
\* mentions again.
Holders ==
  IF ~Executing THEN {}
  ELSE {[at |-> i, v |-> vals[i]] : i \in DOMAIN vals}
       \cup {[at |-> n, v |-> env[n]] : n \in {m \in LiveNames \ moved : env[m] # Nothing}}
References == {h \in Holders : IsRef(h.v.ty)}

\* A reference the body can still use points to storage that has not been
\* disposed of or given away.
NoDangling == \A h \in References : h.v.st \notin gone

\* Two references into overlapping storage, one of them mutable: then one is
\* the local the other reborrows, which stays suspended meanwhile.
SameStorage(v, w) == v.st = w.st /\ PathsMeet(v.path, w.path)
Lends(h, k) == h.at \in k.v.via
Exclusive ==
  \A h, k \in References :
    h # k /\ h.v.ty = "mut" /\ SameStorage(h.v, k.v) => Lends(h, k) \/ Lends(k, h)

\* While a mutable reference can be used, at most one value the body can still
\* read denotes the storage it writes to: nobody sees a value change.
NoSharedMutation ==
  \A h \in References : h.v.ty = "mut" =>
    Cardinality({k \in Holders : ~IsRef(k.v.ty) /\ k.v.st = h.v.st}) <= 1
=============================================================================
