------------------------------ MODULE Captures ------------------------------
(* The walk of a word body as far as closures go: a literal that becomes a   *)
(* runtime value is admitted by how its captures are rooted, and the set of  *)
(* those captures rides on the erased value and on whatever carries it, so   *)
(* that their referents stay live to a later call and leave the frame with   *)
(* no closure (check/captures.rs, check/engine.rs and, where the terms are   *)
(* walked, check/terms.rs, check/word_families.rs and check/word_entry.rs).  *)
(*                                                                           *)
(* Beside the checker the module runs the body: a closure is the code and an *)
(* environment of pointers (ir/func_builder/quotation.rs).  A body has       *)
(* resources, carriers -- Copy structs of one field, a closure --, and       *)
(* references to either, each bound to a name when it is made; what else may *)
(* be done to a reference or to a resource is the subject of BorrowWalk and  *)
(* LinearWalk.  A term the checker refuses is a term that cannot be taken.   *)
EXTENDS Naturals, Sequences, FiniteSets, FiniteSetsExt

CONSTANTS
  MaxNames,   \* bound: the locals of a body
  MaxSlots,   \* bound: slots on the virtual stack
  MaxParameters, MaxTerms,   \* bounds: parameters and terms of a body
  MaxIds,     \* bound: storages in use at once
  Literals,   \* what the literals of a body do to the locals they name: they
              \* read them, or consume resources; and they may take a scalar along
  ClosureShapes,   \* the shapes below that the bodies may contain
  Nothing     \* no binding, no root

VARIABLES
  \* --- the checker
  slots,    \* the virtual stack: Slots
  bound,    \* Scope.bound: name -> Binding or Nothing
  done,     \* the names `Liveness.dead` holds of
  moved,    \* the resources that are consumed
  granted,  \* `outer_releasable` of the arm
  branch,   \* the open check_branch_join, if any
  terms,    \* how many terms the body may still have (a bound, not state)
  phase,    \* "body", "tail" after a join in tail position, "returned"
  \* --- the execution
  held,     \* the closures the values of the stack are or carry
  places,   \* the values of the locals: [st, clo] or Nothing
  heap,     \* storage -> the closure in the field of a carrier
  gone,     \* storages of resources disposed of
  taken     \* FALSE while the walk is in the arm not taken

walk == <<slots, bound, done, moved, granted, branch, terms, phase>>
execution == <<held, places, heap, gone, taken>>
closures == <<walk, execution>>

Locals == 1..MaxNames
Outer == 0      \* the storage of the caller, a carrier
Ids == 1..MaxIds
Captured(l) == l.reads \cup l.eats
NoLit == [reads |-> {}, eats |-> {}, scalar |-> FALSE]

\* SurvivingSet: names, each frame-rooted or not, and whether the environment
\* is a bundle on the stack.
NoSet == [members |-> {}, bundle |-> FALSE]
UnionSurviving(s, t) == [members |-> s.members \cup t.members, bundle |-> s.bundle \/ t.bundle]
MemberNames(s) == {m[1] : m \in s.members}
FrameMembers(s) == {m \in s.members : m[2]}

SurvivingSets == [members : SUBSET (Locals \X BOOLEAN), bundle : BOOLEAN]

\* A closure: the pointers of its environment, by a reference or not, whether
\* that is a bundle, and the resources it owns.
NoClosure == [pts |-> {}, bundle |-> FALSE, owns |-> {}]
Pointers == [st : Ids \cup {Outer}, by : Locals \cup {Nothing}]
ClosureValues == [pts : SUBSET Pointers, bundle : BOOLEAN, owns : SUBSET Ids]
PlaceValues == [st : Ids \cup {Outer}, clo : ClosureValues]

LiteralBodies == [reads : SUBSET Locals, eats : SUBSET Locals, scalar : BOOLEAN]
SlotKinds == [kind : {"lit", "fn", "own", "car"}, lit : LiteralBodies, surviving : SurvivingSets,
              from : SUBSET Locals, level : 0..1]
Bindings == [kind : {"ref", "lin", "car", "fn"}, of : {"lin", "car", "fn"}, mutable : BOOLEAN,
             root : Locals \cup {Nothing}, surviving : SurvivingSets, level : 0..1]

ASSUME CapturesAssumption ==
  /\ MaxNames \in Nat /\ MaxSlots \in Nat /\ MaxTerms \in Nat /\ MaxIds \in Nat
  /\ MaxParameters \in Nat /\ MaxParameters <= MaxNames /\ MaxParameters <= MaxIds
  /\ Literals \subseteq LiteralBodies
  /\ Nothing \notin Locals \cup Bindings \cup PlaceValues

Lit(l) == [kind |-> "lit", lit |-> l, surviving |-> NoSet, from |-> {}, level |-> Len(branch)]
Slot(kind, surviving, from) ==
  [kind |-> kind, lit |-> NoLit, surviving |-> surviving, from |-> from, level |-> 0]
Binding(kind, of, mutable, root, surviving) ==
  [kind |-> kind, of |-> of, mutable |-> mutable, root |-> root, surviving |-> surviving, level |-> Len(branch)]

Nesting == Len(branch)
TopSlot == slots[Len(slots)]
TopHeld == held[Len(held)]
Popped(s) == SubSeq(s, 1, Len(s) - 1)
SlotsOf(s) == {s[i] : i \in DOMAIN s}
Scoped == {n \in Locals : bound[n] # Nothing}
\* Which of the free names is bound makes no difference.
IsFresh(n) == bound[n] = Nothing /\ \A m \in 1..n - 1 : bound[m] # Nothing
Room == Len(slots) < MaxSlots
Has(shape) == shape \in ClosureShapes
-----------------------------------------------------------------------------
(* What is alive.                                                            *)

\* mutant: an erased closure keeps nothing alive
CaptureAliveOfLiterals(d) == UNION {Captured(s.lit) : s \in {t \in SlotsOf(slots) : t.kind = "lit"}}

\* capture_alive_names: what a literal or a closure on the stack captured, and
\* what those of live bindings did, as often as that finds more: the least set
\* of names that is closed under it.
AliveOnStack == UNION {IF s.kind = "lit" THEN Captured(s.lit) ELSE MemberNames(s.surviving) : s \in SlotsOf(slots)}
KeepsAlive(names, d) ==
  /\ AliveOnStack \subseteq names
  /\ \A n \in Scoped : n \notin d \/ n \in names => MemberNames(bound[n].surviving) \subseteq names
CaptureAliveOf(d) == {n \in Locals : \A names \in SUBSET Locals : KeepsAlive(names, d) => n \in names}
LiveNames == Scoped \ done
\* Only these matter to a check: they hold a reference or a closure.
Holding == {n \in LiveNames : bound[n].kind = "ref" \/ bound[n].surviving.members # {}}
HeldByClosures(d) ==
  UNION ({MemberNames(s.surviving) : s \in SlotsOf(slots)}
         \cup {MemberNames(bound[n].surviving) : n \in Scoped \cap ((Locals \ d) \cup CaptureAliveOf(d))})

\* live_derivs: every reference here is a local, rooted in the local it borrows.
LiveReferences(d) == {n \in Scoped : (n \notin d \/ n \in CaptureAliveOf(d)) /\ bound[n].kind = "ref"}
LiveBorrowOf(n, d) == \E r \in LiveReferences(d) : bound[r].root = n
LiveMutableBorrowOf(n, d) == \E r \in LiveReferences(d) : bound[r].root = n /\ bound[r].mutable
Conflicts(n, mutable, d) == IF mutable THEN LiveBorrowOf(n, d) ELSE LiveMutableBorrowOf(n, d)

\* `Liveness.dead` looks ahead for the next mention of a name.  Here the names
\* that a check needs dead (a least set that is enough for it) are dead from
\* then on, and cannot be mentioned: a name outside the arm, not after the
\* branch either (releasable_into).
Dead(enough) ==
  \E d \in enough :
    /\ \A n \in d : d \ {n} \notin enough
    /\ done' = done \cup d
    /\ granted' = IF Nesting = 1 THEN granted \cup {n \in d : bound[n].level = 0} ELSE granted

InFrame(root) == root \in Scoped   \* ref_root_is_in_frame
FrameRooted(n) ==                  \* classify_capture
  \/ bound[n].kind \in {"lin", "car"}
  \/ bound[n].kind = "ref" /\ InFrame(bound[n].root)
-----------------------------------------------------------------------------
(* A literal becomes a value: check_capture_admission and                    *)
(* materialize_quotation_at_boundary.                                        *)

Moves(n, owning) == owning /\ bound[n].kind = "lin"
Bundle(l, owning) == ~owning /\ Cardinality(Captured(l)) + (IF l.scalar THEN 1 ELSE 0) >= 2
Surviving(l, owning) ==
  [members |-> {<<n, FrameRooted(n)>> : n \in {m \in Captured(l) : ~Moves(m, owning)}},
   bundle |-> Bundle(l, owning)]

\* mutant: only the members are looked at
EscapableBundle(surviving) == FrameMembers(surviving) = {}
\* Nothing in the frame may be pointed to by what outlives it (R18, R24), and a
\* quotation is not captured by name.
Escapable(surviving) == FrameMembers(surviving) = {} /\ ~surviving.bundle
\* mutant: every boundary taken for one in the frame
AdmittedAnywhere(l, escaping, owning) == Captured(l) \subseteq Scoped /\ \A n \in Captured(l) : bound[n].kind # "fn"
Admitted(l, escaping, owning) ==
  /\ Captured(l) \subseteq Scoped
  /\ \A n \in Captured(l) : bound[n].kind # "fn"
  /\ escaping => Escapable(Surviving(l, owning))

\* The walk of its body, inside of which no local of the word is ever dead: it
\* consumes a local only if the value is to own it, and then every resource
\* it captures (R12, check_owning_captures_consumed).
ReferenceInScope(n, mutable) == \E r \in Scoped : bound[r].root = n /\ (mutable => bound[r].mutable)
OwnsWhatItTook(l) == \A n \in Captured(l) : bound[n].kind = "lin" => n \in l.eats
WalksBody(l, owning) ==
  /\ Captured(l) \cap moved = {}
  /\ \A n \in l.eats : bound[n].kind = "lin" /\ ~ReferenceInScope(n, FALSE)
  /\ \A n \in l.reads : ~ReferenceInScope(n, TRUE)
  /\ l.eats # {} => owning
  /\ owning => OwnsWhatItTook(l)
  /\ ~Has("readThenConsumed") => l.eats \cap HeldByClosures(done) = {}
  /\ ~Has("fetchedLate") => \A n \in Captured(l) : bound[n].kind = "ref" /\ bound[n].of = "car" => bound[n].root = Nothing

Materializes(l, escaping, owning) == Admitted(l, escaping, owning) /\ WalksBody(l, owning)

\* build_env and build_owning_env: a word for each capture, a pointer unless it
\* is a scalar; an owning closure has a copy of what it captured instead.
Pointer(n) == [st |-> places[n].st, by |-> IF bound[n].kind = "ref" THEN n ELSE Nothing]
Closure(l, owning) ==
  LET kept == {n \in Captured(l) : bound[n].kind = "ref" \/ ~owning}
      copied == {heap[places[n].st] : n \in {m \in Captured(l) : owning /\ bound[m].kind = "car"}}
  IN [pts |-> {Pointer(n) : n \in kept} \cup UNION {c.pts : c \in copied},
      bundle |-> Bundle(l, owning) \/ \E c \in copied : c.bundle,
      owns |-> {places[n].st : n \in {m \in Captured(l) : Moves(m, owning)}}]
-----------------------------------------------------------------------------
(* The execution.                                                            *)

PointedTo(vs, e, h) ==
  LET all == {vs[i] : i \in DOMAIN vs} \cup {e[n].clo : n \in {m \in Locals : e[m] # Nothing}}
                \cup {h[s] : s \in DOMAIN h}
  IN (UNION {{p.st : p \in c.pts} \cup c.owns : c \in all}) \cup {e[n].st : n \in {m \in Locals : e[m] # Nothing}}
\* A storage that nothing points to, and that is empty.
FreeStorages == {s \in Ids \ PointedTo(held, places, heap) : s \notin gone /\ heap[s] = NoClosure}

\* A storage nothing points to any more is as good as new.
Settle(vs, e, h, disposed) ==
  LET used == PointedTo(vs, e, h) IN
  /\ held' = vs /\ places' = e
  /\ heap' = [s \in DOMAIN h |-> IF s \in used \cup {Outer} THEN h[s] ELSE NoClosure]
  /\ gone' = (gone \cup disposed) \cap used
Execute(vs, e, h, disposed) ==
  /\ IF taken THEN Settle(vs, e, h, disposed) ELSE UNCHANGED <<held, places, heap, gone>>
  /\ UNCHANGED taken
Bare(st) == [st |-> st, clo |-> NoClosure]
-----------------------------------------------------------------------------
(* Shapes of body the checker does not look through, each an instance of its *)
(* own; a passing run has none of them.                                      *)
(*   readThenConsumed  a resource a closure reads by its own name, consumed  *)
(*                     while the closure lives                               *)
(*   storedInArm       a closure stored, in an arm, into a carrier of the    *)
(*                     word: the set it rides on is the arm's                *)
(*   storedByCallee    a closure handed to a word with the reference that    *)
(*                     word stores it through                                *)
(*   capturedInArm     a closure that outlives the arm a capture is bound in *)
(*   fetchedLate       a closure fetched through a reference to a carrier    *)
(*                     that is itself past its last use, or by a closure     *)
(*                     through one it captured                               *)
-----------------------------------------------------------------------------
(* The terms.                                                                *)

Unchanged == UNCHANGED <<moved, branch, phase>>
AsAlive == UNCHANGED <<done, granted>>

\* A resource or an empty carrier is made and bound (Scope::bind).
Make(n, kind) ==
  /\ IsFresh(n) /\ (taken => FreeStorages # {})
  /\ bound' = [bound EXCEPT ![n] = Binding(kind, kind, FALSE, Nothing, NoSet)]
  /\ Execute(held, [places EXCEPT ![n] = Bare(Min(FreeStorages))], heap, {})
  /\ UNCHANGED slots /\ AsAlive /\ Unchanged

\* `&n | r |` and `&!n | r |`.
Borrow(n, r, mutable) ==
  /\ n \in LiveNames \ moved /\ bound[n].kind \in {"lin", "car"} /\ IsFresh(r)
  /\ Dead({d \in SUBSET Holding : ~Conflicts(n, mutable, done \cup d)})
  /\ mutable => \A s \in SlotsOf(slots) : n \notin s.from
  /\ bound' = [bound EXCEPT ![r] = Binding("ref", bound[n].kind, mutable, n, NoSet)]
  /\ Execute(held, [places EXCEPT ![r] = Bare(places[n].st)], heap, {})
  /\ UNCHANGED slots /\ Unchanged

\* `x drop`: a resource is consumed by being named.
DropLocal(n) ==
  /\ n \in LiveNames \ moved /\ bound[n].kind = "lin"
  /\ Dead({d \in SUBSET Holding : /\ ~LiveBorrowOf(n, done \cup d)
                                  /\ ~Has("readThenConsumed") => n \notin HeldByClosures(done \cup d)})
  /\ moved' = moved \cup {n}
  /\ Execute(held, places, heap, {places[n].st})
  /\ UNCHANGED <<slots, bound, branch, phase>>

\* `[ ... ]`: a literal is only interned until a boundary asks for its value.
PushLiteral(l) ==
  /\ Room /\ Captured(l) \subseteq LiveNames /\ \A n \in l.eats : bound[n].kind = "lin"
  \* bound: a scalar only beside a reference of the caller
  /\ l.scalar => l.eats = {} /\ \E n \in Scoped : l.reads = {n} /\ bound[n].kind = "ref" /\ ~InFrame(bound[n].root)
  /\ slots' = Append(slots, Lit(l))
  /\ Execute(Append(held, NoClosure), places, heap, {})
  /\ UNCHANGED bound /\ AsAlive /\ Unchanged

\* The name of a carrier or a closure: its set comes along, a carrier is not
\* copied.
PushLocal(n) ==
  /\ n \in LiveNames /\ bound[n].kind \in {"car", "fn"} /\ Room
  /\ Dead({d \in SUBSET Holding : bound[n].kind = "car" => ~LiveMutableBorrowOf(n, done \cup d)})
  /\ slots' = Append(slots, Slot(bound[n].kind, bound[n].surviving, IF bound[n].kind = "car" THEN {n} ELSE {}))
  /\ Execute(Append(held, IF bound[n].kind = "car" THEN heap[places[n].st] ELSE places[n].clo), places, heap, {})
  /\ UNCHANGED bound /\ Unchanged

\* `| n |` of a closure or of a carrier that has no other name.
BindTop(n) ==
  /\ slots # <<>> /\ TopSlot.kind \in {"car", "fn"} /\ TopSlot.from = {} /\ IsFresh(n)
  /\ taken => FreeStorages # {}
  /\ slots' = Popped(slots)
  /\ bound' = [bound EXCEPT ![n] = Binding(TopSlot.kind, TopSlot.kind, FALSE, Nothing, TopSlot.surviving)]
  /\ IF TopSlot.kind = "fn"
     THEN Execute(Popped(held), [places EXCEPT ![n] = [st |-> Outer, clo |-> TopHeld]], heap, {})
     ELSE LET st == Min(FreeStorages)
          IN Execute(Popped(held), [places EXCEPT ![n] = Bare(st)], [heap EXCEPT ![st] = TopHeld], {})
  /\ AsAlive /\ Unchanged

\* A call of a word that returns what it is given, be it a constructor, which
\* makes a carrier of it, a getter, which takes the closure out, or a word that
\* passes it through: a literal becomes a value of the frame, and the result
\* carries the set of the operand.
\* mutant: what a word returns is taken for a plain value
CarriedSetNone(s) == NoSet
CarriedSet(s) == s.surviving
Becomes(kind, to) ==
  \/ kind \in {"lit", "fn"} /\ to \in {"fn", "car"}
  \/ kind = "lit" /\ to = "own"
  \/ kind = "car" /\ to = "fn"
PassOn(to) ==
  LET n == Len(slots)  literal == TopSlot.kind = "lit"  owning == to = "own" IN
  /\ slots # <<>> /\ Becomes(TopSlot.kind, to)
  /\ literal => Materializes(TopSlot.lit, FALSE, owning)
  /\ slots' = [slots EXCEPT ![n] = Slot(to, IF literal THEN Surviving(TopSlot.lit, owning) ELSE CarriedSet(TopSlot), {})]
  /\ moved' = IF literal THEN moved \cup TopSlot.lit.eats ELSE moved
  /\ Execute(IF taken /\ literal THEN [held EXCEPT ![n] = Closure(TopSlot.lit, owning)] ELSE held, places, heap, {})
  /\ UNCHANGED <<bound, branch, phase>> /\ AsAlive

\* `call` and `drop`: an owning closure disposes of what it owns either way.
Call ==
  /\ slots # <<>> /\ TopSlot.kind \in {"fn", "own", "car"}
  /\ slots' = Popped(slots)
  /\ Execute(Popped(held), places, heap, TopHeld.owns)
  /\ UNCHANGED bound /\ AsAlive /\ Unchanged

\* `r &q @`: the set of the place r is rooted in comes along.
RootSet(r) == IF InFrame(bound[r].root) THEN bound[bound[r].root].surviving ELSE NoSet
Fetch(r) ==
  /\ r \in LiveNames /\ bound[r].kind = "ref" /\ bound[r].of = "car" /\ Room
  /\ ~Has("fetchedLate") => bound[r].root \in LiveNames \cup CaptureAliveOf(done) \cup {Nothing}
  /\ slots' = Append(slots, Slot("fn", RootSet(r), {}))
  /\ Execute(Append(held, heap[places[r].st]), places, heap, {})
  /\ UNCHANGED bound /\ AsAlive /\ Unchanged

\* `r &!q [ ... ] !`: it is the root of r that decides whether the closure may
\* outlive the frame, and that keeps its captures alive from now on.
Stored(root, surviving) ==
  IF InFrame(root) THEN [bound EXCEPT ![root].surviving = UnionSurviving(@, surviving)] ELSE bound
StoreThrough(r) == r \in LiveNames /\ bound[r].kind = "ref" /\ bound[r].of = "car" /\ bound[r].mutable
Store(r) ==
  LET root == bound[r].root  literal == TopSlot.kind = "lit"
      surviving == IF literal THEN Surviving(TopSlot.lit, FALSE) ELSE TopSlot.surviving
  IN /\ slots # <<>> /\ TopSlot.kind \in {"lit", "fn"} /\ StoreThrough(r)
     /\ literal => Materializes(TopSlot.lit, ~InFrame(root), FALSE)
     /\ ~InFrame(root) => Escapable(surviving)
     /\ InFrame(root) /\ ~Has("storedInArm") => bound[root].level = Nesting
     /\ slots' = Popped(slots)
     /\ bound' = Stored(root, surviving)
     /\ Execute(Popped(held), places,
                [heap EXCEPT ![places[r].st] = IF literal THEN Closure(TopSlot.lit, FALSE) ELSE TopHeld], {})
     /\ AsAlive /\ Unchanged

\* The same by a word that is given r and the closure.
StoreByCall(r) ==
  LET literal == TopSlot.kind = "lit" IN
  /\ Has("storedByCallee")
  /\ slots # <<>> /\ TopSlot.kind \in {"lit", "fn"} /\ StoreThrough(r)
  /\ literal => Materializes(TopSlot.lit, FALSE, FALSE)
  /\ slots' = Popped(slots)
  /\ Execute(Popped(held), places,
             [heap EXCEPT ![places[r].st] = IF literal THEN Closure(TopSlot.lit, FALSE) ELSE TopHeld], {})
  /\ UNCHANGED bound /\ AsAlive /\ Unchanged
-----------------------------------------------------------------------------
(* check_branch_join.  Each arm walks a clone of the scope.                  *)

OpenBranch(pick) ==
  /\ phase = "body" /\ Nesting = 0 /\ terms > 0
  /\ branch' = <<[entry |-> slots, scope |-> bound, entryMoved |-> moved, entryDone |-> done,
                  arm |-> 1, first |-> <<>>, firstMoved |-> {}, pick |-> pick]>>
  /\ taken' = (pick = 1)
  /\ UNCHANGED <<slots, bound, moved, done, granted, terms, phase, held, places, heap, gone>>

Inner == {n \in Scoped : bound[n].level = 1}
\* leave_block: what the arm bound goes out of scope, resources consumed.
ArmEnds ==
  /\ \A n \in Inner : bound[n].kind = "lin" => n \in moved
  /\ ~Has("capturedInArm") =>
       \A s \in SlotsOf(slots) \cup {bound[n] : n \in Scoped \ Inner} : MemberNames(s.surviving) \cap Inner = {}
Outside == [n \in Locals |-> IF n \in Inner THEN Nothing ELSE places[n]]

OtherArm ==
  LET frame == branch[1] IN
  /\ Nesting = 1 /\ frame.arm = 1
  /\ ArmEnds
  /\ IF taken THEN Settle(held, Outside, heap, {}) ELSE UNCHANGED <<held, places, heap, gone>>
  /\ branch' = <<[frame EXCEPT !.arm = 2, !.first = slots, !.firstMoved = moved \ Inner]>>
  /\ slots' = frame.entry /\ bound' = frame.scope /\ moved' = frame.entryMoved /\ done' = frame.entryDone
  /\ taken' = (frame.pick = 2)
  /\ UNCHANGED <<granted, terms, phase>>

\* Two literals, unless they are one: in tail position the join makes a value
\* of each, for the caller; elsewhere it cannot type one (but for a store that
\* comes next, which is left out).
SameLiteral(s, t) == s = t /\ s.level = 0
\* mutant: the set of the first arm
JoinedSetFirst(s, t, owning) == IF s.kind = "lit" THEN Surviving(s.lit, owning) ELSE s.surviving
JoinedSet(s, t, owning) ==
  IF s.kind = "lit" THEN UnionSurviving(Surviving(s.lit, owning), Surviving(t.lit, owning))
  ELSE UnionSurviving(s.surviving, t.surviving)
Merge(s, t, owning) ==
  IF s.kind = "lit" /\ SameLiteral(s, t) THEN s
  ELSE Slot(IF s.kind # "lit" THEN s.kind ELSE IF owning THEN "own" ELSE "fn",
            JoinedSet(s, t, owning), s.from \cup t.from)

CloseBranch(tail, owning) ==
  LET frame == branch[1]  first == frame.first
      made == {i \in DOMAIN slots : slots[i].kind = "lit" /\ ~SameLiteral(first[i], slots[i])}
      literals == {first[i].lit : i \in made} \cup {slots[i].lit : i \in made}
      outcome(i) == IF frame.pick = 1 THEN first[i] ELSE slots[i]
      vs == [i \in DOMAIN held |-> IF i \in made THEN Closure(outcome(i).lit, owning) ELSE held[i]]
  IN /\ Nesting = 1 /\ frame.arm = 2 /\ Len(first) = Len(slots)
     /\ \A i \in DOMAIN slots : first[i].kind = slots[i].kind
     /\ tail = (made # {}) /\ (owning => tail)
     \* bound: the second arm of such a branch binds nothing
     /\ tail => bound = frame.scope
     \* what one path only consumes the end of the word would refuse
     /\ frame.firstMoved = moved \ Inner /\ \A i \in made : first[i].lit.eats = slots[i].lit.eats
     /\ \A l \in literals : Materializes(l, TRUE, owning)
     /\ \A i, j \in made : i < j \/ (i # j /\ ~Has("readThenConsumed")) =>
          slots[i].lit.eats \cap (Captured(first[j].lit) \cup Captured(slots[j].lit)) = {}
     /\ ArmEnds
     /\ slots' = [i \in DOMAIN slots |-> Merge(first[i], slots[i], owning)]
     /\ bound' = frame.scope
     /\ moved' = frame.firstMoved \cup UNION {l.eats : l \in literals}
     /\ done' = frame.entryDone \cup granted /\ granted' = {} /\ branch' = <<>>
     /\ phase' = IF tail THEN "tail" ELSE phase
     /\ taken' = TRUE /\ Settle(vs, IF taken THEN Outside ELSE places, heap, {})
     /\ UNCHANGED terms

\* The word returns (R22): a literal it leaves is made a value for the caller,
\* and no other closure or carrier leaves with a capture of the frame.
Return(owning) ==
  LET literals == {i \in DOMAIN slots : slots[i].kind = "lit"} IN
  /\ phase \in {"body", "tail"} /\ Nesting = 0
  /\ \A i \in literals : Materializes(slots[i].lit, TRUE, owning)
  /\ \A i, j \in literals : i < j => slots[i].lit.eats \cap Captured(slots[j].lit) = {}
  /\ owning => literals # {}
  /\ \A i \in DOMAIN slots \ literals : Escapable(slots[i].surviving)
  /\ \A n \in Scoped : bound[n].kind = "lin" => n \in moved \cup UNION {slots[i].lit.eats : i \in literals}
  /\ held' = [i \in DOMAIN held |-> IF i \in literals THEN Closure(slots[i].lit, owning) ELSE held[i]]
  /\ phase' = "returned"
  \* the scope is left
  /\ slots' = <<>> /\ bound' = [n \in Locals |-> Nothing] /\ places' = bound'
  /\ done' = {} /\ moved' = {} /\ gone' = {} /\ terms' = 0
  /\ UNCHANGED <<granted, branch, heap, taken>>
-----------------------------------------------------------------------------
\* A word of up to two parameters: resources, empty carriers, a reference to a
\* carrier of the caller.
Given == Binding("ref", "car", TRUE, Nothing, NoSet)
Parameter(kind) == IF kind = "ref" THEN Given ELSE Binding(kind, kind, FALSE, Nothing, NoSet)
CapturesInit ==
  /\ branch = <<>>
  /\ \E k \in 0..MaxParameters : \E kinds \in [1..k -> {"ref", "car", "lin"}] :
       /\ \A n \in 2..k : kinds[n] # "ref" /\ (kinds[n] = "car" => kinds[n - 1] # "lin")
       /\ bound = [n \in Locals |-> IF n > k THEN Nothing ELSE Parameter(kinds[n])]
       /\ places = [n \in Locals |-> IF n > k THEN Nothing ELSE Bare(IF kinds[n] = "ref" THEN Outer ELSE n)]
  /\ slots = <<>> /\ done = {} /\ moved = {} /\ granted = {} /\ terms = MaxTerms /\ phase = "body"
  /\ held = <<>> /\ heap = [s \in Ids \cup {Outer} |-> NoClosure] /\ gone = {} /\ taken = TRUE

Term ==
  \/ \E n \in Locals : Make(n, "lin") \/ Make(n, "car") \/ BindTop(n) \/ DropLocal(n) \/ PushLocal(n)
  \/ \E n, r \in Locals, mutable \in BOOLEAN : n # r /\ Borrow(n, r, mutable)
  \/ \E l \in Literals : PushLiteral(l)
  \/ \E to \in {"fn", "own", "car"} : PassOn(to)
  \/ \E r \in Locals : Fetch(r) \/ Store(r) \/ StoreByCall(r)
  \/ Call

CapturesNext ==
  \/ phase = "body" /\ terms > 0 /\ terms' = terms - 1 /\ Term
  \/ \E pick \in 1..2 : OpenBranch(pick)
  \/ OtherArm
  \/ \E tail, owning \in BOOLEAN : CloseBranch(tail, owning)
  \/ \E owning \in BOOLEAN : Return(owning)
CapturesSpec == CapturesInit /\ [][CapturesNext]_closures
-----------------------------------------------------------------------------
\* The closures something can call: those given, and those in the carriers a
\* closure points to, however many closures lie between.
Pointed(cs) == UNION {{p.st : p \in c.pts} : c \in cs}
Reach(given) ==
  LET all == DOMAIN heap
      Closed(S) == Pointed(given) \subseteq S /\ \A s \in S : Pointed({heap[s]}) \subseteq S
  IN given \cup {heap[s] : s \in {t \in all : \A S \in SUBSET all : Closed(S) => t \in S}}
Callable ==
  Reach({held[i] : i \in DOMAIN held} \cup {heap[Outer]}
        \cup {places[n].clo : n \in {m \in LiveNames : bound[m].kind = "fn" /\ places[m] # Nothing}}
        \cup {heap[places[n].st] : n \in {m \in LiveNames : bound[m].kind = "car" /\ places[m] # Nothing}})

\* As long as a closure can be called, what it captured is still there: no
\* resource it points to or owns has been disposed of, and no reference that
\* conflicts with one it captured can be used.
CapturesIntact ==
  taken /\ phase # "returned" => \A c \in Callable :
    /\ \A p \in c.pts : p.st \notin gone
    /\ c.owns \cap gone = {}
    /\ \A p \in c.pts, r \in LiveNames :
         /\ p.by \in Scoped /\ r # p.by /\ bound[r].kind = "ref" /\ places[r].st = p.st
         => ~bound[r].mutable /\ ~bound[p.by].mutable

\* When the word has returned, no closure that it gave to its caller, directly,
\* in a carrier or through a reference, points into the frame, be it to a
\* local or to an environment built there.
NothingEscapes ==
  phase = "returned" => \A c \in Reach({held[i] : i \in DOMAIN held} \cup {heap[Outer]}) :
    ~c.bundle /\ \A p \in c.pts : p.st = Outer
=============================================================================
