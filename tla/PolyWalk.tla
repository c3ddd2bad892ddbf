------------------------------ MODULE PolyWalk ------------------------------
(* The walk of a generic body (check/poly.rs).  It is checked once, under    *)
(* rigid type variables, and never again at its instances; it has neither    *)
(* the regions nor the liveness of the walk of an ordinary body: a borrow    *)
(* is a record (place, mutability), and all records are forgotten as soon    *)
(* as neither the stack nor a local holds a reference.                       *)
(*                                                                           *)
(* A literal is walked where it is consumed: in place (`call`), in clones of *)
(* the scope that are then joined (the arms of `if` and of an eliminator,    *)
(* the body of `times`), or in the same scope over a stack of its own (an    *)
(* argument of a word that calls it).  Beside the checker the module runs    *)
(* the body: an arm once or never, the last two kinds up to twice, and for   *)
(* the second turn the terms walked are run again.  A term the checker       *)
(* refuses is a term the next action may not take.                           *)
EXTENDS Naturals, Sequences, FiniteSets

CONSTANTS
  PolyNames,   \* the locals a body may bind
  Inputs,      \* the declared inputs: sequences of slots
  Callees,     \* the literals a word may declare as its argument: [ins, outs]
  PolyStack,   \* bound: slots on the virtual stack
  PolyNested,  \* bound: literals open at once
  PolyTerms,   \* bound: terms of a body and its literals, a literal itself counted as one
  Shapes,      \* the shapes below that the bodies may contain
  None         \* no local, no place

VARIABLES
  \* --- the checker
  verdict,   \* "walking", "accepted", or "looped": the back-edge was taken
  operands,  \* the virtual stack
  locals,    \* PolyScope.locals: name -> slot or None
  states,    \* PolyScope.moves
  borrows,   \* PolyScope.borrows: records [place, mutable]
  literals,  \* the literals being walked
  left,      \* how many terms may still follow (a bound, not state)
  \* --- the execution
  running,   \* it has reached the term being walked
  exec       \* its values, locals and live resources, and what it did wrong

polyChecker == <<verdict, operands, locals, states, borrows, literals, left>>
polyVars == <<polyChecker, running, exec>>

(* Shapes of body whose hazards the checker does not see, each an instance   *)
(* of its own; a passing run has none of them.                               *)
(*   literalOverReference  a word is given a literal while a reference is    *)
(*                         on the stack below                                *)
(*   timesConsumes         the body of `times` consumes a local of the word  *)
(*   timesBorrows          the body of `times` leaves a borrow it has taken  *)
(*   concreteVariant       an enum of concrete type is eliminated: `is_copy' *)
(*                         holds of its variants, whatever they carry        *)
Includes(shape) == shape \in Shapes

\* A slot: an owned value, `&` or `&!`, of a linear or a Copy aggregate or of
\* the variant an eliminator narrowed an enum to.
Own(of) == [kind |-> "own", of |-> of]
Ref(mutable, of) == [kind |-> IF mutable THEN "mut" ELSE "ref", of |-> of]
IsRef(s) == s.kind # "own"
Variants == {"variant", "concreteVariant"}
Kinds == {"own", "ref", "mut"}
SlotTypes == [kind : Kinds, of : {"lin", "agg"} \cup Variants]

ASSUME PolyAssumption ==
  /\ IsFiniteSet(PolyNames)
  /\ None \notin PolyNames \cup SlotTypes \cup [slot : SlotTypes, at : Nat, from : PolyNames \cup {None}]
  /\ Inputs \subseteq Seq([kind : Kinds, of : {"lin", "agg"}])
  /\ Callees \subseteq [ins : Seq([kind : {"own"}, of : {"lin", "agg"}]), outs : Seq(SlotTypes)]

Nested == Len(literals)
Innermost == literals[Nested]
Turns == Innermost.turns[Innermost.arm]   \* how often the arm being walked runs
TopOperand == operands[Len(operands)]
Without(s, n) == SubSeq(s, 1, Len(s) - n)
RoomLeft == Len(operands) < PolyStack
InLocals == {n \in PolyNames : locals[n] # None}
-----------------------------------------------------------------------------
(* Move-states and borrows.                                                  *)

\* poly_is_copy.
IsCopyRefs(s) == IsRef(s) \/ s.of \in {"agg", "concreteVariant"}   \* mutant: any reference
IsCopy(s) == IF IsRef(s) THEN s.kind = "ref" ELSE s.of \in {"agg", "concreteVariant"}

HoldsValue(n) == states[n] \in {"absent", "live"}
UnconsumedLive(among) == {n \in among : states[n] = "live"}   \* mutant
UnconsumedIn(among) == {n \in among : states[n] \in {"live", "maybe"}}
JoinStates(a, b) == [n \in PolyNames |-> IF a[n] = b[n] THEN a[n] ELSE "maybe"]

\* prune_dead_borrows: the borrows that are left.
PrunedByStack ==   \* mutant: a reference parked in a local keeps nothing alive
  IF \E i \in DOMAIN operands : IsRef(operands[i]) THEN borrows ELSE {}
Pruned ==
  IF (\E i \in DOMAIN operands : IsRef(operands[i])) \/ (\E n \in InLocals : IsRef(locals[n]))
  THEN borrows ELSE {}

\* live_borrow_of, the borrows in the way of a use of n.
InTheWay(n, mutableOnly) == {b \in Pruned : b.place = n /\ (b.mutable \/ ~mutableOnly)}
-----------------------------------------------------------------------------
(* The execution.  A value is a slot with the storage it is, or points to,   *)
(* and the local it was borrowed from.  A local's storage keeps its bits     *)
(* when it is read: `spent` are the names whose value was moved out.         *)

Values(e) == {e.vals[i] : i \in DOMAIN e.vals}
Value(slot, at, from) == [slot |-> slot, at |-> at, from |-> from]
Linear(v) == v.slot.kind = "own" /\ v.slot.of # "agg"
Bound(e) == {n \in PolyNames : e.env[n] # None}
Fresh(e) ==
  LET used == e.alive \cup {v.at : v \in Values(e)} \cup {e.env[n].at : n \in Bound(e)}
  IN CHOOSE i \in 1..Cardinality(used) + 1 : i \notin used /\ \A j \in 1..i - 1 : j \in used

Referring(e) == {v \in Values(e) \cup {e.env[n] : n \in Bound(e) \ e.spent} : IsRef(v.slot)}
Count(e, v) == Cardinality({i \in DOMAIN e.vals : e.vals[i] = v}) + Cardinality({n \in Bound(e) \ e.spent : e.env[n] = v})
Wrong(e) ==
  {"twice" : v \in {w \in Values(e) : Linear(w) /\ (w.at \notin e.alive \/ Count(e, w) > 1)}}
  \cup {"dangling" : v \in {w \in Referring(e) : w.from # None /\ w.slot.of # "agg" /\ w.at \notin e.alive}}
  \cup {"overlap" : p \in {q \in Referring(e) \X Referring(e) :
          /\ q[1].from # None /\ <<q[1].at, q[1].from>> = <<q[2].at, q[2].from>>
          /\ q[1].slot.kind = "mut" /\ (q[1] # q[2] \/ Count(e, q[1]) > 1)}}

Push(e, v) == [e EXCEPT !.vals = Append(@, v)]
Rotated(s, k) == Without(s, k) \o SubSeq(s, Len(s) - k + 2, Len(s)) \o <<s[Len(s) - k + 1]>>

\* A term: what it does, the local or the kind of value it is about, whether
\* it borrows mutably, and how many values it rotates.
Plain(op) == [op |-> op, n |-> None, of |-> "", mutable |-> FALSE, k |-> 0]
Doing(t, e) ==
  LET d == Len(e.vals)  v == e.vals[d]  rest == Without(e.vals, 1)
  IN CASE t.op = "make" -> [Push(e, Value(Own(t.of), Fresh(e), None)) EXCEPT
                              !.alive = IF t.of = "lin" THEN @ \cup {Fresh(e)} ELSE @]
       [] t.op = "consume" -> [e EXCEPT !.vals = rest, !.alive = IF Linear(v) THEN @ \ {v.at} ELSE @]
       [] t.op = "dup" -> Push(e, IF v.slot = Own("agg") THEN Value(v.slot, Fresh(e), None) ELSE v)
       [] t.op = "over" -> Push(e, e.vals[d - 1])
       [] t.op = "rotate" -> [e EXCEPT !.vals = Rotated(@, t.k)]
       [] t.op = "bind" -> [e EXCEPT !.vals = rest, !.env[t.n] = v, !.spent = @ \ {t.n}]
       [] t.op = "name" -> [Push(e, e.env[t.n]) EXCEPT
                              !.spent = IF Linear(e.env[t.n]) \/ e.env[t.n].slot.kind = "mut" THEN @ \cup {t.n} ELSE @]
       [] t.op = "borrow" -> Push(e, Value(Ref(t.mutable, e.env[t.n].slot.of), e.env[t.n].at, t.n))
Run(e, t) == LET f == Doing(t, e) IN [f EXCEPT !.wrong = @ \cup Wrong(f)]
RunAll(e, ts) ==
  LET after[i \in 0..Len(ts)] == IF i = 0 THEN e ELSE Run(after[i - 1], ts[i])
  IN after[Len(ts)]
-----------------------------------------------------------------------------
(* The terms.                                                                *)

Repeats(f) == f.kind \in {"times", "ground"}

\* What every term does besides: it runs, and is noted in a literal that may
\* run again.
Does(t) ==
  /\ verdict = "walking" /\ left > 0 /\ left' = left - 1
  /\ exec' = IF running THEN Run(exec, t) ELSE exec
  /\ literals' = IF Nested > 0 /\ running /\ Turns = 2 THEN [literals EXCEPT ![Nested].terms = Append(@, t)] ELSE literals
  /\ UNCHANGED <<verdict, running>>

\* A call of a word that leaves a value: the env dispatch, a generic word.
MakeOwned(of) ==
  /\ RoomLeft /\ of \in {"lin", "agg"}
  /\ operands' = Append(operands, Own(of))
  /\ Does([Plain("make") EXCEPT !.of = of])
  /\ UNCHANGED <<locals, states, borrows>>

\* A call that consumes its operand, `drop`, an access through a reference.
ConsumeTop ==
  /\ operands # <<>>
  /\ operands' = Without(operands, 1)
  /\ Does(Plain("consume"))
  /\ UNCHANGED <<locals, states, borrows>>

\* The core shuffles: the two that copy are gated (poly_copy_gate).
Dup ==
  /\ operands # <<>> /\ RoomLeft /\ IsCopy(TopOperand)
  /\ operands' = Append(operands, TopOperand)
  /\ Does(Plain("dup"))
  /\ UNCHANGED <<locals, states, borrows>>
Over ==
  /\ Len(operands) >= 2 /\ RoomLeft /\ IsCopy(operands[Len(operands) - 1])
  /\ operands' = Append(operands, operands[Len(operands) - 1])
  /\ Does(Plain("over"))
  /\ UNCHANGED <<locals, states, borrows>>
RotateTop(k) ==
  /\ Len(operands) >= k
  /\ operands' = Rotated(operands, k)
  /\ Does([Plain("rotate") EXCEPT !.k = k])
  /\ UNCHANGED <<locals, states, borrows>>

BindLocal(n) ==
  /\ operands # <<>> /\ n \notin InLocals
  /\ operands' = Without(operands, 1)
  /\ locals' = [locals EXCEPT ![n] = TopOperand]
  /\ states' = IF IsCopy(TopOperand) THEN states ELSE [states EXCEPT ![n] = "live"]
  /\ Does([Plain("bind") EXCEPT !.n = n])
  /\ UNCHANGED borrows

\* The name of a local: a value that is not Copy is taken, unless a borrow of
\* it is live; a Copy one may be named beside a shared borrow.
NameWithoutTake(n) == states   \* mutant
NameStates(n) == [states EXCEPT ![n] = IF @ = "live" THEN "moved" ELSE @]   \* Moves::take
NameLocal(n) ==
  /\ n \in InLocals /\ RoomLeft /\ HoldsValue(n)
  /\ InTheWay(n, IsCopy(locals[n])) = {}
  /\ operands' = Append(operands, locals[n])
  /\ states' = NameStates(n) /\ borrows' = Pruned
  /\ Does([Plain("name") EXCEPT !.n = n])
  /\ UNCHANGED locals

\* `&n`, `&!n` of an aggregate local that still holds its value.
BorrowLocal(n, mutable) ==
  /\ n \in InLocals /\ RoomLeft /\ HoldsValue(n)
  /\ locals[n] \in {Own("lin"), Own("agg")}
  /\ InTheWay(n, ~mutable) = {}
  /\ operands' = Append(operands, Ref(mutable, locals[n].of))
  /\ borrows' = Pruned \cup {[place |-> n, mutable |-> mutable]}
  /\ Does([Plain("borrow") EXCEPT !.n = n, !.mutable = mutable])
  /\ UNCHANGED <<locals, states>>

PolyTerm ==
  \/ \E of \in {"lin", "agg"} : MakeOwned(of)
  \/ ConsumeTop \/ Dup \/ Over \/ \E k \in 2..3 : RotateTop(k)
  \/ \E n \in PolyNames : BindLocal(n) \/ NameLocal(n) \/ \E mutable \in BOOLEAN : BorrowLocal(n, mutable)
-----------------------------------------------------------------------------
(* Literals.                                                                 *)

\* A literal begins: `entry` is the stack it is walked over, `under` what of
\* the caller's it does not see, `turns` how often each of its arms runs.
OpenLiteral(kind, entry, under, callee, turns) ==
  /\ verdict = "walking" /\ Nested < PolyNested /\ \A i \in DOMAIN literals : ~Repeats(literals[i])
  /\ left > 0
  /\ operands' = entry /\ left' = left - 1
  /\ literals' = Append(literals,
       [kind |-> kind, entry |-> entry, under |-> under, callee |-> callee, turns |-> turns, arm |-> 1,
        locals |-> locals, states |-> states, borrows |-> borrows,
        exit |-> <<>>, joined |-> states, met |-> {}, terms |-> <<>>,
        running |-> running])
  /\ running' = (running /\ turns[1] > 0)
  /\ UNCHANGED <<verdict, locals, states, borrows>>

NoCallee == [ins |-> <<>>, outs |-> <<>>]
OpenCall == OpenLiteral("call", operands, <<>>, NoCallee, <<1>>) /\ UNCHANGED exec
OpenIf == \E turns \in {<<1, 0>>, <<0, 1>>} : OpenLiteral("arms", operands, <<>>, NoCallee, turns) /\ UNCHANGED exec
OpenTimes == \E turns \in {<<0>>, <<1>>, <<2>>} : OpenLiteral("times", operands, <<>>, NoCallee, turns) /\ UNCHANGED exec

\* The scrutinee gives way to the variant an arm is for.
OpenEliminator ==
  /\ operands # <<>> /\ TopOperand = Own("lin")
  /\ \E variant \in Variants, turns \in {<<1, 0>>, <<0, 1>>} :
       /\ variant = "concreteVariant" => Includes("concreteVariant")
       /\ OpenLiteral("arms", Append(Without(operands, 1), Own(variant)), <<>>, NoCallee, turns)
       /\ exec' = IF running THEN [exec EXCEPT !.vals[Len(exec.vals)].slot = Own(variant)] ELSE exec

\* poly_ground_quotation_literal: the callee supplies the inputs and consumes
\* the outputs each time it calls the literal.
OpenGround ==
  /\ Includes("literalOverReference") \/ \A i \in DOMAIN operands : ~IsRef(operands[i])
  /\ \E callee \in Callees, turns \in {<<0>>, <<1>>, <<2>>} :
       /\ OpenLiteral("ground", callee.ins, operands, callee, turns)
       /\ exec' = IF running /\ turns[1] > 0
               THEN RunAll(exec, [i \in DOMAIN callee.ins |-> [Plain("make") EXCEPT !.of = callee.ins[i].of]])
               ELSE exec

\* The end of a literal: a local it bound and did not consume is refused, the
\* others go out of scope.
BoundInside == {n \in InLocals : Innermost.locals[n] = None}
Ends(kinds) ==
  /\ verdict = "walking" /\ Nested > 0 /\ Innermost.kind \in kinds
  /\ UnconsumedIn(BoundInside) = {}
LocalsOutside == [n \in PolyNames |-> IF n \in BoundInside THEN None ELSE locals[n]]
StatesOutside == [n \in PolyNames |-> IF n \in BoundInside THEN "absent" ELSE states[n]]
Forgotten(e) == [e EXCEPT !.env = [n \in PolyNames |-> IF n \in BoundInside THEN None ELSE @[n]], !.spent = @ \ BoundInside]
Ended(e) == IF running THEN Forgotten(e) ELSE e
Again(last, terms) ==
  IF ~running THEN exec
  ELSE LET y == Forgotten(RunAll(exec, last)) IN IF Turns = 2 THEN Forgotten(RunAll(y, terms)) ELSE y
Resume == literals' = Without(literals, 1) /\ running' = Innermost.running /\ UNCHANGED left

EndCall ==
  /\ Ends({"call"})
  /\ locals' = LocalsOutside /\ states' = StatesOutside
  /\ exec' = Ended(exec)
  /\ Resume
  /\ UNCHANGED <<verdict, operands, borrows>>

\* An arm's exit: no variant leaves it, and it agrees with the arm before, or,
\* for `times`, with the row it was given.
NoVariantLeaves == \A i \in DOMAIN operands : operands[i].of \notin Variants
ExitsCounted(a, b) == Len(a) = Len(b)   \* mutant
ExitsAgree(a, b) == a = b

SecondArm ==
  /\ Ends({"arms"}) /\ Innermost.arm = 1 /\ NoVariantLeaves
  /\ literals' = [literals EXCEPT ![Nested] =
       [@ EXCEPT !.arm = 2, !.exit = operands, !.joined = StatesOutside, !.met = borrows]]
  /\ operands' = Innermost.entry
  /\ locals' = Innermost.locals /\ states' = Innermost.states /\ borrows' = Innermost.borrows
  /\ running' = (Innermost.running /\ Innermost.turns[2] > 0)
  /\ exec' = Ended(exec)
  /\ UNCHANGED <<verdict, left>>

\* The borrows of all arms are joined, and agree on a place.
UnitedLast == Innermost.borrows \cup borrows   \* mutant: the last arm's
United == Innermost.borrows \cup Innermost.met \cup borrows
JoinedOptimistic ==   \* mutant
  [n \in PolyNames |-> IF "moved" \in {Innermost.joined[n], StatesOutside[n]} THEN "moved" ELSE StatesOutside[n]]
JoinedOutside == IF Innermost.kind = "arms" THEN JoinStates(Innermost.joined, StatesOutside) ELSE StatesOutside
EndArms ==
  /\ Ends({"arms", "times"}) /\ NoVariantLeaves
  /\ Innermost.kind = "arms" => Innermost.arm = 2 /\ ExitsAgree(Innermost.exit, operands)
  /\ Innermost.kind = "times" =>
       /\ ExitsAgree(Innermost.entry, operands)
       /\ Includes("timesConsumes") \/ StatesOutside = Innermost.states
       /\ \/ Includes("timesBorrows")
          \/ borrows \subseteq Innermost.borrows
          \/ \A i \in DOMAIN operands : ~IsRef(operands[i])
  /\ \A b, c \in United : b.place = c.place => b = c
  /\ borrows' = United /\ locals' = Innermost.locals /\ states' = JoinedOutside
  /\ exec' = Again(<<>>, Innermost.terms)
  /\ Resume
  /\ UNCHANGED <<verdict, operands>>

\* R12: a local of the word must not be consumed by a literal whose callee may
\* call it again; and the exit is the declared one.
TakenNever == {}   \* mutant
TakenFromWord == {n \in PolyNames : Innermost.states[n] = "live" /\ states[n] # "live"}
EndGround ==
  LET ins == [i \in DOMAIN Innermost.callee.ins |-> [Plain("make") EXCEPT !.of = Innermost.callee.ins[i].of]]
      outs == [i \in DOMAIN Innermost.callee.outs |-> Plain("consume")]
  IN /\ Ends({"ground"}) /\ TakenFromWord = {}
     /\ ExitsAgree(Innermost.callee.outs, operands)
     /\ operands' = Innermost.under /\ locals' = LocalsOutside /\ states' = StatesOutside
     /\ exec' = Again(outs, ins \o Innermost.terms \o outs)
     /\ Resume
     /\ UNCHANGED <<verdict, borrows>>
-----------------------------------------------------------------------------
\* The self-call in tail position of a word that loops: no reference among its
\* arguments, or no borrow of this body.  Nothing follows, so the end of the
\* body finds the locals as they are here.
CarriedNever == FALSE   \* mutant
Carried == borrows # {} /\ \E i \in DOMAIN operands : IsRef(operands[i])
LoopAgain ==
  /\ verdict = "walking" /\ \A i \in DOMAIN literals : literals[i].kind \in {"call", "arms"}
  /\ operands \in Inputs /\ ~Carried
  /\ UnconsumedIn(PolyNames) = {}
  /\ verdict' = "looped"
  /\ UNCHANGED <<operands, locals, states, borrows, literals, left, running, exec>>

\* The end of the body; a signature has no reference among its outputs.
PolyFinish ==
  /\ verdict = "walking" /\ Nested = 0
  /\ UnconsumedIn(PolyNames) = {} /\ \A i \in DOMAIN operands : ~IsRef(operands[i])
  /\ verdict' = "accepted"
  /\ UNCHANGED <<operands, locals, states, borrows, literals, left, running, exec>>

WalkInit ==
  /\ verdict = "walking" /\ operands \in Inputs
  /\ locals = [n \in PolyNames |-> None] /\ states = [n \in PolyNames |-> "absent"] /\ borrows = {}
  /\ literals = <<>> /\ left = PolyTerms /\ running = TRUE
  /\ exec = [vals |-> [i \in DOMAIN operands |-> Value(operands[i], i, None)],
          env |-> [n \in PolyNames |-> None], spent |-> {}, wrong |-> {},
          alive |-> {i \in DOMAIN operands : operands[i] = Own("lin")}]

Walk ==
  \/ PolyTerm
  \/ OpenCall \/ OpenIf \/ OpenTimes \/ OpenEliminator \/ OpenGround
  \/ EndCall \/ SecondArm \/ EndArms \/ EndGround
  \/ LoopAgain \/ PolyFinish

PolySpec == WalkInit /\ [][Walk]_polyVars
-----------------------------------------------------------------------------
\* A linear value is in one place until it is disposed of, and only once;
\* a body that is accepted, or that loops, has the others on its stack.
LinearOnce ==
  /\ "twice" \notin exec.wrong
  /\ verdict # "walking" /\ running => exec.alive \subseteq {v.at : v \in Values(exec)}

\* No reference outlives the value it points to, two references borrowed from
\* one local are shared ones, none of this body's is carried into the next
\* turn of the word's loop; and as prune_dead_borrows claims of itself, the
\* borrow behind a reference in use is never forgotten.
BorrowsKnown ==
  running /\ verdict = "walking" =>
    \A v \in {w \in Values(exec) : IsRef(w.slot) /\ w.from # None} :
      [place |-> v.from, mutable |-> v.slot.kind = "mut"] \in borrows
ReferencesSound ==
  /\ exec.wrong \cap {"dangling", "overlap"} = {}
  /\ verdict = "looped" /\ running => \A v \in Values(exec) : IsRef(v.slot) => v.from = None
  /\ BorrowsKnown
=============================================================================
