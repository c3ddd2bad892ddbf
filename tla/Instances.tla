----------------------------- MODULE Instances -----------------------------
(* Which instances of generic words a program needs (check/poly): the calls   *)
(* a concrete body makes, the calls a generic body records symbolically and  *)
(* has grounded once its own type is known, and the member words of generic  *)
(* impls that trait calls turn out to mean.  The work list that finds them   *)
(* all runs at check time; the lowering only looks symbols up.  A word has   *)
(* one type variable; an instance is a word at a ground type, and stands for *)
(* the symbol minted from them.                                              *)
EXTENDS Naturals, FiniteSets, FiniteSetsExt

CONSTANTS
  Plain,      \* the generic words that are not members of an impl
  Bases,      \* the types that are not applications of the constructor Box
  MaxDepth,   \* how deep types nest before the model stops following them
  Calls,      \* the calls of generic words that generic bodies may make
  MaxCalls,   \* of them in one program
  Inlines,    \* the words that may be inline
  Impls,      \* the sets of impls of the trait considered
  Asks,       \* the instances the concrete bodies of a program may call
  MaxAsks,
  Slots       \* {} or {"built"}: operands of a constructor's member that the body built

\* The member words of the generic impls: of one trait for 'T and for
\* Box['T], and of a trait over constructors for Box itself.
Members == {"any", "box", "opt"}
Words == Plain \cup Members
Types == Bases \X (0..MaxDepth)
Instances == Words \X Types
\* What a recorded call supplies: the caller's variable ("var" at depth 0), a
\* type the caller built over it, or a ground type.
Supplied == (Bases \cup {"var"}) \X (0..MaxDepth)

ASSUME InstancesAssumption ==
  /\ Plain \cap Members = {} /\ {"var", "box", "any"} \cap Bases = {}   \* names are names of one thing
  /\ MaxDepth \in Nat /\ MaxCalls \in Nat /\ MaxAsks \in Nat
  /\ Calls \subseteq Words \X Plain \X Supplied /\ Inlines \subseteq Plain
  /\ Asks \subseteq Instances /\ Slots \subseteq {"built"}

VARIABLES
  calls,      \* word -> the generic words its body calls, with what it supplies
  bounded,    \* the words that declare 'T: the trait
  obliges,    \* those whose bodies call its member on 'T
  arrow,      \* word -> "no", or the operand its body gives the constructor's member
  inline,     \* the words that are spliced into their callers
  impls,      \* the impls of the trait: a base, "box" or "any"
  stage,
  main,       \* the instances that the concrete bodies call
  asked,      \* the calls in concrete bodies that are still to be checked, with where they stand
  work,       \* what the loop of the stage has still to look at
  insts, splices, monos,              \* as the walk of the concrete bodies left them
  seen, frontier, next, discovered,   \* the locals of fixpoint
  transitive

generics == <<calls, bounded, obliges, arrow, inline, impls, main>>
recorded == <<insts, splices, monos>>
discovery == <<generics, stage, asked, work, recorded, seen, frontier, next, discovered, transitive>>

\* The bounds a word declares on a variable of its own.
UserBounded(w) == w \in bounded \/ arrow[w] # "no"
\* A combinator without a user bound is not walked on its own: what it
\* calls is not recorded.
Walked(w) == w \in inline => UserBounded(w)

\* The refusals of poly_cross_match and poly_cross_call: a call may not grow the
\* caller's variable, and a bound on it must be declared by the caller too.
BoundsTransfer(w, v) == (v \in bounded => w \in bounded) /\ (arrow[v] # "no" => w = "opt" \/ arrow[w] # "no")
GrowsToo(w) == \A c \in calls[w] : c[2][1] = "var" => BoundsTransfer(w, c[1]) \* mutant: growth is let through
Lawful(w) == \A c \in calls[w] : c[2][1] = "var" => c[2][2] = 0 /\ BoundsTransfer(w, c[1])

\* find_bound_impl: the candidates whose patterns match and whose own bounds
\* hold, the most specific one of them.
Shows(known, asking, t) ==
  LET shown[d \in 0..t[2]] ==
        \/ "any" \in known
        \/ IF d = 0 THEN t[1] \in known
           ELSE "box" \in known /\ ("box" \in asking => shown[d - 1])
  IN shown[t[2]]
Implemented(t) == Shows(impls, bounded, t)
Winner(t) ==
  CASE t[2] = 0 /\ t[1] \in impls -> t[1]
    [] t[2] > 0 /\ "box" \in impls /\ ("box" \in bounded => Implemented(<<t[1], t[2] - 1>>)) -> "box"
    [] OTHER -> "any"
\* An impl for 'T that asks for the trait of 'T is a cycle wherever it is a candidate.
Cyclic == "any" \in impls /\ "any" \in bounded
Satisfied(i) == i[1] \in bounded => Implemented(i[2]) /\ ~Cyclic

\* resolve_user_bound: the member instances the trait calls of a body mean. A
\* concrete impl's member is an ordinary word and needs none.
Dispatched(t) ==
  CASE Winner(t) = "box" -> {<<"box", <<t[1], t[2] - 1>>>>}
    [] Winner(t) = "any" -> {<<"any", t>>}
    [] OTHER -> {}
Resolved(i) ==
  (IF i[1] \in obliges THEN Dispatched(i[2]) ELSE {}) \cup
  CASE arrow[i[1]] = "own" -> {<<"opt", i[2]>>}
    [] arrow[i[1]] = "built" -> {<<"opt", <<i[2][1], i[2][2] + 1>>>>}
    [] OTHER -> {}

\* cross_calls_of and compose: the recorded calls of a body at its type.
Ground(s, t) == IF s[1] = "var" THEN <<t[1], t[2] + s[2]>> ELSE s
BodyCalls(i) == {<<c[1], Ground(c[2], i[2])>> : c \in calls[i[1]]}
RoutedFolded(i) == {j \in BodyCalls(i) : j[1] \notin inline} \* mutant: a bounded inline word is spliced too
Routed(i) == {j \in BodyCalls(i) : Walked(j[1])}
\* What is spliced may call no generic word: nothing recorded what it calls.
Spliceable(i) == \A j \in BodyCalls(i) : ~Walked(j[1]) => calls[j[1]] = {}
ComposesUnbounded(i) == Spliceable(i) \* mutant: the bounds were checked at the call's own site
Composes(i) == Spliceable(i) /\ \A j \in Routed(i) : Satisfied(j)
MembersOf(S) == UNION {Resolved(j) : j \in S}
-----------------------------------------------------------------------------
\* A splice that ends: LoopSplice and CycleSearch have the check.
SplicesEnd == \A S \in SUBSET inline : S # {} => \E w \in S : \A c \in calls[w] : c[1] \notin S

InstancesInit ==
  /\ \E n \in 0..MaxCalls : \E C \in kSubset(n, Calls) :
       calls = [w \in Words |-> {<<c[2], c[3]>> : c \in {d \in C : d[1] = w}}]
  /\ inline \in SUBSET Inlines /\ SplicesEnd
  /\ \E w \in Plain, s \in {"no", "own"} \cup Slots : arrow = [v \in Words |-> IF v = w THEN s ELSE "no"]
  /\ bounded \in SUBSET (Words \ {"opt"})
  /\ \A w \in Words : Walked(w) => Lawful(w)
  /\ obliges \in {O \in SUBSET bounded : bounded \ O \subseteq Plain \cup {"any"} /\ "any" \notin O}
  /\ impls \in Impls
  /\ main \in {A \in SUBSET Asks : Cardinality(A) \in 1..MaxAsks}
  /\ asked = {<<"plain", i>> : i \in main} /\ stage = "check" /\ work = {} /\ insts = {} /\ splices = {} /\ monos = {}
  /\ seen = {} /\ frontier = {} /\ next = {} /\ discovered = {} /\ transitive = {}

RefuseProgram == stage' = "refused" /\ UNCHANGED <<generics, asked, work, recorded, seen, frontier, next, discovered, transitive>>

\* A call of a generic word in a concrete body, or in a body spliced into one
\* (check_poly_call): its bounds are resolved, and it is recorded by where it stands.
RecordCall(c) ==
  /\ stage = "check" /\ c \in asked /\ c[2][1] \notin inline
  /\ IF ~Satisfied(c[2]) THEN RefuseProgram
     ELSE /\ asked' = asked \ {c}
          /\ insts' = IF c[1] = "plain" THEN insts \cup {c[2]} ELSE insts
          /\ splices' = IF c[1] = "splice" THEN splices \cup {c[2]} ELSE splices
          /\ monos' = monos \cup Resolved(c[2])
          /\ UNCHANGED <<generics, stage, work, seen, frontier, next, discovered, transitive>>

\* A call of an inline word (inline_combinator): its body is walked in place, at
\* the types of the call, its trait calls as calls of the member words they mean.
SpliceCall(c) ==
  /\ stage = "check" /\ c \in asked /\ c[2][1] \in inline
  /\ IF ~Satisfied(c[2]) THEN RefuseProgram
     ELSE /\ asked' = (asked \ {c}) \cup {<<"splice", j>> : j \in BodyCalls(c[2]) \cup Resolved(c[2])}
          /\ UNCHANGED <<generics, stage, work, recorded, seen, frontier, next, discovered, transitive>>

\* What the fixpoint has seen when it starts: not what splices recorded, which has
\* no symbol a trait call could name.
SeededWithSplices == insts \cup splices \* mutant: as if a splice's instance were as good
Seeded == insts

\* discover_transitive_instantiations up to the fixpoint: a seed for each member
\* instance the concrete calls discovered. With no recorded call and no seed
\* there is nothing to find.
BuildSeeds ==
  /\ stage = "check" /\ asked = {}
  /\ IF \E i \in monos : ~Satisfied(i) THEN RefuseProgram
     ELSE /\ IF monos = {} /\ \A w \in Words : Walked(w) => calls[w] = {}
             THEN stage' = "done" /\ UNCHANGED <<work, seen, discovered>>
             ELSE /\ stage' = "insts" /\ work' = insts
                  /\ seen' = Seeded
                  /\ discovered' = MembersOf(monos)
          /\ UNCHANGED <<generics, asked, recorded, frontier, next, transitive>>

\* What composing the calls of an instance does to the locals of the loop
\* it is part of: enqueue_new, and the member instances its callees' bounds found.
RoutesAgain(i, q) == Routed(i) \* mutant: what was seen is enqueued again
Routes(i, q) == Routed(i) \ q
Compose(i) == discovered' = discovered \cup MembersOf(Routed(i))

\* The loops over the concrete instantiations and over those of splices.
SeedFrom(i) ==
  /\ stage \in {"insts", "splices"} /\ i \in work
  /\ IF ~Composes(i) THEN RefuseProgram
     ELSE /\ Compose(i)
          /\ frontier' = frontier \cup Routes(i, seen) /\ seen' = seen \cup Routed(i)
          /\ work' = work \ {i}
          /\ UNCHANGED <<generics, asked, stage, recorded, next, transitive>>
NextSeeds ==
  /\ stage \in {"insts", "splices", "extra"} /\ work = {}
  /\ CASE stage = "insts" -> stage' = "splices" /\ work' = splices
       [] stage = "splices" -> stage' = "extra" /\ work' = monos
       [] OTHER -> stage' = "work" /\ UNCHANGED work
  /\ UNCHANGED <<generics, asked, recorded, seen, frontier, next, discovered, transitive>>

\* The loop over the seeds.
Extra(i) ==
  /\ stage = "extra" /\ i \in work
  /\ IF i \in seen THEN work' = work \ {i} /\ UNCHANGED <<generics, asked, stage, recorded, seen, frontier, next, discovered, transitive>>
     ELSE IF ~Composes(i) THEN RefuseProgram
     ELSE /\ Compose(i)
          /\ frontier' = frontier \cup Routes(i, seen \cup {i}) \cup {i}
          /\ seen' = seen \cup Routed(i) \cup {i}
          /\ work' = work \ {i}
          /\ UNCHANGED <<generics, asked, stage, recorded, next, transitive>>

\* The layers of the work list.
Work(i) ==
  /\ stage = "work" /\ i \in frontier
  /\ IF ~Composes(i) THEN RefuseProgram
     ELSE /\ Compose(i)
          /\ next' = next \cup Routes(i, seen) /\ seen' = seen \cup Routed(i)
          /\ frontier' = frontier \ {i} /\ transitive' = transitive \cup {i}
          /\ UNCHANGED <<generics, asked, stage, work, recorded>>
EndLayer ==
  /\ stage = "work" /\ frontier = {} /\ next # {}
  /\ frontier' = next /\ next' = {}
  /\ UNCHANGED <<generics, asked, stage, work, recorded, seen, discovered, transitive>>

\* When a layer finds nothing new: seeds for the member instances discovered on
\* the way, which may be new work.
TakeDiscovered ==
  /\ stage = "work" /\ frontier = {} /\ next = {}
  /\ stage' = "drain" /\ work' = discovered /\ discovered' = {}
  /\ UNCHANGED <<generics, asked, recorded, seen, frontier, next, transitive>>
Drain(i) ==
  /\ stage = "drain" /\ i \in work
  /\ IF i \in seen THEN work' = work \ {i} /\ UNCHANGED <<generics, asked, stage, recorded, seen, frontier, next, discovered, transitive>>
     ELSE IF ~Satisfied(i) THEN RefuseProgram
     ELSE /\ seen' = seen \cup {i} /\ frontier' = frontier \cup {i}
          /\ discovered' = discovered \cup Resolved(i)
          /\ work' = work \ {i}
          /\ UNCHANGED <<generics, asked, stage, recorded, next, transitive>>
EndDrain ==
  /\ stage = "drain" /\ work = {}
  /\ stage' = IF frontier = {} THEN "done" ELSE "work"
  /\ UNCHANGED <<generics, asked, work, recorded, seen, frontier, next, discovered, transitive>>

InstancesNext ==
  \/ \E c \in asked : RecordCall(c) \/ SpliceCall(c)
  \/ BuildSeeds
  \/ \E i \in work : (SeedFrom(i) \/ Extra(i) \/ Drain(i))
  \/ NextSeeds \/ EndLayer \/ TakeDiscovered \/ EndDrain
  \/ \E i \in frontier : Work(i)
InstancesSpec == InstancesInit /\ [][InstancesNext]_discovery /\ WF_discovery(InstancesNext)
-----------------------------------------------------------------------------
InstancesTypeOK ==
  /\ calls \in [Words -> SUBSET (Plain \X Supplied)] /\ arrow \in [Words -> {"no", "own"} \cup Slots]
  /\ bounded \subseteq Words /\ obliges \subseteq bounded /\ inline \subseteq Plain
  /\ stage \in {"check", "insts", "splices", "extra", "work", "drain", "done", "refused"}
  /\ asked \subseteq {"plain", "splice"} \X Instances
  /\ \A S \in {work, insts, splices, monos, seen, frontier, next, discovered, transitive} : S \subseteq Instances

\* What the lowering emits a function for, and the symbols a trait call may name.
Emitted == insts \cup splices \cup transitive
Dispatchable == insts \cup transitive

\* What an execution of the program calls, spliced or not.
Reached ==
  LET R[n \in 0..Cardinality(Words) * (MaxDepth + 1)] ==
        IF n = 0 THEN main ELSE LET S == R[n - 1] IN S \cup UNION {BodyCalls(i) \cup Resolved(i) : i \in S}
  IN R[Cardinality(Words) * (MaxDepth + 1)]

\* The functions emitted are those an execution reaches: each of them, and
\* no instance that nothing calls.
Exact == stage = "done" => Emitted \subseteq Reached /\ {i \in Reached : i[1] \notin inline} \subseteq Emitted

\* Whatever is emitted finds each symbol it calls: an instance for each routed call,
\* and for each trait call one among those the lowering has an arity for.
Lowerable == stage = "done" => \A i \in Emitted : Routed(i) \subseteq Emitted /\ Resolved(i) \subseteq Dispatchable

\* No instance is run at a type without the impl its bound asks for, though the
\* call site of a ground operand leaves the question to the composition; and a
\* program is refused for nothing else, or for a splice that nothing recorded.
BoundsHold ==
  /\ stage = "done" => \A i \in Reached : Satisfied(i)
  /\ stage = "refused" => \E i \in Reached : ~Satisfied(i) \/ ~Spliceable(i)

\* The finiteness the fixpoint relies on: an instance's type is a part of one
\* that a seed has or a recorded call names, with a constructor more for each body
\* that applies one; however often bodies call each other, types do not grow.
Pool ==
  LET written == {i[2] : i \in insts \cup splices \cup monos} \cup {c[2] : c \in UNION {calls[w] : w \in Words}}
      built == Cardinality({w \in Words : arrow[w] = "built"})
  IN UNION {{<<s[1], d>> : d \in 0..(s[2] + built)} : s \in written}
TypesFromPool == \A i \in seen \cup discovered : i[2] \in Pool

\* The work list has emptied.
WorkListEmpty == stage \in {"done", "refused"}
=============================================================================
