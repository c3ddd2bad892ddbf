----------------------------- MODULE DropGraph -----------------------------
(* The rejection of destructors that can reach themselves                    *)
(* (check/drop_graph.rs, check_drop_overload_recursion): the graph of calls  *)
(* and of the destructors a `drop` runs, and the search from each destructor *)
(* for a way back to it.  Beside the check the module runs what was accepted,*)
(* as far as which words are active at once.                                 *)
(*                                                                           *)
(* What the bodies of the words say is an input.  A type is a number, in the *)
(* order of its StructId; a type that nothing disposes (is_copy) is left out *)
(* of fields and of drop sites.                                              *)
EXTENDS Naturals, Sequences, FiniteSets

CONSTANTS
  AllWords,     \* 1..n, in source order
  Types,        \* 1..n
  Labels,
  Overrides,    \* bound: the values of `override`
  Mentionable,  \* bound: what a body may mention, as <<labels, types>>
  Layouts,      \* bound: the field relations considered, each a set of <<type, field>>
  Shapes        \* the shapes below that may occur

ASSUME DropGraphAssumption ==
  /\ AllWords \subseteq Nat
  /\ Types \subseteq Nat \ {0} /\ IsFiniteSet(Types)
  /\ \A overrides \in Overrides : DOMAIN overrides \subseteq Types /\ overrides \in [DOMAIN overrides -> AllWords]
  /\ Mentionable \subseteq (SUBSET Labels) \X (SUBSET Types)
  /\ Layouts \subseteq SUBSET (Types \X Types)

VARIABLES
  label,      \* word -> its name; a destructor has none a call can mean
  override,   \* overloads: overridden struct -> the word of its destructor
  mentions,   \* word -> <<the names its body mentions, the types it drops>>
  generic,    \* the words with type variables that are lowered per instance
  fields,
  stage,      \* "search", "refused", "accepted"
  target,     \* the struct whose destructor the search is from
  visited, chain,
  rest,       \* for each word of chain, the successors its loop has not come to
  active      \* the words that are running, the first called first

declared == <<label, override, mentions, generic, fields>>
looking == <<target, visited, chain, rest>>
dropVars == <<declared, stage, looking, active>>

Destructors == {override[t] : t \in DOMAIN override}
Fields(t) == {p[2] : p \in {q \in fields : q[1] = t}}
-----------------------------------------------------------------------------
(* drop_reachability_graph.                                                  *)

\* collect_drop_targets: a type without a destructor of its own leads to its
\* fields.  `todo` are the calls still to be made, each of a type not seen yet.
BelowPast(t) == Fields(t)   \* mutant: the walk goes on below an overridden struct
Below(t) == IF t \in DOMAIN override THEN {} ELSE Fields(t)
Called(c) ==
  IF c.todo = {} THEN c
  ELSE LET t == CHOOSE u \in c.todo : TRUE
       IN [seen |-> c.seen \cup {t}, todo |-> (c.todo \cup Below(t)) \ (c.seen \cup {t})]
Collection(t) ==
  LET collect[n \in 0..Cardinality(Types)] ==
        IF n = 0 THEN [seen |-> {}, todo |-> {t}] ELSE Called(collect[n - 1])
  IN collect
Collected(t) == Collection(t)[Cardinality(Types)].seen

DropTargets(t) == {override[u] : u \in Collected(t) \cap DOMAIN override}

\* name_to_idx: of several words of one name the last.
Callee(n) == {w \in AllWords \ Destructors : label[w] = n /\ \A v \in AllWords \ Destructors : label[v] = n => v <= w}

\* dropped: check.rs walks a generic body elsewhere and records none of its sites.
Recorded(w) == IF w \in generic THEN {} ELSE mentions[w][2]

Reaches(w) == (UNION {Callee(n) : n \in mentions[w][1]}) \cup UNION {DropTargets(t) : t \in Recorded(w)}
-----------------------------------------------------------------------------
(* check_drop_overload_recursion, reaches_start.                             *)

Start == override[target]
Here == Len(chain)
MarkedStill == visited \cup {override[target']}   \* mutant: the marks of the last search stay
Marked == {override[target']}
NextTarget ==
  /\ stage = "search" /\ chain = <<>>
  /\ target' \in DOMAIN override /\ target' > target
  /\ \A t \in DOMAIN override : t > target => target' <= t
  /\ visited' = Marked /\ chain' = <<override[target']>> /\ rest' = <<Reaches(override[target'])>>
  /\ UNCHANGED <<declared, stage, active>>

Accept ==
  /\ stage = "search" /\ chain = <<>> /\ \A t \in DOMAIN override : t <= target
  /\ stage' = "accepted" /\ UNCHANGED <<declared, looking, active>>

Reached ==
  /\ stage = "search" /\ chain # <<>> /\ Start \in rest[Here]
  /\ stage' = "refused" /\ UNCHANGED <<declared, looking, active>>

Deeper == \E v \in rest[Here] \ {Start} :
  /\ v \notin visited
  /\ visited' = visited \cup {v} /\ chain' = Append(chain, v)
  /\ rest' = Append([rest EXCEPT ![Here] = @ \ {v}], Reaches(v))

PassOver == \E v \in (rest[Here] \ {Start}) \cap visited :
  rest' = [rest EXCEPT ![Here] = @ \ {v}] /\ UNCHANGED <<visited, chain>>

Leave ==
  /\ rest[Here] = {}
  /\ chain' = SubSeq(chain, 1, Here - 1) /\ rest' = SubSeq(rest, 1, Here - 1) /\ UNCHANGED visited

Look ==
  /\ stage = "search" /\ chain # <<>> /\ (Deeper \/ PassOver \/ Leave)
  /\ UNCHANGED <<declared, stage, target, active>>
-----------------------------------------------------------------------------
(* What runs.  A call of an overloaded name runs the word its operands pick, *)
(* `drop` of an overridden struct its destructor, `drop` of another type the *)
(* glue that disposes its fields.  A return leads to a chain of active words *)
(* that was there before.                                                    *)

Paths(t) == {p \in UNION {[1..n -> Types] : n \in 1..Cardinality(Types)} :
  p[1] = t /\ \A k \in 1..Len(p) - 1 : p[k + 1] \in Fields(p[k]) /\ p[k] \notin DOMAIN override}
Disposes(t) == {override[p[Len(p)]] : p \in {q \in Paths(t) : q[Len(q)] \in DOMAIN override}}
Runs(w) == {v \in AllWords \ Destructors : label[v] \in mentions[w][1]}
           \cup UNION {Disposes(t) : t \in mentions[w][2]}

Dispose == \E w \in Destructors : active = <<>> /\ active' = <<w>>
Activate == \E w \in Runs(active[Len(active)]) : active' = Append(active, w)
Run ==
  /\ stage = "accepted" /\ Len(active) <= Cardinality(AllWords)
  /\ (IF active = <<>> THEN Dispose ELSE Activate)
  /\ UNCHANGED <<declared, stage, looking>>
-----------------------------------------------------------------------------
Has(shape) == shape \in Shapes

DropInit ==
  /\ override \in Overrides
  /\ label \in [AllWords \ Destructors -> Labels]
  /\ \A v, w \in AllWords \ Destructors : label[v] = label[w] => v = w \/ Has("overloadedHelper")
  /\ mentions \in [AllWords -> Mentionable]
  /\ generic \in SUBSET (AllWords \ Destructors)
  /\ \A w \in generic : mentions[w][2] = {} \/ Has("genericHelper")
  /\ fields \in Layouts
  /\ stage = "search" /\ target = 0 /\ visited = {} /\ chain = <<>> /\ rest = <<>> /\ active = <<>>

DropNext == NextTarget \/ Accept \/ Reached \/ Look \/ Run
DropSpec == DropInit /\ [][DropNext]_dropVars
-----------------------------------------------------------------------------
DropTypeOK ==
  /\ stage \in {"search", "refused", "accepted"} /\ visited \subseteq AllWords
  /\ chain \in Seq(AllWords) /\ Len(rest) = Len(chain) /\ active \in Seq(AllWords)

\* No destructor of an accepted module is running twice at once: "a `drop`
\* body cannot dispose its own receiver, directly or through any chain of
\* calls", which is run-time recursion without end.
NoDestructorReenters ==
  \A i, j \in 1..Len(active) : i # j /\ active[i] = active[j] => active[i] \notin Destructors

\* A module is refused for a destructor only if its words do mention each
\* other all the way round, however the helpers are shared.
RefusedForACircle ==
  stage = "refused" =>
    /\ \A k \in 1..Len(chain) - 1 : chain[k + 1] \in Runs(chain[k])
    /\ chain[1] \in Runs(chain[Here])
=============================================================================
