---------------------------- MODULE MCAfterWalk ----------------------------
(* What follows the walk of the bodies, in seven parts.  The two graphs of   *)
(* drop_graph.rs, each over every module of three words: tail calls, over    *)
(* three plain names and a builtin one (TailCycles); dropVars, over two   *)
(* structs and a cell, with bodies that mention two things (DropGraph).  And *)
(* what the lowering makes of accepted programs: the splice of a             *)
(* combinator's call (LoopSplice), the destructors of small groups of types  *)
(* (Destructors), the loops of a word (LoopBuilder), which instance a        *)
(* spliced call means (SpliceCounters), and integers in the registers of the *)
(* backend, in miniature: widths of 1 and 2 below a word of 4 and a long of  *)
(* 8 (NarrowIntegers).                                                       *)
EXTENDS TailCycles, DropGraph, LoopSplice, TLC

CONSTANTS
  Parts,     \* the parts this run looks at
  Decls, MaxNode
VARIABLES
  part,
  decl, frames, mem, variant, alive, fault,
  kinds, code, goes, cur, header, home, slots, edges, saved, scope, waiting, forks, carries,
  at, store, truth, ran, again,
  text, walking, word, agenda, uid, open, inside, records, insts, values, meant,
  held, lowered, reg, val
-----------------------------------------------------------------------------
\* Plain names are alike: of the modules that differ in them only, the one
\* where words are named 1, 2, ... in turn, and call no name without a word.
NamedInTurn ==
  /\ \A w \in Words : name[w] \notin {1, Drop} => \E v \in 1..w - 1 : name[v] = name[w] - 1
  /\ \A w \in Words : \A n \in calls[w] : n # Drop => \E v \in Words : name[v] = n
-----------------------------------------------------------------------------
MCMentions == {<<ns, ts>> \in (SUBSET Labels) \X (SUBSET Types) : Cardinality(ns) + Cardinality(ts) <= 2}
\* 3 is an owned cell: only it may close a circle of types.
MCLayouts == {{}, {<<3, 1>>}, {<<3, 1>>, <<2, 3>>}, {<<1, 3>>, <<3, 1>>}, {<<2, 1>>, <<2, 3>>, <<3, 2>>}}
\* The destructors come first; which word comes last matters among helpers.
MCOverrides == {<<1>>, <<1, 2>>}
-----------------------------------------------------------------------------
MCSlots == {"p", "q"}
MCLines == {<< >>} \cup {<<t>> : t \in MCSlots \cup {"self"}}
             \cup {<<s, t>> : s \in MCSlots \cup {"self"}, t \in MCSlots \cup {"self"}}
MCShortLines == {line \in MCLines : Len(line) <= 1}
MCBodies == [pre : MCShortLines, then : MCLines, else : MCLines, post : MCShortLines]

\* the bodies that do not loop, and the loops that call no literal in tail
\* position, as `times' and `while' do
MCBodiesNoLoopingArm == {b \in MCBodies : ~LoopingArm(b)}
-----------------------------------------------------------------------------
Struct(types) == [kind |-> "struct", own |-> FALSE, variants |-> <<types>>]
Owned(types) == [Struct(types) EXCEPT !.own = TRUE]
Enum(variants) == [kind |-> "enum", own |-> FALSE, variants |-> variants]
Cell(type) == [kind |-> "cell", own |-> FALSE, variants |-> <<<<type>>>>]
Array(elements) == [kind |-> "array", own |-> FALSE, variants |-> <<elements>>]
Num == [kind |-> "plain", own |-> FALSE, variants |-> <<>>]
Resource == "R" :> Owned(<<>>)

\* One declaration for each feature of a route: a list, one of arrays, a
\* tree, a struct with two cells in a row and a cell beside, a route past
\* another, one through a destructor of the user's own, a route in place, and
\* two routes of one variant.
Features == {
  "L" :> Enum(<<<<>>, <<"R", "cL">>>>) @@ "cL" :> Cell("L"),
  "L" :> Enum(<<<<>>, <<"a", "cL">>>>) @@ "cL" :> Cell("L") @@ "a" :> Array(<<"R", "R">>),
  "T" :> Enum(<<<<>>, <<"cT", "R", "cT">>>>) @@ "cT" :> Cell("T"),
  "A" :> Enum(<<<<"n">>, <<"W">>>>) @@ "W" :> Struct(<<"R", "ccA", "n">>)
    @@ "ccA" :> Cell("cA") @@ "cA" :> Cell("A") @@ "n" :> Cell("i") @@ "i" :> Num,
  "A" :> Enum(<<<<>>, <<"cA", "R">>, <<"cW">>>>) @@ "W" :> Struct(<<"cA", "R">>) @@ "cA" :> Cell("A") @@ "cW" :> Cell("W"),
  "A" :> Enum(<<<<>>, <<"cO">>>>) @@ "O" :> Owned(<<"cA">>) @@ "cO" :> Cell("O") @@ "cA" :> Cell("A"),
  "E" :> Enum(<<<<>>, <<"S">>>>) @@ "S" :> Struct(<<"cE", "R">>) @@ "cE" :> Cell("E"),
  "A" :> Enum(<<<<>>, <<"cA", "cW">>>>) @@ "W" :> Struct(<<"cA", "R">>) @@ "cA" :> Cell("A") @@ "cW" :> Cell("W")}

\* Every enum A and struct B over cells of each other, up to a size.
UpTo(n, S) == UNION {[1..k -> S] : k \in 1..n}
Payloads == {<<v>> : v \in UpTo(2, {"cA", "cB", "B", "R"})}
              \cup {<<v, w>> : v \in UpTo(2, {"cA", "cB", "B"}), w \in UpTo(1, {"cA", "cB", "B"})}
Pairs == {"A" :> Enum(<<<<>>>> \o payloads) @@ "B" :> b @@ "cA" :> Cell("A") @@ "cB" :> Cell("B") :
            payloads \in Payloads,
            b \in {Struct(fs) : fs \in UpTo(2, {"cA", "R"})} \cup {Owned(fs) : fs \in {<<>>, <<"cA">>, <<"R">>}}}
MCDecls == {Resource @@ d : d \in Features \cup Pairs}

\* Two enums that each contain both.
MCInterlocked == {"A" :> Enum(<<<<>>, <<"cA">>, <<"cB">>>>) @@ "B" :> Enum(<<<<"cA">>, <<"cB">>>>)
                    @@ "cA" :> Cell("A") @@ "cB" :> Cell("B")}

D == INSTANCE Destructors
drops == <<decl, frames, mem, variant, alive, fault>>
-----------------------------------------------------------------------------
MCInputs == {<<"aggregate", "aggregate">>, <<"scalar", "scalar">>, <<"phantom", "aggregate">>}
L == INSTANCE LoopBuilder WITH Kinds <- MCInputs, MaxLoops <- 2, MaxForks <- 2, MaxValues <- 9
loops == <<kinds, code, goes, cur, header, home, slots, edges, saved, scope, waiting, forks, carries,
           at, store, truth, ran, again>>
-----------------------------------------------------------------------------
Part(op, callee, place) == [op |-> op, name |-> callee, place |-> place]
MCCombinators ==
  [one |-> <<Part("generic", "", 1)>>,
   around |-> <<Part("arg", "", 0), Part("generic", "", 2), Part("arg", "", 0)>>,
   nest |-> <<Part("splice", "around", 0), Part("generic", "", 3)>>,
   keep |-> <<Part("give", "", 4)>>]

\* The first word is one call; it may be inline and the member of a trait,
\* which the second word, of two, calls.  A literal holds one call.
Item(op, callee, place, ty, lit) == [op |-> op, name |-> callee, place |-> place, ty |-> ty, lit |-> lit]
Generic(p, ty) == Item("generic", "", p, ty, <<>>)
Spliced(c, ty, lit) == Item("splice", c, 0, ty, lit)
Bare(p) == {Generic(p, "A")} \cup {Spliced(c, ty, <<>>) : c \in DOMAIN MCCombinators, ty \in {"A", "B"}}
Lits(p) == {<<>>} \cup {<<item>> : item \in Bare(p)}
Given(p) == {Spliced(c, "A", lit) : c \in {"around", "nest"}, lit \in Lits(p)}
Stored(p) == {Item("give", "", 0, "", lit) :
                lit \in IF "valueSplices" \in Shapes THEN Lits(p) ELSE {<<>>, <<Generic(p, "A")>>}}
Single(p) == Bare(p) \cup Given(p) \cup Stored(p)
Lasting(p) == {Generic(p, "B"), Spliced("one", "B", <<>>), Spliced("keep", "A", <<>>),
               Spliced("nest", "B", <<Spliced("one", "B", <<>>)>>)}
Member == Item("member", "", 1, "", <<>>)
MCTexts == {<<<<a>>, <<b, c>>>> : a \in Single(10), b \in Single(20), c \in Lasting(21)}
             \cup {<<<<a>>, <<Member, c>>>> : a \in Bare(10) \cup Given(10), c \in Lasting(21)}

C == INSTANCE SpliceCounters WITH
  Combinators <- MCCombinators, Texts <- MCTexts, Stride <- 50, UidSpace <- 100, phase <- walking
counters == <<text, walking, word, agenda, uid, open, inside, records, insts, values, meant>>
-----------------------------------------------------------------------------
I == INSTANCE NarrowIntegers WITH SubWords <- {1, 2}, Word <- 4, Long <- 8, Near <- 2, Forms <- Shapes, type <- held
-----------------------------------------------------------------------------
GraphIdle == /\ label = <<>> /\ override = <<>> /\ mentions = <<>> /\ generic = {} /\ fields = {}
            /\ stage = "search" /\ target = 0 /\ visited = {} /\ chain = <<>> /\ rest = <<>> /\ active = <<>>
TailIdle == name = <<>> /\ calls = <<>> /\ overloads = {} /\ AtRest
SpliceIdle == /\ body = <<>> /\ inline = FALSE /\ lits = <<>> /\ status = "rejected" /\ moves = "live"
              /\ pending = <<>> /\ turns = 0 /\ runs = <<>> /\ disposed = 0
DropsIdle == decl = <<>> /\ frames = <<>> /\ mem = <<>> /\ variant = <<>> /\ alive = {} /\ fault = FALSE
LoopsIdle == /\ kinds = <<>> /\ code = <<>> /\ goes = <<>> /\ cur = 0
             /\ header = 0 /\ home = 0 /\ slots = <<>> /\ edges = {} /\ saved = <<>>
             /\ scope = {} /\ waiting = <<>> /\ forks = 0 /\ carries = <<>>
             /\ at = 0 /\ store = <<>> /\ truth = <<>> /\ ran = {} /\ again = FALSE
CountersIdle == /\ text = <<>> /\ walking = "done" /\ word = 1 /\ agenda = <<>> /\ uid = 0 /\ open = None
                /\ inside = FALSE /\ records = <<>> /\ insts = <<>> /\ values = <<>> /\ meant = <<"", "">>
IntegersIdle == held = I!Bool /\ lowered = I!Bool /\ reg = 0 /\ val = 0

IdleBut(p) ==
  /\ p # "tail" => TailIdle
  /\ p # "graph" => GraphIdle
  /\ p # "splice" => SpliceIdle
  /\ p # "drops" => DropsIdle
  /\ p # "loops" => LoopsIdle
  /\ p # "counters" => CountersIdle
  /\ p # "integers" => IntegersIdle
MCInit == /\ part \in Parts
          /\ \/ part = "tail" /\ Init /\ NamedInTurn
             \/ part = "graph" /\ DropInit
             \/ part = "splice" /\ SpliceInit
             \/ part = "drops" /\ D!DisposalInit
             \/ part = "loops" /\ L!LoopInit
             \/ part = "counters" /\ C!CountersInit
             \/ part = "integers" /\ I!IntegerInit
          /\ IdleBut(part)
integers == <<held, lowered, reg, val>>
MCNext == /\ UNCHANGED part
          /\ \/ part = "tail" /\ Next /\ UNCHANGED <<dropVars, spliceVars, drops, loops, counters, integers>>
             \/ part = "graph" /\ DropNext /\ UNCHANGED <<vars, spliceVars, drops, loops, counters, integers>>
             \/ part = "splice" /\ SpliceNext /\ UNCHANGED <<vars, dropVars, drops, loops, counters, integers>>
             \/ part = "drops" /\ D!DisposalNext /\ UNCHANGED <<vars, dropVars, spliceVars, loops, counters, integers>>
             \/ part = "loops" /\ L!LoopNext /\ UNCHANGED <<vars, dropVars, spliceVars, drops, counters, integers>>
             \/ part = "counters" /\ C!CountersNext /\ UNCHANGED <<vars, dropVars, spliceVars, drops, loops, integers>>
             \/ part = "integers" /\ I!IntegerNext /\ UNCHANGED <<vars, dropVars, spliceVars, drops, loops, counters>>
MCSpec == MCInit /\ [][MCNext]_<<part, vars, dropVars, spliceVars, drops, loops, counters, integers>>

DisposedExactlyOnce == D!DisposedExactlyOnce
ConstantStack == D!ConstantStack
CarriedAtOnce == L!CarriedAtOnce
RightInstance == C!RightInstance
RegisterHoldsValue == I!RegisterHoldsValue
=============================================================================
