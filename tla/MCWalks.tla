------------------------------ MODULE MCWalks ------------------------------
(* Three walks of bodies, each beside an execution of the body: of an        *)
(* ordinary word, with two locals, conditionals and eliminators of up to two *)
(* arms (LinearWalk); of a generic one, with literals and references         *)
(* (PolyWalk); and of a word that makes closures (Captures).                 *)
EXTENDS LinearWalk, Captures, PolyWalk, TLC

CONSTANT Parts   \* the walks this run looks at
VARIABLE part

NameSymmetry == Permutations(Names)
-----------------------------------------------------------------------------
\* a word without inputs, and one that passes a resource on
MCEffects ==
  {[ins |-> << >>, outs |-> << >>],
   [ins |-> <<"copy", "linear">>, outs |-> <<"linear">>]}
-----------------------------------------------------------------------------
\* A generic word is given a linear value, a Copy one or a mutable reference;
\* the literals it passes on take a linear value or nothing.
Owned(of) == [kind |-> "own", of |-> of]
MCInputs == {<<Owned("lin")>>, <<Owned("agg")>>, <<[kind |-> "mut", of |-> "agg"]>>}
MCCallees == {[ins |-> << >>, outs |-> << >>], [ins |-> <<Owned("lin")>>, outs |-> << >>]}
-----------------------------------------------------------------------------
MCLiterals ==
  {l \in [reads : SUBSET Locals, eats : SUBSET Locals, scalar : BOOLEAN] :
     l.reads \cap l.eats = {} /\ Cardinality(l.reads \cup l.eats) <= 2}
-----------------------------------------------------------------------------
LinearIdle ==
  /\ status = "rejected" /\ mode = "run" /\ effect = [ins |-> << >>, outs |-> << >>]
  /\ level = [n \in Names |-> 0] /\ moves = NoMoves /\ env = [n \in Names |-> 0]
  /\ frames = << >> /\ stack = << >> /\ vals = << >> /\ alive = {} /\ made = 0 /\ skipped = 0
  /\ tailed = FALSE /\ fault = FALSE
PolyIdle ==
  /\ verdict = "idle" /\ operands = << >> /\ locals = << >> /\ states = << >> /\ borrows = {} /\ literals = << >>
  /\ left = 0 /\ running = FALSE /\ exec = [wrong |-> {}]
CapturesIdle ==
  /\ slots = << >> /\ bound = << >> /\ done = {} /\ moved = {} /\ granted = {} /\ branch = << >> /\ terms = 0
  /\ phase = "idle" /\ held = << >> /\ places = << >> /\ heap = << >> /\ gone = {} /\ taken = FALSE

MCInit == /\ part \in Parts
          /\ \/ part = "linear" /\ Init /\ PolyIdle /\ CapturesIdle
             \/ part = "poly" /\ WalkInit /\ LinearIdle /\ CapturesIdle
             \/ part = "closures" /\ CapturesInit /\ LinearIdle /\ PolyIdle
MCNext == /\ UNCHANGED part
          /\ \/ part = "linear" /\ Next /\ UNCHANGED <<polyVars, closures>>
             \/ part = "poly" /\ Walk /\ UNCHANGED <<vars, closures>>
             \/ part = "closures" /\ CapturesNext /\ UNCHANGED <<vars, polyVars>>
MCSpec == MCInit /\ [][MCNext]_<<part, vars, polyVars, closures>>

=============================================================================
