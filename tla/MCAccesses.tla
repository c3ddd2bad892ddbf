---------------------------- MODULE MCAccesses ----------------------------
(* What code may touch, in two parts.  The places of a body: bodies of two   *)
(* locals, of two kinds, those without a branch, over terms of every kind,   *)
(* and those with one branch, whose terms bind, name, borrow and consume     *)
(* (BorrowWalk).  The globals of a program: every module of three words and  *)
(* a static; inference is checked for all of them, clauses and execution for *)
(* those whose last word touches and calls nothing, so that two words are    *)
(* left to do so (Globals).                                                  *)
EXTENDS Globals, BorrowWalk, TLC

CONSTANT
  Parts   \* the parts this run looks at
VARIABLE
  part    \* "globals", or the kind of the body: "line", or "branch" and, when
          \* that has closed, "after"
-----------------------------------------------------------------------------
NoInputs == {<<>>}
OneBorrow == {<<>>, <<"mut">>}
Pairs == {<<"mut", "mut">>, <<"agg", "agg">>, <<"lin", "mut">>}
OneOrPair == OneBorrow \cup Pairs
Sym == Permutations(Names) \cup Permutations(Fields)

Kind == IF Len(stack) = 2 THEN "branch" ELSE "line"
Line == part = "line" /\ Straight(Terms) /\ UNCHANGED part
Branch ==
  /\ part = "branch" /\ Step({}) /\ Len(stack') <= 2
  /\ part' = IF frames # <<>> /\ frames' = <<>> THEN "after" ELSE part
After == part = "after" /\ Straight({}) /\ Len(stack') <= 2 /\ UNCHANGED part
-----------------------------------------------------------------------------
Idle(w) == direct[w] = Untouched /\ callees[w] = {}
GlobalsNext == Infer \/ (Idle(N) /\ (Check \/ Run))
-----------------------------------------------------------------------------
GlobalsIdle ==
  /\ direct = [w \in Words |-> [s \in Statics |-> "w"]] /\ sets = direct /\ callees = [w \in Words |-> {}]
  /\ exported = [w \in Words |-> FALSE] /\ clause = [w \in Words |-> None]
  /\ passes = 1 /\ i = 1 /\ changed = FALSE /\ phase = "refused" /\ calls = <<>> /\ touched = Untouched
BodyIdle ==
  /\ stack = <<>> /\ bound = [n \in Names |-> Nothing] /\ done = {} /\ moved = {} /\ granted = {} /\ frames = <<>>
  /\ left = 0 /\ vals = <<>> /\ env = bound /\ gone = {} /\ mode = "skip"

MCInit == \/ "globals" \in Parts /\ part = "globals" /\ Init /\ BodyIdle
          \/ "borrows" \in Parts /\ BorrowInit /\ part = Kind /\ GlobalsIdle
MCNext == \/ part = "globals" /\ GlobalsNext /\ UNCHANGED <<part, body>>
          \/ (Line \/ Branch \/ After) /\ UNCHANGED vars
MCSpec == MCInit /\ [][MCNext]_<<part, vars, body>>
=============================================================================
