----------------------------- MODULE Ownership -----------------------------
(***************************************************************************)
(* What the linear discipline promises of one execution, whatever carries  *)
(* it out: a resource is created once, is in the hands of the execution as *)
(* long as it exists, is disposed of once and does not come back; an       *)
(* execution that returns delivers all that is left.                       *)
(***************************************************************************)
VARIABLES
  alive,      \* the resources that exist
  held,       \* the resources the execution can still reach
  spent,      \* the resources disposed of
  delivered,  \* what the caller finds in the declared outputs
  returned

vars == <<alive, held, spent, delivered, returned>>

Init ==
  /\ held = alive
  /\ alive \cap spent = {}
  /\ delivered = {}
  /\ returned = FALSE

Acquire == \E r \in alive' :
  /\ r \notin alive \cup spent
  /\ alive' = alive \cup {r} /\ held' = held \cup {r}
  /\ UNCHANGED <<spent, delivered>>

Dispose == \E r \in alive :
  /\ alive' = alive \ {r} /\ held' = held \ {r} /\ spent' = spent \cup {r}
  /\ UNCHANGED delivered

Return ==
  /\ returned' = TRUE
  /\ delivered' = held
  /\ UNCHANGED <<alive, held, spent>>

Next ==
  /\ ~returned
  /\ \/ (Acquire \/ Dispose) /\ UNCHANGED returned
     \/ Return

Spec == Init /\ [][Next]_vars
=============================================================================
