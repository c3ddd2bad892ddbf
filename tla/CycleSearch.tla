---------------------------- MODULE CycleSearch ----------------------------
(* The depth-first search for a cycle the compiler runs on two graphs: the   *)
(* imports of a closure (driver.rs, dfs_detect) and the tail calls of a      *)
(* module (check/drop_graph.rs, find_tail_cycle).  Both colour a node when   *)
(* the search enters it and again when it leaves; they differ in what an     *)
(* edge of a node to itself is.  A module that runs the search EXTENDS this  *)
(* one, gives adj its value and takes SearchNext into its next-state         *)
(* relation.  The order of a node's successors decides only which cycle is   *)
(* reported, so they are a set.                                              *)
EXTENDS Naturals, Sequences

CONSTANT SkipSelf   \* a node's edge to itself is not a cycle
ASSUME SearchAssumption == SkipSelf \in BOOLEAN

VARIABLES
  adj,      \* the graph
  color,    \* 0 unvisited, 1 on the path, 2 done
  path,     \* the nodes of the activations of the recursive function
  todo,     \* for each activation, the successors its loop has not come to
  cycle,    \* what is reported
  verdict   \* "searching", "acyclic" or "cycle"

search == <<color, path, todo, cycle, verdict>>
searchVars == <<adj, search>>

Nodes == DOMAIN adj
Succ(u) == IF SkipSelf THEN adj[u] \ {u} ELSE adj[u]
Top == path[Len(path)]

\* The state of a search that has not begun, and the step that begins one.
AtRest ==
  /\ adj = <<>> /\ color = <<>> /\ todo = <<>>
  /\ path = <<>> /\ cycle = <<>> /\ verdict = "searching"
Begin(g) ==
  /\ adj' = g /\ color' = [u \in DOMAIN g |-> 0] /\ todo' = [u \in DOMAIN g |-> {}]
  /\ UNCHANGED <<path, cycle, verdict>>

\* A node is entered.  It counts as seen by the activation that called.
Enter(v) ==
  /\ color' = [color EXCEPT ![v] = 1]
  /\ path' = Append(path, v)
  /\ todo' = [u \in Nodes |-> IF u = v THEN Succ(v)
                              ELSE IF path # <<>> /\ u = Top THEN todo[u] \ {v} ELSE todo[u]]
  /\ UNCHANGED <<adj, cycle, verdict>>

\* The outer loop: from a node not visited yet.
StartAt == /\ verdict = "searching" /\ path = <<>>
           /\ \E u \in Nodes : color[u] = 0 /\ Enter(u)

\* The loop of one activation, at one successor.
Fresh(v) == color[v] = 0
ClosesAtStart(v) == v = path[1]   \* mutant: only the node the search began at
ClosesVisited(v) == color[v] # 0   \* mutant: any node seen before
Closes(v) == color[v] = 1

Descend == /\ verdict = "searching" /\ path # <<>>
           /\ \E v \in todo[Top] : Fresh(v) /\ Enter(v)

Pass == /\ verdict = "searching" /\ path # <<>>
        /\ \E v \in todo[Top] : /\ ~Closes(v) /\ ~Fresh(v)
                                /\ todo' = [todo EXCEPT ![Top] = @ \ {v}]
        /\ UNCHANGED <<adj, color, path, cycle, verdict>>

Report == /\ verdict = "searching" /\ path # <<>>
          /\ \E v \in todo[Top] : \E k \in 1..Len(path) :
               /\ Closes(v) /\ path[k] = v
               /\ cycle' = SubSeq(path, k, Len(path))
          /\ verdict' = "cycle"
          /\ UNCHANGED <<adj, color, path, todo>>

\* The activation returns.
ColorUndone == 0   \* mutant: the node is left unvisited
ColorDone == 2
Finish == /\ verdict = "searching" /\ path # <<>> /\ todo[Top] = {}
          /\ color' = [color EXCEPT ![Top] = ColorDone]
          /\ path' = SubSeq(path, 1, Len(path) - 1)
          /\ UNCHANGED <<adj, todo, cycle, verdict>>

Exhausted == /\ verdict = "searching" /\ path = <<>> /\ \A u \in Nodes : color[u] # 0
             /\ verdict' = "acyclic"
             /\ UNCHANGED <<adj, color, path, todo, cycle>>

SearchNext == StartAt \/ Descend \/ Pass \/ Report \/ Finish \/ Exhausted
-----------------------------------------------------------------------------
SearchTypeOK ==
  /\ adj \in [Nodes -> SUBSET Nodes]
  /\ color \in [Nodes -> 0..2] /\ todo \in [Nodes -> SUBSET Nodes]
  /\ path \in Seq(Nodes) /\ cycle \in Seq(Nodes)
  /\ verdict \in {"searching", "acyclic", "cycle"}

\* No cycle is missed: a graph the search calls acyclic has none.  (Going on
\* along the edges inside a set of nodes, one comes to a node that has none.)
NoCycleMissed ==
  verdict = "acyclic" => \A S \in SUBSET Nodes : S # {} => \E u \in S : Succ(u) \cap S = {}

\* No cycle is made up: what is reported is a cycle of the graph, its members
\* in order and each once, of two at least where self edges do not count.
CycleIsReal ==
  verdict = "cycle" =>
    /\ cycle # <<>> /\ (SkipSelf => Len(cycle) > 1)
    /\ \A k \in 1..Len(cycle) : cycle[IF k = Len(cycle) THEN 1 ELSE k + 1] \in adj[cycle[k]]
    /\ \A j, k \in 1..Len(cycle) : cycle[j] = cycle[k] => j = k

\* The search ends.
Decides == <>(verdict # "searching")
=============================================================================
