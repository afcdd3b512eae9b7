------------------------------ MODULE LevelBFS ------------------------------
(***************************************************************************)
(* What a breadth-first search of Graph500 promises: whole levels of the   *)
(* graph are discovered one after the other, every vertex of a level gets  *)
(* one parent in the level before, and the search ends at the first empty  *)
(* level. There are no ranks, directions or messages here.                 *)
(***************************************************************************)
EXTENDS Integers

CONSTANTS Vertex, Graphs, None

VARIABLES
  graph,   \* a symmetric set of edges
  roots,   \* roots searched so far
  parent,  \* parent of each discovered vertex, None for the others
  dist,    \* level of each discovered vertex, -1 for the others
  last,    \* the last level that is complete
  active   \* a search is running

absVars == <<graph, roots, parent, dist, last, active>>

Init ==
  /\ graph \in Graphs
  /\ roots = {}
  /\ parent = [v \in Vertex |-> None]
  /\ dist = [v \in Vertex |-> -1]
  /\ last = -1
  /\ active = FALSE

Start(root) ==
  /\ ~ active
  /\ root \notin roots
  /\ \E u \in Vertex : <<root, u>> \in graph
  /\ roots' = roots \cup {root}
  /\ parent' = [v \in Vertex |-> IF v = root THEN root ELSE None]
  /\ dist' = [v \in Vertex |-> IF v = root THEN 0 ELSE -1]
  /\ last' = 0
  /\ active' = TRUE
  /\ UNCHANGED graph

\* Undiscovered vertices next to the last level, and their possible parents.
Parents(v) == {u \in Vertex : dist[u] = last /\ <<u, v>> \in graph}
NextLevel  == {v \in Vertex : dist[v] = -1 /\ Parents(v) # {}}

Discover ==
  /\ active
  /\ last' = last + 1
  /\ NextLevel # {}
  /\ dist' = [v \in Vertex |-> IF v \in NextLevel THEN last + 1 ELSE dist[v]]
  /\ parent' \in [Vertex -> Vertex \cup {None}]
  /\ \A v \in Vertex : IF v \in NextLevel THEN parent'[v] \in Parents(v)
                                         ELSE parent'[v] = parent[v]
  /\ UNCHANGED <<graph, roots, active>>

Finish ==
  /\ active
  /\ active' = FALSE
  /\ NextLevel = {}
  /\ UNCHANGED <<graph, roots, parent, dist, last>>

Next == (\E root \in Vertex : Start(root)) \/ Discover \/ Finish

Spec == Init /\ [][Next]_absVars
=============================================================================
