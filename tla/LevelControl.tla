---------------------------- MODULE LevelControl ----------------------------
(***************************************************************************)
(* The sizes that the level loop of run_bfs works with, at the constants   *)
(* of a build: which levels are searched backward, and whether the         *)
(* frontier a rank has to distribute as a list fits the buffer that the    *)
(* list is written to.                                                     *)
(*                                                                         *)
(* A level is seen by one rank, any of them: what it finds itself (here),  *)
(* what the other ranks of its processor row find (row) and what the rest  *)
(* of the machine finds (rest).                                            *)
(***************************************************************************)
EXTENDS Direction

CONSTANTS
  Ranks,        \* number of ranks
  LocalVerts,   \* num_local_verts_, vertices of one rank
  GlobalVerts,  \* num_global_verts_, vertices with an edge
  Sizes,        \* numbers of vertices that a part may find in a level
  RowAlone,     \* the processor row is this rank alone
  Alone,        \* this rank is the only one
  MaxLevels     \* bound on the levels of a search

\* Entries of 8 bytes in a bitmap of one bit per local vertex: the list
\* buffers (old_visited_, visited_buffer_) have the size of a bitmap.
ListCapacity == LocalVerts \div 64

ASSUME LevelAssumption ==
  /\ Ranks \in Nat \ {0} /\ LocalVerts \in Nat \ {0}
  /\ GlobalVerts \in Nat \ {0}
  /\ GlobalVerts <= Ranks * LocalVerts
  /\ Sizes \subseteq Nat
  /\ RowAlone \in BOOLEAN /\ Alone \in BOOLEAN
  /\ MaxLevels \in Nat

\* What the parameters of a build have to satisfy for the lists to fit: the
\* threshold is half the capacity; alpha = 2000 allows up to 31 ranks.
ThresholdFits == ListThreshold <= ListCapacity
FewRanks      == 64 * Ranks <= Alpha

VARIABLES
  running,  \* the loop has not left by the break
  level,    \* current_level_
  dir,      \* direction of the level to be searched next
  gnq,      \* global_nq_size_
  visited,  \* global_visited_vertices
  list,     \* entries this rank wrote to a list buffer in the last expansion
  switched  \* the last expansion changed the direction

vars == <<running, level, dir, gnq, visited, list, switched>>

Init ==
  /\ running = TRUE
  /\ level = 0
  /\ dir = FirstDirection
  /\ gnq = 0
  /\ visited = 1
  /\ list = 0
  /\ switched = FALSE

\* Mutant: the first rank of the row is left out of the row's count.
NqSizesPastFirst(here, row, others) == <<row, others>>

\* What is reduced to max_nq_size_ after a backward level: routed_count stays
\* 0, so the first rank of a processor row reports the whole row and the
\* others report nothing; others is the most another row reports.
NqSizes(here, row, others) == <<here + row, others>>

\* The list a rank writes: its own part of the frontier.
ListLength(next, here) == IF next.bitmap THEN 0 ELSE here

\* One iteration of the level loop: search, reductions, decision, expansion.
Level(here, row, rest, others) ==
  LET n    == here + row + rest
      next == NextDirection(dir, n, gnq, visited + n, GlobalVerts,
                            NqSizes(here, row, others))
  IN
  /\ running
  /\ level < MaxLevels
  /\ here <= LocalVerts
  /\ RowAlone => row = 0
  /\ Alone => row = 0 /\ rest = 0
  /\ others <= rest
  /\ visited + n <= GlobalVerts
  /\ level' = level + 1
  /\ gnq' = n
  /\ visited' = visited + n
  /\ IF n = 0
       THEN running' = FALSE /\ UNCHANGED <<dir, list, switched>>
       ELSE /\ dir' = next
            /\ list' = ListLength(next, here)
            /\ switched' = (dir.forward # next.forward)
            /\ UNCHANGED running

Next == \E here, row, rest, others \in Sizes : Level(here, row, rest, others)

Spec == Init /\ [][Next]_vars

-----------------------------------------------------------------------------
(* Properties *)

\* Type invariant of the level loop.
TypeOK ==
  /\ running \in BOOLEAN
  /\ level \in Nat
  /\ dir \in DirType
  /\ gnq \in Nat /\ visited \in Nat
  /\ list \in Nat
  /\ switched \in BOOLEAN

\* Before the switch to bottom-up no rank writes more entries than its list
\* buffer has, even if the whole level belongs to it: top_down_make_nq_list
\* asserts it, and only the alpha of the policy makes it true.
GrowingListFits == dir.growing /\ ~ switched => list <= ListCapacity

\* When the search leaves bottom-up with a list, the list fits: the assertion
\* of make_list_from_bitmap. The threshold is compared with sizes that the
\* ranks of a processor row have in part swapped among themselves.
SwitchListFits == switched => list <= ListCapacity

\* Both: the lists fit up to and including the one that ends the bottom-up
\* phase.
EarlyListFits == GrowingListFits /\ SwitchListFits

\* After the return to top-down a list is shorter than 1 / Beta of the graph.
TailListBound ==
  ~ dir.growing /\ ~ switched => list < GlobalVerts \div Beta

\* The inductive invariant behind them: while the frontier grows it is below
\* the size that starts the bottom-up search, and after the return to top-down
\* fewer vertices are left than the policy allows for the return.
FrontierBelowAlpha ==
  dir.growing /\ dir.forward => gnq * Alpha <= GlobalVerts
RestBelowBeta ==
  ~ dir.growing => dir.forward /\ GlobalVerts - visited < GlobalVerts \div Beta
VisitedInGraph == visited <= GlobalVerts

IInv == /\ TypeOK /\ FrontierBelowAlpha /\ RestBelowBeta /\ VisitedInGraph
        /\ GrowingListFits /\ SwitchListFits /\ TailListBound

\* The assertion of top_down_make_nq_list (bfs.hpp:616), for every level.
ListFits == list <= ListCapacity
=============================================================================
