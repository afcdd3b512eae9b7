----------------------------- MODULE Direction -----------------------------
(***************************************************************************)
(* The direction policy of run_bfs: after every level it decides whether   *)
(* the next level is searched forward (top-down) or backward (bottom-up)   *)
(* and whether the frontier is exchanged as a bitmap or as a list.         *)
(*                                                                         *)
(* A direction is the triple of flags the code keeps in                    *)
(* forward_or_backward_, bitmap_or_list_ and growing_or_shrinking_.        *)
(***************************************************************************)
EXTENDS Integers

CONSTANTS
  Alpha,            \* denom_to_bottom_up_
  Beta,             \* DEMON_BOTTOMUP_TO_TOPDOWN
  ListThreshold     \* local NQ size from which the frontier stays a bitmap

ASSUME DirectionAssumption ==
  /\ Alpha \in Nat \ {0}
  /\ Beta \in Nat \ {0}
  /\ ListThreshold \in Nat

DirType == [forward : BOOLEAN, bitmap : BOOLEAN, growing : BOOLEAN]

\* Level 1 is a forward search from a list that holds the root.
FirstDirection == [forward |-> TRUE, bitmap |-> FALSE, growing |-> TRUE]

\* Mutant: a larger level is enough, even after the return to top-down.
GrowsAgain(dir, nq, prevNq) == nq > prevNq

\* The frontier still grows: it never shrank enough to leave the backward
\* search, and the level found more vertices than the one before.
StillGrowing(dir, nq, prevNq) == dir.growing /\ nq > prevNq

ToBottomUp(dir, nq, prevNq, verts) ==
  /\ StillGrowing(dir, nq, prevNq)
  /\ dir.forward
  /\ nq * Alpha > verts

\* Mutant: shrinking alone ends the backward search.
ToTopDownAtOnce(dir, nq, prevNq, unvisited, verts) ==
  ~ StillGrowing(dir, nq, prevNq) /\ ~ dir.forward

ToTopDown(dir, nq, prevNq, unvisited, verts) ==
  /\ ~ StillGrowing(dir, nq, prevNq)
  /\ ~ dir.forward
  /\ unvisited < verts \div Beta

\* nqSize[q] is what rank q holds in nq_size_ when max_nq_size_ is reduced.
SomeRankAboveThreshold(nqSize) ==
  \E q \in DOMAIN nqSize : nqSize[q] >= ListThreshold

NextDirection(dir, nq, prevNq, visited, verts, nqSize) ==
  LET toTopDown == ToTopDown(dir, nq, prevNq, verts - visited, verts)
      forward   == \/ toTopDown
                   \/ dir.forward /\ ~ ToBottomUp(dir, nq, prevNq, verts)
  IN  [forward |-> forward,
       bitmap  |-> ~ forward \/ (toTopDown /\ SomeRankAboveThreshold(nqSize)),
       growing |-> dir.growing /\ ~ toTopDown]
=============================================================================
