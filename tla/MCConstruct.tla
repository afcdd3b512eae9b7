----------------------------- MODULE MCConstruct -----------------------------
(* Instances of Construct for TLC: 16 vertices on 2 x 2 ranks. *)
EXTENDS Construct

\* Four edges that do not change, with a duplicate in the other direction, a
\* self-loop and the largest number; rank 2 has no edge in the list.
Fixed == <<<<<<0, 4>>>>, <<<<5, 0>>, <<15, 15>>>>, <<>>, <<<<4, 0>>>>>>
Ends  == {0, 3, 4, 6, 9}
\* Any two edges over five vertices in the place of the first two chunks.
Anywhere == {[r \in Rank |-> IF r = 0 THEN Fixed[1] \o <<e, f>> ELSE Fixed[r + 1]] :
               e, f \in Ends \X Ends}
\* A hub, whose neighbours have different degrees.
Hub == [r \in Rank |->
  IF r = 0 THEN <<<<0, 8>>, <<0, 4>>, <<4, 0>>>>
  ELSE IF r = 1 THEN <<<<1, 8>>, <<1, 13>>, <<8, 8>>, <<5, 0>>, <<5, 13>>>>
  ELSE IF r = 2 THEN <<<<2, 10>>, <<10, 14>>, <<0, 2>>>>
  ELSE <<<<7, 3>>, <<11, 8>>, <<3, 7>>, <<7, 1>>>>]

MCEdgeLists(k) == IF k = 0 THEN Anywhere ELSE {Hub}
==============================================================================
