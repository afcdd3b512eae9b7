---------------------------- MODULE MCHybridBFS ----------------------------
(* Instances of HybridBFS for TLC. *)
EXTENDS HybridBFS

Undirected(E) == E \cup {<<e[2], e[1]>> : e \in E}

\* Eight vertices on 2 x 2 ranks, two on each; with Alpha = 5 and Beta = 2 a
\* level of two vertices starts the bottom-up phase and fewer than four
\* unvisited vertices end it.

\* Levels 0 / 1 / 2 3 / 4 / 5 6 / 7: the search returns to top-down from the
\* one-vertex frontier 4, as a list, and has two more levels to find.
Deep == Undirected({<<0, 1>>, <<1, 2>>, <<1, 3>>, <<2, 3>>, <<2, 4>>, <<3, 4>>,
                    <<4, 5>>, <<4, 6>>, <<5, 6>>, <<5, 7>>, <<6, 7>>})
\* Levels 0 / 1 / 2 3 5 / 4 6 / 7: the last bottom-up frontier is two vertices
\* of one processor row, so it stays a bitmap.
Wide == Undirected({<<0, 1>>, <<1, 2>>, <<1, 3>>, <<1, 5>>, <<2, 4>>, <<3, 4>>,
                    <<5, 6>>, <<3, 6>>, <<4, 7>>, <<6, 7>>, <<2, 5>>})
\* Two components: the search ends bottom-up, with vertices left unvisited.
Split == Undirected({<<0, 1>>, <<0, 3>>, <<0, 6>>, <<1, 2>>, <<3, 2>>,
                     <<4, 5>>, <<4, 7>>})
\* A path never leaves the top-down search.
Path == Undirected({<<0, 1>>, <<1, 2>>, <<2, 3>>, <<3, 4>>, <<4, 5>>, <<5, 6>>,
                    <<6, 7>>})

\* Memory with other contents has some bits set and some not, on every rank.
MCJunk == {{0, 3, 5, 6}}

MCGraphs == {Deep, Wide, Split, Path}
=============================================================================
