------------------------ MODULE MCBenchmarkDriver ------------------------
(* An instance of BenchmarkDriver for TLC: three roots of eight vertices.   *)
(* The random numbers give roots at once, give duplicates and vertices      *)
(* without edges first, hit the vertex behind the bitmap, or run out.       *)
EXTENDS BenchmarkDriver

MCDraws == {<<0, 1, 2>>, <<4, 4, 5, 0, 4, 1>>, <<0, 7, 1, 2>>, <<5, 0>>}
=============================================================================
