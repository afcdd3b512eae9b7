------------------------- MODULE MCBottomUpThreads -------------------------
(* An instance of BottomUpThreads for TLC: three threads, slices to search   *)
(* and, between and after them, slices that came home. The step of the spin  *)
(* barrier takes two values, the fewest with which a wrap-around can be told *)
(* from an opening.                                                          *)
EXTENDS BottomUpThreads

CONSTANTS t0, t1, t2
MCThread == {t0, t1, t2}
MCShare == [t \in MCThread |-> CASE t = t0 -> {0, 1} [] t = t1 -> {2, 3} [] t = t2 -> {}]
=============================================================================
