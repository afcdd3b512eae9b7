----------------------------- MODULE MCAsyncPut -----------------------------
(* An instance of AsyncPut for TLC: three threads whose packets fill a buffer *)
(* of three words exactly, cross its end, or leave a gap at it.               *)
EXTENDS AsyncPut

CONSTANTS t1, t2, t3

MCThread == {t1, t2, t3}
MCLengths == [t \in MCThread |-> CASE t = t1 -> <<1, 3, 1>>
                                   [] t = t2 -> <<2, 1>>
                                   [] t = t3 -> <<2>>]
=============================================================================
