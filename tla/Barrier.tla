------------------------------- MODULE Barrier -------------------------------
(***************************************************************************)
(* What a barrier that threads call again and again promises: a call       *)
(* returns only after every thread has made as many calls.                 *)
(***************************************************************************)
EXTENDS Naturals

CONSTANT Thread

VARIABLES
  entered,  \* calls each thread has made
  left      \* calls that have returned to it

barrierVars == <<entered, left>>

Init ==
  /\ entered = [t \in Thread |-> 0]
  /\ left = [t \in Thread |-> 0]

Enter(t) ==
  /\ left[t] = entered[t]
  /\ entered' = [entered EXCEPT ![t] = @ + 1]
  /\ UNCHANGED left

Leave(t) ==
  /\ left[t] < entered[t]
  /\ \A s \in Thread : entered[s] >= entered[t]
  /\ left' = [left EXCEPT ![t] = @ + 1]
  /\ UNCHANGED entered

Next == \E t \in Thread : Enter(t) \/ Leave(t)

Spec == Init /\ [][Next]_barrierVars
=============================================================================
