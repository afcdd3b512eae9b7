---------------------------- MODULE SpinBarrier ----------------------------
(***************************************************************************)
(* memory::SpinBarrier: the barrier that the threads of the bottom-up      *)
(* search, and the processes of a node, call several times per step. Each  *)
(* access of the shared counters is a step of its own.                     *)
(***************************************************************************)
EXTENDS Integers, FiniteSets

CONSTANTS
  Thread,    \* max threads call the barrier
  Calls,     \* bound: number of times each thread calls it
  StepMod    \* values of the int step before it wraps around

ASSUME SpinBarrierAssumption ==
  /\ IsFiniteSet(Thread)
  /\ Calls \in Nat
  /\ StepMod \in Nat /\ StepMod >= 2

N == Cardinality(Thread)    \* max

VARIABLES
  step, cnt,  \* the members of the barrier
  cur,        \* cur_step of each thread
  pc,         \* where the thread is in barrier(), "out" if it is not
  entered,    \* calls made by each thread
  left        \* calls returned to it

vars == <<step, cnt, cur, pc, entered, left>>

Init ==
  /\ step = 0
  /\ cnt = 0
  /\ cur = [t \in Thread |-> 0]
  /\ pc = [t \in Thread |-> "out"]
  /\ entered = [t \in Thread |-> 0]
  /\ left = [t \in Thread |-> 0]

Goto(t, label) == pc' = [pc EXCEPT ![t] = label]
Return(t) ==
  /\ Goto(t, "out")
  /\ left' = [left EXCEPT ![t] = @ + 1]

\* int cur_step = step
ReadStep(t) ==
  /\ pc[t] = "out"
  /\ entered[t] < Calls
  /\ entered' = [entered EXCEPT ![t] = @ + 1]
  /\ cur' = [cur EXCEPT ![t] = step]
  /\ Goto(t, "count")
  /\ UNCHANGED <<step, cnt, left>>

\* wait_cnt = add_and_fetch(cnt): the last thread opens the barrier.
Count(t) ==
  /\ pc[t] = "count"
  /\ cnt' = cnt + 1
  /\ Goto(t, IF cnt' = N THEN "reset" ELSE "spin")
  /\ UNCHANGED <<step, cur, entered, left>>

Reset(t) ==
  /\ pc[t] = "reset"
  /\ cnt' = 0
  /\ Goto(t, "open")
  /\ UNCHANGED <<step, cur, entered, left>>

Open(t) ==
  /\ pc[t] = "open"
  /\ step' = (step + 1) % StepMod
  /\ Return(t)
  /\ UNCHANGED <<cnt, cur, entered>>

\* Mutant: the thread leaves while the step is the one it saw.
SpinWhileChanged(t) ==
  /\ pc[t] = "spin"
  /\ step = cur[t]
  /\ Return(t)
  /\ UNCHANGED <<step, cnt, cur, entered>>

\* while(step == cur_step) ;
Spin(t) ==
  /\ pc[t] = "spin"
  /\ step # cur[t]
  /\ Return(t)
  /\ UNCHANGED <<step, cnt, cur, entered>>

\* Mutant: the barrier is opened before the counter is reset.
OpenFirst(t) ==
  \/ ReadStep(t) \/ Count(t) \/ Spin(t)
  \/ /\ pc[t] = "reset"
     /\ step' = (step + 1) % StepMod
     /\ Goto(t, "open")
     /\ UNCHANGED <<cnt, cur, entered, left>>
  \/ /\ pc[t] = "open"
     /\ cnt' = 0
     /\ Return(t)
     /\ UNCHANGED <<step, cur, entered>>

\* One step of thread t in barrier().
BarrierStep(t) == ReadStep(t) \/ Count(t) \/ Reset(t) \/ Open(t) \/ Spin(t)

Next == \E t \in Thread : BarrierStep(t)

Spec == Init /\ [][Next]_vars
-----------------------------------------------------------------------------
(* Properties *)

\* Type invariant of a barrier and its callers.
TypeOK ==
  /\ step \in 0 .. StepMod - 1
  /\ cnt \in 0 .. N
  /\ cur \in [Thread -> 0 .. StepMod - 1]
  /\ pc \in [Thread -> {"out", "count", "reset", "open", "spin"}]
  /\ entered \in [Thread -> 0 .. Calls]
  /\ left \in [Thread -> 0 .. Calls]

\* The spinning threads see every opening of the barrier, although step wraps
\* around and the counter is reused at once by threads that come back.
Rounds == INSTANCE Barrier
ImplementsBarrier == Rounds!Spec

\* The inductive invariant behind the property above. Threads that wait
\* for the opening of the current round:
Arrived == {t \in Thread : pc[t] \in {"spin", "reset"} /\ cur[t] = step}
\* A thread that saw all arrive, and has not opened the barrier yet:
Opener(t) == pc[t] \in {"reset", "open"}

CallsCounted ==
  \A t \in Thread : entered[t] = IF pc[t] = "out" THEN left[t] ELSE left[t] + 1
StepFresh ==
  \A t \in Thread : pc[t] \in {"count", "reset", "open"} => cur[t] = step
CntIsArrived ==
  cnt = IF \E t \in Thread : pc[t] = "open" THEN 0 ELSE Cardinality(Arrived)
OpenerAlone ==
  \A s, t \in Thread : Opener(t) /\ s # t => pc[s] = "spin" /\ cur[s] = step
SameRound ==
  \E g \in 0 .. Calls : \A t \in Thread :
    IF pc[t] = "spin" /\ cur[t] # step THEN entered[t] = g ELSE left[t] = g

IInv == /\ TypeOK /\ CallsCounted /\ StepFresh
        /\ CntIsArrived /\ OpenerAlone /\ SameRound
=============================================================================
