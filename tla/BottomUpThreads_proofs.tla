----------------------- MODULE BottomUpThreads_proofs -----------------------
(***************************************************************************)
(* First, SpinBarrier implements Barrier, for every number of threads and  *)
(* calls and every range of step with two values or more. Then, with that: *)
(* the threads of a bottom-up level keep out of each other's way, for      *)
(* every number of threads, blocks and steps: the barrier works in this    *)
(* use, the description of a slice is stable while it is worked on, a      *)
(* slice is complete when it is passed on, and what is found in it is      *)
(* counted once.                                                           *)
(***************************************************************************)
EXTENDS BottomUpThreads, FiniteSetTheorems, TLAPS

USE SpinBarrierAssumption
-----------------------------------------------------------------------------
LEMMA NType == N \in Nat
  BY FS_CardinalityType DEF N

\* Who arrived is part of the threads; when as many arrived as there are
\* threads, all have.
LEMMA PartOfThreads ==
  ASSUME NEW S \in SUBSET Thread
  PROVE  /\ IsFiniteSet(S)
         /\ Cardinality(S) \in 0 .. N
         /\ Cardinality(S) = N => S = Thread
  <1>1. IsFiniteSet(S) /\ Cardinality(S) <= N /\ (Cardinality(S) = N => S = Thread)
    BY FS_Subset DEF N
  <1>2. Cardinality(S) \in Nat
    BY <1>1, FS_CardinalityType
  <1> QED BY <1>1, <1>2, NType

LEMMA InitIInv == Init => IInv
  <1> SUFFICES ASSUME Init PROVE IInv
    OBVIOUS
  <1> USE DEF Init
  <1>1. TypeOK
    BY NType DEF TypeOK
  <1>2. CallsCounted /\ StepFresh /\ OpenerAlone
    BY DEF CallsCounted, StepFresh, OpenerAlone, Opener
  <1>3. CntIsArrived
    <2>1. Arrived = {}
      BY DEF Arrived
    <2> QED BY <2>1, FS_EmptySet DEF CntIsArrived
  <1>4. SameRound
    BY DEF SameRound
  <1> QED BY <1>1, <1>2, <1>3, <1>4 DEF IInv

LEMMA ReadStepIInv ==
  ASSUME IInv, NEW t \in Thread, ReadStep(t)
  PROVE  IInv'
  <1> USE DEF IInv, ReadStep, Goto
  <1>1. TypeOK'
    BY DEF TypeOK
  <1>2. CallsCounted' /\ StepFresh'
    BY DEF CallsCounted, StepFresh, TypeOK
  <1>3. ~ \E s \in Thread : Opener(s)
    BY DEF OpenerAlone, Opener
  <1>4. OpenerAlone'
    BY <1>3 DEF OpenerAlone, Opener, TypeOK
  <1>5. Arrived' = Arrived
    BY DEF Arrived, TypeOK
  <1>6. CntIsArrived'
    BY <1>3, <1>5 DEF CntIsArrived, Opener, TypeOK
  <1>7. SameRound'
    BY DEF SameRound, TypeOK
  <1> QED BY <1>1, <1>2, <1>4, <1>6, <1>7

LEMMA CountIInv ==
  ASSUME IInv, NEW t \in Thread, Count(t)
  PROVE  IInv'
  <1> USE DEF IInv, Count, Goto
  <1>1. ~ \E s \in Thread : Opener(s)
    BY DEF OpenerAlone, Opener
  <1>2. Arrived' = Arrived \cup {t} /\ t \notin Arrived
    BY DEF Arrived, TypeOK, StepFresh
  <1>3. cnt = Cardinality(Arrived)
    BY <1>1 DEF CntIsArrived, Opener
  <1>4. Arrived \in SUBSET Thread /\ Arrived' \in SUBSET Thread
    BY DEF Arrived
  <1>5. cnt' = Cardinality(Arrived')
    BY <1>2, <1>3, <1>4, PartOfThreads, FS_AddElement
  <1>6. cnt' \in 0 .. N /\ (cnt' = N => Arrived' = Thread)
    BY <1>4, <1>5, PartOfThreads
  <1>7. TypeOK'
    BY <1>6 DEF TypeOK
  <1>8. CallsCounted' /\ StepFresh'
    BY DEF CallsCounted, StepFresh, TypeOK
  <1>9. CntIsArrived'
    BY <1>1, <1>5 DEF CntIsArrived, Opener, TypeOK
  <1>10. OpenerAlone'
    BY <1>1, <1>6 DEF OpenerAlone, Opener, Arrived, TypeOK
  <1>11. SameRound'
    BY DEF SameRound, TypeOK, StepFresh
  <1> QED BY <1>7, <1>8, <1>9, <1>10, <1>11

LEMMA ResetIInv ==
  ASSUME IInv, NEW t \in Thread, Reset(t)
  PROVE  IInv'
  <1> USE DEF IInv, Reset, Goto
  <1>1. TypeOK'
    BY NType DEF TypeOK
  <1>2. CallsCounted' /\ StepFresh'
    BY DEF CallsCounted, StepFresh, TypeOK
  <1>3. CntIsArrived'
    BY DEF CntIsArrived, TypeOK
  <1>4. OpenerAlone'
    BY DEF OpenerAlone, Opener, TypeOK
  <1>5. SameRound'
    BY DEF SameRound, TypeOK
  <1> QED BY <1>1, <1>2, <1>3, <1>4, <1>5

\* step + 1 differs from step although it wraps around.
LEMMA StepChanges ==
  ASSUME NEW s \in 0 .. StepMod - 1
  PROVE  (s + 1) % StepMod \in 0 .. StepMod - 1 /\ (s + 1) % StepMod # s
  <1>1. CASE s + 1 < StepMod
    BY <1>1
  <1>2. CASE s + 1 = StepMod
    BY <1>2
  <1> QED BY <1>1, <1>2

LEMMA OpenIInv ==
  ASSUME IInv, NEW t \in Thread, Open(t)
  PROVE  IInv'
  <1> USE DEF IInv, Open, Goto, Return
  <1>1. step' \in 0 .. StepMod - 1 /\ step' # step
    BY StepChanges DEF TypeOK
  <1>2. \A s \in Thread : s # t => pc[s] = "spin" /\ cur[s] = step
    BY DEF OpenerAlone, Opener
  <1>3. entered[t] = left[t] + 1
    BY DEF CallsCounted
  <1>4. TypeOK'
    <2>1. left[t] + 1 \in 0 .. Calls
      BY <1>3 DEF TypeOK
    <2> QED BY <1>1, <2>1 DEF TypeOK
  <1>5. CallsCounted' /\ StepFresh'
    BY <1>2, <1>3 DEF CallsCounted, StepFresh, TypeOK
  <1>6. CntIsArrived'
    <2>1. Arrived' = {}
      BY <1>1, <1>2 DEF Arrived, TypeOK
    <2>2. cnt' = 0
      BY DEF CntIsArrived
    <2>3. ~ \E s \in Thread : pc'[s] = "open"
      BY <1>2 DEF TypeOK
    <2> QED BY <2>1, <2>2, <2>3, FS_EmptySet DEF CntIsArrived
  <1>7. OpenerAlone'
    BY <1>2 DEF OpenerAlone, Opener, TypeOK
  <1>8. SameRound'
    <2>1. PICK g \in 0 .. Calls : \A s \in Thread : left[s] = g
      BY <1>2 DEF SameRound
    <2>2. g + 1 \in 0 .. Calls
      BY <1>3, <2>1 DEF TypeOK
    <2>3. left'[t] = g + 1 /\ pc'[t] = "out"
      BY <2>1 DEF TypeOK
    <2>4. \A s \in Thread : s # t => pc'[s] = "spin" /\ cur'[s] # step'
                                     /\ entered'[s] = g + 1
      BY <1>1, <1>2, <2>1 DEF TypeOK, CallsCounted
    <2> QED BY <2>2, <2>3, <2>4 DEF SameRound
  <1> QED BY <1>4, <1>5, <1>6, <1>7, <1>8

LEMMA SpinIInv ==
  ASSUME IInv, NEW t \in Thread, Spin(t)
  PROVE  IInv'
  <1> USE DEF IInv, Spin, Goto, Return
  <1>1. entered[t] = left[t] + 1
    BY DEF CallsCounted
  <1>2. TypeOK'
    <2>1. left[t] + 1 \in 0 .. Calls
      BY <1>1 DEF TypeOK
    <2> QED BY <2>1 DEF TypeOK
  <1>3. CallsCounted' /\ StepFresh'
    BY <1>1 DEF CallsCounted, StepFresh, TypeOK
  <1>4. Arrived' = Arrived
    BY DEF Arrived, TypeOK
  <1>5. CntIsArrived'
    BY <1>4 DEF CntIsArrived, TypeOK
  <1>6. OpenerAlone'
    BY DEF OpenerAlone, Opener, TypeOK
  <1>7. SameRound'
    BY <1>1 DEF SameRound, TypeOK
  <1> QED BY <1>2, <1>3, <1>5, <1>6, <1>7

LEMMA NextIInv == IInv /\ [Next]_vars => IInv'
  <1> SUFFICES ASSUME IInv, [Next]_vars PROVE IInv'
    OBVIOUS
  <1>1. CASE UNCHANGED vars
    BY <1>1 DEF vars, IInv, TypeOK, CallsCounted, StepFresh, CntIsArrived,
                OpenerAlone, Opener, SameRound, Arrived
  <1>2. CASE Next
    BY <1>2, ReadStepIInv, CountIInv, ResetIInv, OpenIInv, SpinIInv
       DEF Next, BarrierStep
  <1> QED BY <1>1, <1>2

\* The inductive invariant of the barrier holds in every reachable state.
THEOREM Invariance == Spec => []IInv
  BY InitIInv, NextIInv, PTL DEF Spec

\* The counters of the barrier and of its callers stay in their ranges.
THEOREM TypeCorrect == Spec => []TypeOK
  <1>1. IInv => TypeOK
    BY DEF IInv
  <1> QED BY <1>1, Invariance, PTL

LEMMA StepImplements ==
  ASSUME IInv, [Next]_vars
  PROVE  [Rounds!Next]_(Rounds!barrierVars)
  <1> USE DEF IInv, Rounds!Next, Rounds!barrierVars
  <1>1. CASE UNCHANGED vars
    BY <1>1 DEF vars
  <1>2. ASSUME NEW t \in Thread, ReadStep(t)
        PROVE  Rounds!Enter(t)
    BY <1>2 DEF ReadStep, Goto, CallsCounted, Rounds!Enter
  <1>3. ASSUME NEW t \in Thread, Count(t) \/ Reset(t)
        PROVE  UNCHANGED Rounds!barrierVars
    BY <1>3 DEF Count, Reset
  <1>4. ASSUME NEW t \in Thread, Open(t)
        PROVE  Rounds!Leave(t)
    <2>1. \A s \in Thread : s # t => pc[s] = "spin" /\ cur[s] = step
      BY <1>4 DEF OpenerAlone, Opener, Open
    <2>2. \A s \in Thread : entered[s] = left[s] + 1 /\ left[s] = left[t]
      BY <1>4, <2>1 DEF CallsCounted, SameRound, Open
    <2> QED BY <1>4, <2>2 DEF Open, Return, Goto, Rounds!Leave, TypeOK
  <1>5. ASSUME NEW t \in Thread, Spin(t)
        PROVE  Rounds!Leave(t)
    <2>1. left[t] < entered[t] /\ \A s \in Thread : entered[s] >= entered[t]
      BY <1>5 DEF CallsCounted, SameRound, Spin, TypeOK
    <2> QED BY <1>5, <2>1 DEF Spin, Return, Goto, Rounds!Leave
  <1>6. CASE Next
    BY <1>2, <1>3, <1>4, <1>5, <1>6 DEF Next, BarrierStep
  <1> QED BY <1>1, <1>6

\* The spin barrier is a barrier: a call returns only after every thread has
\* made as many calls.
THEOREM Refinement == Spec => ImplementsBarrier
  <1>1. Init => Rounds!Init
    BY DEF Init, Rounds!Init
  <1> QED BY <1>1, StepImplements, Invariance, PTL
          DEF Spec, ImplementsBarrier, Rounds!Spec
-----------------------------------------------------------------------------
(* A bottom-up level *)

USE ThreadsAssumption

\* Barrier calls of the current step that have returned to a thread.
Behind(label) ==
  CASE label \in {"begin", "reset", "gate"} -> 0
    [] label \in Working \cup {"close", "shut", "done"} -> 1
    [] label \in {"add", "end"} -> 2

\* Where a thread is that has done its part of the work.
Over  == {"close", "shut", "add", "end"}
Label == {"begin", "reset", "gate", "done"} \cup Working \cup Over

\* Where a thread is in the loop follows from its returned barrier calls.
PlaceOK ==
  /\ at \in [Thread -> Label] /\ turn \in [Thread -> 0 .. Steps] /\ data \in Nat
  /\ \A t \in Thread :
       /\ left[t] = 2 * turn[t] + Behind(at[t])
       /\ turn[t] = Steps => at[t] \in {"begin", "done"}
       /\ at[t] = "done" => turn[t] = Steps
       /\ pc[t] # "out" =>
            at[t] \in {"gate", "close", "shut"} \/ (at[t] = "begin" /\ turn[t] = Steps)
       /\ at[t] = "reset" => t = Main
       /\ at[t] \in {"copy", "copied"} => data \in HomeSteps
       /\ at[t] \in {"draw", "block"} => data \notin HomeSteps
  /\ at[Main] \notin {"begin", "done"} => data = turn[Main]
  /\ at[Main] \in {"begin", "done"} => turn[Main] = 0 \/ data = turn[Main] - 1

\* The step that data describes is under way.
Live == at[Main] \notin {"begin", "reset", "done"}
InHand(b) == \E t \in Thread : at[t] = "block" /\ off[t] = b
Copied(t) == turn[t] > data \/ (turn[t] = data /\ at[t] \in {"copied"} \cup Over)

\* How often each block was gone over: not at all before its step, once after
\* it, and in between as the counter and the places of the threads say.
PassesOK ==
  /\ passes \in [Step -> [Block -> Nat]]
  /\ \A s \in Step, b \in Block :
       /\ s > turn[Main] \/ (s = turn[Main] /\ at[Main] \in {"begin", "reset"})
            => passes[s][b] = 0
       /\ s < turn[Main] => passes[s][b] = 1
  /\ Live => \A b \in Block :
       /\ data \notin HomeSteps =>
            passes[data][b] = IF b < counter /\ ~ InHand(b) THEN 1 ELSE 0
       /\ data \in HomeSteps =>
            passes[data][b] = IF \E t \in Thread : b \in Share[t] /\ Copied(t) THEN 1 ELSE 0

\* Blocks are drawn in order, each by one thread.
DrawsOK ==
  /\ counter \in Nat /\ off \in [Thread -> Nat]
  /\ \A t \in Thread : at[t] = "block" => off[t] \in Block /\ off[t] < counter
  /\ \A t, u \in Thread : at[t] = "block" /\ at[u] = "block" /\ off[t] = off[u] => t = u
  /\ at[Main] \in Over /\ data \notin HomeSteps => counter >= Blocks

SentOK == sent = {s \in Step : s \notin HomeSteps /\ s < turn[Main]}

Rest == PassesOK /\ DrawsOK /\ SentOK

\* The finds of a block that was searched are in the local count of one thread
\* that is in the step still, or were counted under the index of the step.
CountsOK ==
  /\ cells \in [Step -> [Block -> Seq(Nat)]]
  /\ mine \in [Thread -> SUBSET Block]
  /\ \A t \in Thread : mine[t] # {} =>
       at[t] \in {"draw", "block", "close", "add"} /\ turn[t] \in Step \ HomeSteps
  /\ \A t \in Thread : \A b \in mine[t] :
       passes[turn[t]][b] = 1 /\ cells[turn[t]][b] = <<>>
  /\ \A t, u \in Thread : turn[t] = turn[u] /\ mine[t] \cap mine[u] # {} => t = u
  /\ \A s \in Step \ HomeSteps, b \in Block :
       /\ cells[s][b] \in {<<>>, <<RoutedCount(s)>>}
       /\ passes[s][b] = 0 => cells[s][b] = <<>>
       /\ passes[s][b] = 1 /\ cells[s][b] = <<>> =>
            \E t \in Thread : turn[t] = s /\ b \in mine[t]
-----------------------------------------------------------------------------
(* The barrier in this use *)

\* No call of any thread has returned more often than another has called.
LEMMA CallOrder ==
  ASSUME IInv
  PROVE  \A t, u \in Thread :
           /\ left[t] \in Nat /\ entered[t] \in Nat
           /\ left[t] <= entered[u]
           /\ entered[t] = IF pc[t] = "out" THEN left[t] ELSE left[t] + 1
  BY DEF IInv, SameRound, CallsCounted, TypeOK

\* The steps of the level are steps of the barrier, or leave it alone.
LEMMA BarrierPart == [BmpNext]_bmpVars => [Next]_vars
  <1> SUFFICES ASSUME [BmpNext]_bmpVars PROVE [Next]_vars
    OBVIOUS
  <1>1. CASE UNCHANGED bmpVars
    BY <1>1 DEF bmpVars, syncVars
  <1>2. ASSUME NEW t \in Thread, ThreadStep(t)
        PROVE  BarrierStep(t) \/ UNCHANGED vars
    BY <1>2 DEF ThreadStep, Publish, ResetCounter, SkipPublish, Gate, Draw, SearchBlock,
                CopyShare, OmpForEnd, CopyClose, Close, AddCount, EndStep, Finish, Sync, syncVars
  <1> QED BY <1>1, <1>2 DEF BmpNext, Next

\* What an access of thread t in the barrier changes.
LEMMA SyncStep ==
  ASSUME IInv, NEW t \in Thread, BarrierStep(t)
  PROVE  /\ \A u \in Thread \ {t} : pc'[u] = pc[u] /\ left'[u] = left[u]
         /\ left'[t] = IF pc'[t] = "out" THEN left[t] + 1 ELSE left[t]
  BY DEF IInv, TypeOK, BarrierStep, ReadStep, Count, Reset, Open, Spin, Goto, Return

-----------------------------------------------------------------------------
(* Places *)

\* Calls returned by place, for places of the loop.
LEMMA BehindValues ==
  /\ \A l \in {"begin", "reset", "gate"} : Behind(l) = 0
  /\ \A l \in {"draw", "block", "copy", "copied", "close", "shut", "done"} : Behind(l) = 1
  /\ \A l \in {"add", "end"} : Behind(l) = 2
  BY DEF Behind, Working

\* Twice a number against an odd one.
LEMMA Halves ==
  ASSUME NEW m \in Nat, NEW n \in Nat
  PROVE  /\ 2 * m <= 2 * n + 1 => m <= n
         /\ 2 * n + 1 <= 2 * m => n < m
         /\ 2 * m + 2 <= 2 * n + 1 => m < n
         /\ 2 * n + 1 <= 2 * m + 2 => n <= m
  OBVIOUS

\* Where the main thread can be while thread t works on a slice, and where the
\* other threads are when it has a slice to describe or passed one on.
LEMMA Together ==
  ASSUME IInv, PlaceOK
  PROVE  /\ \A t \in Thread : at[t] \in Working => data = turn[t] /\ turn[Main] = turn[t] /\ Live
         /\ at[Main] \in {"begin", "reset"} => \A t \in Thread : at[t] \notin Working
         /\ at[Main] = "reset" => \A t \in Thread :
              turn[t] <= turn[Main] /\ (turn[t] = turn[Main] => at[t] \in {"begin", "reset", "gate"})
         /\ at[Main] = "end" => \A t \in Thread :
              turn[t] > turn[Main] \/ (turn[t] = turn[Main] /\ at[t] \in Over)
         /\ \A t \in Thread : at[t] = "add" => data \in {turn[t], turn[t] + 1}
  <1>1. \A t \in Thread :
          /\ left[t] = 2 * turn[t] + Behind(at[t]) /\ turn[t] \in 0 .. Steps
          /\ left[t] <= entered[Main] /\ left[Main] <= entered[t]
          /\ entered[t] = IF pc[t] = "out" THEN left[t] ELSE left[t] + 1
    BY CallOrder DEF PlaceOK
  <1>2. ASSUME NEW t \in Thread, at[t] \in Working
        PROVE  /\ data = turn[t] /\ turn[Main] = turn[t] /\ Live
               /\ at[Main] \notin {"begin", "reset"}
    <2>1. /\ left[t] = 2 * turn[t] + 1 /\ entered[t] = left[t] /\ turn[t] # Steps
      BY <1>1, <1>2, BehindValues DEF PlaceOK, Working
    <2>2. turn[t] < Steps
      BY <1>1, <2>1
    <2>3. /\ at[Main] \in Label
          /\ pc[Main] # "out" =>
               at[Main] \in {"gate", "close", "shut"} \/ (at[Main] = "begin" /\ turn[Main] = Steps)
      BY DEF PlaceOK
    <2>4. /\ turn[t] \in Nat /\ turn[Main] \in Nat /\ turn[Main] <= Steps
          /\ 2 * turn[t] + 1 <= entered[Main]
          /\ 2 * turn[Main] + Behind(at[Main]) <= 2 * turn[t] + 1
          /\ entered[Main] = IF pc[Main] = "out" THEN 2 * turn[Main] + Behind(at[Main])
                                                 ELSE 2 * turn[Main] + Behind(at[Main]) + 1
      BY <1>1, <2>1
    <2>5. at[Main] \notin {"begin", "reset", "done", "add", "end"} /\ turn[Main] = turn[t]
      <3>1. CASE at[Main] \in {"begin", "reset"}
        <4>1. Behind(at[Main]) = 0
          BY <3>1, BehindValues
        <4>2. CASE pc[Main] = "out"
          <5>1. 2 * turn[t] + 1 <= 2 * turn[Main] /\ 2 * turn[Main] <= 2 * turn[t] + 1
            BY <2>4, <4>1, <4>2
          <5> QED BY <2>4, <5>1, Halves
        <4>3. CASE pc[Main] # "out"
          BY <2>2, <2>3, <2>4, <3>1, <4>1, <4>3
        <4> QED BY <4>2, <4>3
      <3>2. CASE at[Main] = "gate"
        BY <2>4, <3>2, BehindValues
      <3>3. CASE at[Main] \in Working \cup {"close", "shut"}
        BY <2>4, <3>3, BehindValues DEF Working
      <3>4. CASE at[Main] \in {"add", "end"}
        <4>1. Behind(at[Main]) = 2 /\ pc[Main] = "out"
          BY <2>3, <3>4, BehindValues
        <4>2. 2 * turn[t] + 1 <= 2 * turn[Main] + 2 /\ 2 * turn[Main] + 2 <= 2 * turn[t] + 1
          BY <2>4, <4>1
        <4> QED BY <2>4, <4>2, Halves
      <3>5. CASE at[Main] = "done"
        <4>1. turn[Main] = Steps
          BY <3>5 DEF PlaceOK
        <4> QED BY <2>2, <2>4, <3>5, <4>1, BehindValues
      <3> QED BY <2>3, <3>1, <3>2, <3>3, <3>4, <3>5 DEF Label, Over
    <2> QED BY <2>5 DEF PlaceOK, Live
  <1>3. ASSUME at[Main] = "reset", NEW t \in Thread
        PROVE  /\ turn[t] <= turn[Main]
               /\ turn[t] = turn[Main] => at[t] \in {"begin", "reset", "gate"}
    <2>1. entered[Main] = 2 * turn[Main]
      BY <1>1, <1>3, BehindValues DEF PlaceOK
    <2>2. at[t] \in Label
      BY DEF PlaceOK
    <2> QED BY <1>1, <2>1, <2>2, BehindValues DEF Label, Working, Over
  <1>4. ASSUME at[Main] = "end", NEW t \in Thread
        PROVE  turn[t] > turn[Main] \/ (turn[t] = turn[Main] /\ at[t] \in Over)
    <2>1. left[Main] = 2 * turn[Main] + 2
      BY <1>1, <1>4, BehindValues DEF PlaceOK
    <2>2. entered[t] >= 2 * turn[Main] + 2
      BY <1>1, <2>1
    <2>3. /\ at[t] \in Label
          /\ pc[t] # "out" => at[t] \in {"gate", "close", "shut"} \/ (at[t] = "begin" /\ turn[t] = Steps)
          /\ at[t] = "done" => turn[t] = Steps
          /\ turn[Main] # Steps
      BY <1>4 DEF PlaceOK
    <2> QED BY <1>1, <2>2, <2>3, BehindValues DEF Label, Working, Over
  <1>5. ASSUME NEW t \in Thread, at[t] = "add" PROVE data \in {turn[t], turn[t] + 1}
    <2>1. /\ left[t] = 2 * turn[t] + 2 /\ entered[t] = left[t] /\ turn[t] # Steps
      BY <1>1, <1>5, BehindValues DEF PlaceOK
    <2>2. turn[t] \in Nat /\ turn[t] < Steps /\ turn[Main] \in Nat
      BY <1>1, <2>1
    <2>3. /\ at[Main] \in Label
          /\ pc[Main] # "out" =>
               at[Main] \in {"gate", "close", "shut"} \/ (at[Main] = "begin" /\ turn[Main] = Steps)
      BY DEF PlaceOK
    <2>4. /\ 2 * turn[t] + 2 <= entered[Main]
          /\ 2 * turn[Main] + Behind(at[Main]) <= 2 * turn[t] + 2
          /\ entered[Main] = IF pc[Main] = "out" THEN 2 * turn[Main] + Behind(at[Main])
                                                 ELSE 2 * turn[Main] + Behind(at[Main]) + 1
      BY <1>1, <2>1
    <2>5. CASE at[Main] \in {"begin", "reset", "gate"}
      <3>1. turn[Main] = turn[t] + 1
        BY <2>2, <2>4, <2>5, BehindValues
      <3> QED BY <2>2, <2>5, <3>1 DEF PlaceOK
    <2>6. CASE at[Main] \in Working \cup {"close", "shut"}
      <3>1. Behind(at[Main]) = 1
        BY <2>6, BehindValues DEF Working
      <3>2. turn[Main] = turn[t]
        BY <2>2, <2>4, <3>1
      <3> QED BY <2>6, <3>2 DEF PlaceOK, Working
    <2>7. CASE at[Main] \in {"add", "end"}
      <3>1. turn[Main] = turn[t]
        BY <2>2, <2>3, <2>4, <2>7, BehindValues
      <3> QED BY <2>7, <3>1 DEF PlaceOK
    <2>8. CASE at[Main] = "done"
      <3>1. turn[Main] = Steps /\ Behind(at[Main]) = 1
        BY <2>8, BehindValues DEF PlaceOK
      <3> QED BY <2>2, <2>4, <3>1
    <2> QED BY <2>3, <2>5, <2>6, <2>7, <2>8 DEF Label, Over
  <1> QED BY <1>2, <1>3, <1>4, <1>5

\* A thread moves on between two calls of the barrier.
LEMMA MovePlace ==
  ASSUME PlaceOK, NEW t \in Thread, NEW l \in Label,
         at' = [at EXCEPT ![t] = l], UNCHANGED <<turn, pc, left, data>>,
         turn[t] # Steps, pc[t] = "out", Behind(l) = Behind(at[t]), l \notin {"begin", "done"},
         l = "reset" => t = Main,
         l \in {"copy", "copied"} => data \in HomeSteps,
         l \in {"draw", "block"} => data \notin HomeSteps,
         t = Main => data = turn[Main]
  PROVE  PlaceOK'
  BY DEF PlaceOK

\* A thread makes a step in a call of the barrier; when the call returns, it
\* is at label next.
LEMMA SyncPlace ==
  ASSUME IInv, PlaceOK, NEW t \in Thread, NEW next \in Label,
         Sync(t, at[t], next),
         \/ at[t] = "gate" /\ next = (IF data \in HomeSteps THEN "copy" ELSE "draw")
         \/ at[t] = "close" /\ next = "add"
         \/ at[t] = "shut" /\ next = "end"
         \/ at[t] = "begin" /\ turn[t] = Steps /\ next = "done"
  PROVE  PlaceOK'
  <1>1. Behind(next) = Behind(at[t]) + 1
    BY BehindValues
  <1>2. /\ at' = IF pc'[t] = "out" THEN [at EXCEPT ![t] = next] ELSE at
        /\ UNCHANGED <<turn, data>>
        /\ \A u \in Thread \ {t} : pc'[u] = pc[u] /\ left'[u] = left[u]
        /\ left'[t] = IF pc'[t] = "out" THEN left[t] + 1 ELSE left[t]
    BY SyncStep DEF Sync
  <1>3. at' \in [Thread -> Label]
    BY <1>2 DEF PlaceOK
  <1>4. ASSUME NEW u \in Thread
        PROVE  /\ left'[u] = 2 * turn'[u] + Behind(at'[u])
               /\ turn'[u] = Steps => at'[u] \in {"begin", "done"}
               /\ at'[u] = "done" => turn'[u] = Steps
               /\ pc'[u] # "out" =>
                    at'[u] \in {"gate", "close", "shut"} \/ (at'[u] = "begin" /\ turn'[u] = Steps)
               /\ at'[u] = "reset" => u = Main
               /\ at'[u] \in {"copy", "copied"} => data' \in HomeSteps
               /\ at'[u] \in {"draw", "block"} => data' \notin HomeSteps
    <2>1. CASE u # t
      BY <1>2, <2>1 DEF PlaceOK
    <2>2. CASE u = t /\ pc'[t] # "out"
      BY <1>2, <2>2 DEF PlaceOK
    <2>3. CASE u = t /\ pc'[t] = "out"
      <3>1. left'[t] = 2 * turn'[t] + Behind(at'[t]) /\ at'[t] = next
        <4>1. left[t] = 2 * turn[t] + Behind(at[t]) /\ turn[t] \in Nat
          BY DEF PlaceOK
        <4>2. Behind(at[t]) \in Nat
          BY BehindValues
        <4>3. at'[t] = next
          BY <1>2, <2>3 DEF PlaceOK
        <4> QED BY <1>1, <1>2, <2>3, <4>1, <4>2, <4>3
      <3> QED BY <1>2, <2>3, <3>1 DEF PlaceOK
    <2> QED BY <2>1, <2>2, <2>3
  <1>5. at'[Main] \notin {"begin", "done"} => data' = turn'[Main]
    BY <1>2 DEF PlaceOK
  <1>7. at'[Main] \in {"begin", "done"} => turn'[Main] = 0 \/ data' = turn'[Main] - 1
    BY <1>2 DEF PlaceOK
  <1>6. turn' \in [Thread -> 0 .. Steps] /\ data' \in Nat
    BY <1>2 DEF PlaceOK
  <1> QED BY <1>3, <1>4, <1>5, <1>6, <1>7 DEF PlaceOK

LEMMA NextPlace ==
  ASSUME IInv, PlaceOK, [BmpNext]_bmpVars
  PROVE  PlaceOK'
  <1>1. CASE UNCHANGED bmpVars
    BY <1>1 DEF bmpVars, syncVars, vars, PlaceOK
  <1>2. CASE Publish
    <2>1. \A t \in Thread : at[t] \notin Working
      BY <1>2, Together DEF Publish
    <2>2. /\ at' = [at EXCEPT ![Main] = "reset"] /\ data' = turn[Main]
          /\ UNCHANGED <<turn, pc, left>> /\ at[Main] = "begin" /\ turn[Main] < Steps
      BY <1>2 DEF Publish, GoTo, syncVars, vars
    <2> QED BY <2>1, <2>2, BehindValues DEF PlaceOK, Label, Working
  <1>3. ASSUME NEW t \in Thread, at[t] \in {"begin", "reset"}, turn[t] # Steps,
               at' = [at EXCEPT ![t] = "gate"], UNCHANGED <<turn, pc, left, data>>,
               t = Main => at[t] = "reset"
        PROVE  PlaceOK'
    <2>1. "gate" \in Label /\ Behind("gate") = Behind(at[t])
      BY <1>3, BehindValues DEF Label
    <2>2. pc[t] = "out" /\ (t = Main => data = turn[Main])
      BY <1>3 DEF PlaceOK
    <2> QED BY <1>3, <2>1, <2>2, MovePlace
  <1>4. CASE ResetCounter
    <2>1. at[Main] = "reset" /\ turn[Main] # Steps
      BY <1>4 DEF ResetCounter, PlaceOK
    <2> QED BY <1>3, <1>4, <2>1 DEF ResetCounter, GoTo, syncVars, vars
  <1>14. ASSUME NEW t \in Thread, SkipPublish(t) PROVE PlaceOK'
    <2>1. t # Main /\ at[t] = "begin" /\ turn[t] # Steps
      BY <1>14 DEF SkipPublish, PlaceOK
    <2> QED BY <1>3, <1>14, <2>1 DEF SkipPublish, GoTo, syncVars, vars
  <1>5. ASSUME NEW t \in Thread, Gate(t) PROVE PlaceOK'
    <2> DEFINE next == IF data \in HomeSteps THEN "copy" ELSE "draw"
    <2>1. at[t] = "gate" /\ next \in Label
      BY <1>5 DEF Gate, Sync, Label, Working
    <2>2. Sync(t, at[t], next)
      BY <1>5, <2>1 DEF Gate
    <2> QED BY <2>1, <2>2, SyncPlace
  <1>6. ASSUME NEW t \in Thread, at[t] \in Working, NEW l \in Label,
               GoTo(t, l), UNCHANGED <<turn, pc, left, data>>,
               \/ l \in {"close", "shut"}
               \/ l \in {"draw", "block"} /\ at[t] \in {"draw", "block"}
               \/ l = "copied" /\ at[t] = "copy"
        PROVE  PlaceOK'
    <2>1. Behind(l) = 1 /\ Behind(at[t]) = 1
      BY <1>6, BehindValues DEF Working
    <2>2. data = turn[t] /\ turn[t] # Steps /\ pc[t] = "out"
      BY <1>6, Together DEF PlaceOK, Working
    <2> QED BY <1>6, <2>1, <2>2, MovePlace DEF PlaceOK, GoTo
  <1>7. ASSUME NEW t \in Thread, Draw(t) PROVE PlaceOK'
    <2> DEFINE l == IF counter < Blocks THEN "block" ELSE "close"
    <2>1. at[t] = "draw" /\ GoTo(t, l) /\ UNCHANGED <<turn, pc, left, data>>
      BY <1>7 DEF Draw, syncVars, vars
    <2>2. l \in Label /\ l \in {"block", "close"} /\ at[t] \in Working
      BY <2>1 DEF Label, Working, Over
    <2> HIDE DEF l
    <2> QED BY <1>6, <2>1, <2>2 DEF Label, Working
  <1>8. ASSUME NEW t \in Thread, SearchBlock(t) PROVE PlaceOK'
    <2>1. /\ at[t] = "block" /\ GoTo(t, "draw")
          /\ UNCHANGED <<turn, pc, left, data>>
      BY <1>8 DEF SearchBlock, syncVars, vars
    <2>2. "draw" \in Label /\ at[t] \in Working
      BY <2>1 DEF Label, Working
    <2> QED BY <1>6, <2>1, <2>2 DEF Label, Working
  <1>9. ASSUME NEW t \in Thread, CopyShare(t) PROVE PlaceOK'
    BY <1>6, <1>9 DEF CopyShare, syncVars, vars, Label, Working
  <1>10. ASSUME NEW t \in Thread, OmpForEnd(t) PROVE PlaceOK'
    <2>1. CASE UNCHANGED at
      BY <1>10, <2>1 DEF OmpForEnd, vars, PlaceOK
    <2>2. CASE GoTo(t, "shut")
      <3>1. /\ at[t] = "copied" /\ GoTo(t, "shut")
            /\ UNCHANGED <<turn, pc, left, data>>
        BY <1>10, <2>2 DEF OmpForEnd, vars
      <3>2. "shut" \in Label /\ at[t] \in Working
        BY <3>1 DEF Label, Working, Over
      <3> QED BY <1>6, <3>1, <3>2 DEF Label, Working
    <2> QED BY <1>10, <2>1, <2>2 DEF OmpForEnd
  <1>11. ASSUME NEW t \in Thread, Close(t) PROVE PlaceOK'
    <2>1. at[t] = "close" /\ "add" \in Label /\ Sync(t, at[t], "add")
      BY <1>11 DEF Close, Sync, Label, Over
    <2> QED BY <2>1, SyncPlace
  <1>15. ASSUME NEW t \in Thread, CopyClose(t) PROVE PlaceOK'
    <2>1. at[t] = "shut" /\ "end" \in Label /\ Sync(t, at[t], "end")
      BY <1>15 DEF CopyClose, Sync, Label, Over
    <2> QED BY <2>1, SyncPlace
  <1>16. ASSUME NEW t \in Thread, AddCount(t) PROVE PlaceOK'
    <2>1. /\ at[t] = "add" /\ at' = [at EXCEPT ![t] = "end"]
          /\ UNCHANGED <<turn, pc, left, data>>
      BY <1>16 DEF AddCount, GoTo, syncVars, vars
    <2>2. "end" \in Label /\ Behind("end") = Behind(at[t])
      BY <2>1, BehindValues DEF Label, Over
    <2>3. turn[t] # Steps /\ pc[t] = "out" /\ (t = Main => data = turn[Main])
      BY <2>1 DEF PlaceOK
    <2> QED BY <2>1, <2>2, <2>3, MovePlace
  <1>12. ASSUME NEW t \in Thread, EndStep(t) PROVE PlaceOK'
    <2>1. /\ at' = [at EXCEPT ![t] = "begin"] /\ turn' = [turn EXCEPT ![t] = @ + 1]
          /\ UNCHANGED <<pc, left, data>> /\ at[t] = "end"
      BY <1>12 DEF EndStep, GoTo, syncVars, vars
    <2>2. turn[t] \in 0 .. Steps /\ turn[t] # Steps /\ pc[t] = "out"
      BY <2>1 DEF PlaceOK
    <2>3. turn[t] + 1 \in 0 .. Steps
      BY <2>2
    <2>4. left[t] = 2 * (turn[t] + 1)
      BY <2>1, <2>2, BehindValues DEF PlaceOK
    <2>5. t = Main => data = turn[t]
      BY <2>1 DEF PlaceOK
    <2> QED BY <2>1, <2>2, <2>3, <2>4, <2>5, BehindValues DEF PlaceOK, Label
  <1>13. ASSUME NEW t \in Thread, Finish(t) PROVE PlaceOK'
    <2>1. at[t] = "begin" /\ turn[t] = Steps /\ "done" \in Label /\ Sync(t, at[t], "done")
      BY <1>13 DEF Finish, Sync, Label
    <2> QED BY <2>1, SyncPlace
  <1> QED
    BY <1>1, <1>2, <1>4, <1>5, <1>14, <1>7, <1>8, <1>9, <1>10, <1>11, <1>12, <1>13,
       <1>15, <1>16
       DEF BmpNext, ThreadStep

-----------------------------------------------------------------------------
(* Passes *)

\* The slice under way is that of a step, the main thread's.
LEMMA LiveStep ==
  ASSUME PlaceOK, Live
  PROVE  data = turn[Main] /\ data \in Step
  BY DEF PlaceOK, Live, Step

\* Two threads have no block of a copy in common, and each block has a thread.
LEMMA OneSharer ==
  ASSUME NEW b \in Block
  PROVE  /\ \E t \in Thread : b \in Share[t]
         /\ \A t, u \in Thread : b \in Share[t] /\ b \in Share[u] => t = u
  <1> DEFINE S == {t \in Thread : b \in Share[t]}
  <1>1. Cardinality(S) = 1 /\ IsFiniteSet(S)
    BY FS_Subset DEF Block
  <1>2. PICK t \in S : S = {t}
    BY <1>1, FS_Singleton
  <1> QED BY <1>2

\* Steps of which the passes know nothing: no thread takes or leaves a block,
\* or gets past the copy.
Quiet ==
  /\ UNCHANGED <<turn, data, counter, off, passes, sent>>
  /\ \A t \in Thread :
       /\ at'[t] = "block" <=> at[t] = "block"
       /\ at'[t] \in {"copied"} \cup Over <=> at[t] \in {"copied"} \cup Over
  /\ Live' <=> Live
  /\ at'[Main] \in {"begin", "reset"} => at[Main] \in {"begin", "reset"}
  /\ at'[Main] \in Over => at[Main] \in Over \/ data \in HomeSteps

LEMMA QuietRest ==
  ASSUME Rest, Quiet
  PROVE  Rest'
  <1>1. \A b : InHand(b)' <=> InHand(b)
    BY DEF Quiet, InHand
  <1>2. \A t \in Thread : Copied(t)' <=> Copied(t)
    BY DEF Quiet, Copied
  <1>3. PassesOK'
    <2>1. Live' => \A b \in Block :
       /\ data' \notin HomeSteps =>
            passes'[data'][b] = IF b < counter' /\ ~ InHand(b)' THEN 1 ELSE 0
       /\ data' \in HomeSteps =>
            passes'[data'][b] = IF \E t \in Thread : b \in Share[t] /\ Copied(t)' THEN 1 ELSE 0
      BY <1>1, <1>2 DEF Rest, Quiet, PassesOK
    <2> QED BY <2>1 DEF Rest, Quiet, PassesOK
  <1>4. DrawsOK'
    BY DEF Rest, Quiet, DrawsOK
  <1>5. SentOK'
    BY DEF Rest, Quiet, SentOK
  <1> QED BY <1>3, <1>4, <1>5 DEF Rest

\* The main thread starts a step.
LEMMA ResetRest ==
  ASSUME IInv, PlaceOK, Rest, ResetCounter
  PROVE  Rest'
  <1>1. /\ at[Main] = "reset" /\ at' = [at EXCEPT ![Main] = "gate"] /\ counter' = 0
        /\ UNCHANGED <<turn, data, off, passes, sent>>
    BY DEF ResetCounter, GoTo
  <1>2. data = turn[Main] /\ data \in Step /\ at'[Main] = "gate"
    BY <1>1 DEF PlaceOK, Step
  <1>3. \A b \in Block : passes[data][b] = 0
    BY <1>1, <1>2 DEF Rest, PassesOK
  <1>4. \A t \in Thread : at[t] # "block" /\ ~ Copied(t)'
    <2> SUFFICES ASSUME NEW t \in Thread PROVE at[t] # "block" /\ ~ Copied(t)'
      OBVIOUS
    <2>1. /\ at[t] # "block" /\ turn[t] <= data /\ turn[t] \in Nat /\ data \in Nat
          /\ turn[t] = data => at[t] \in {"begin", "reset", "gate"}
      BY <1>1, <1>2, Together DEF Working, PlaceOK
    <2>2. at'[t] = at[t] \/ at'[t] = "gate"
      BY <1>1 DEF PlaceOK
    <2> QED BY <1>1, <2>1, <2>2 DEF Copied, Over
  <1>5. PassesOK'
    <2>1. \A b \in Block : ~ (b < counter')
      BY <1>1 DEF Block
    <2>2. \A b \in Block :
       /\ data' \notin HomeSteps =>
            passes'[data'][b] = IF b < counter' /\ ~ InHand(b)' THEN 1 ELSE 0
       /\ data' \in HomeSteps =>
            passes'[data'][b] = IF \E t \in Thread : b \in Share[t] /\ Copied(t)' THEN 1 ELSE 0
      BY <1>1, <1>3, <1>4, <2>1
    <2> QED BY <1>1, <1>2, <2>2 DEF Rest, PassesOK
  <1>6. DrawsOK'
    <2>1. \A t \in Thread : at'[t] # "block"
      BY <1>1, <1>4 DEF PlaceOK
    <2> QED BY <1>1, <1>2, <2>1 DEF Rest, DrawsOK, Over
  <1>7. SentOK'
    BY <1>1 DEF Rest, SentOK
  <1> QED BY <1>5, <1>6, <1>7 DEF Rest

\* A thread draws a block, or finds that there are no more.
LEMMA DrawRest ==
  ASSUME IInv, PlaceOK, Rest, NEW t \in Thread, Draw(t)
  PROVE  Rest'
  <1> DEFINE l == IF counter < Blocks THEN "block" ELSE "close"
  <1>1. /\ at[t] = "draw" /\ at' = [at EXCEPT ![t] = l] /\ counter' = counter + 1
        /\ off' = [off EXCEPT ![t] = counter] /\ UNCHANGED <<turn, data, passes, sent>>
    BY DEF Draw, GoTo
  <1>2. /\ Live /\ data = turn[Main] /\ data \in Step /\ data \notin HomeSteps
    BY <1>1, Together, LiveStep DEF Working, PlaceOK
  <1>3. /\ off \in [Thread -> Nat] /\ counter \in Nat
        /\ \A u \in Thread \ {t} : at'[u] = at[u] /\ off'[u] = off[u]
        /\ at'[t] = l /\ off'[t] = counter
    <2>1. at \in [Thread -> Label] /\ off \in [Thread -> Nat] /\ counter \in Nat
      BY DEF Rest, DrawsOK, PlaceOK
    <2> HIDE DEF l
    <2> QED BY <1>1, <2>1
  <1>4. at'[Main] \notin {"begin", "reset"}
    BY <1>2, <1>3 DEF Live
  <1>5. \A b \in Block : (b < counter' /\ ~ InHand(b)') <=> (b < counter /\ ~ InHand(b))
    <2> SUFFICES ASSUME NEW b \in Block
                 PROVE  (b < counter' /\ ~ InHand(b)') <=> (b < counter /\ ~ InHand(b))
      OBVIOUS
    <2>1. CASE counter < Blocks
      <3>1. InHand(b)' <=> InHand(b) \/ b = counter
        BY <1>1, <1>3, <2>1 DEF InHand
      <3> QED BY <1>1, <1>3, <3>1 DEF Block
    <2>2. CASE ~ (counter < Blocks)
      <3>1. InHand(b)' <=> InHand(b)
        BY <1>1, <1>3, <2>2 DEF InHand
      <3>2. b < counter /\ b < counter'
        BY <1>1, <1>3, <2>2 DEF Block
      <3> QED BY <3>1, <3>2
    <2> QED BY <2>1, <2>2
  <1>6. PassesOK'
    <2>1. \A b \in Block :
            passes'[data'][b] = IF b < counter' /\ ~ InHand(b)' THEN 1 ELSE 0
      BY <1>1, <1>2, <1>5 DEF Rest, PassesOK
    <2> QED BY <1>1, <1>2, <1>4, <2>1 DEF Rest, PassesOK
  <1>7. DrawsOK'
    <2>1. counter' \in Nat /\ off' \in [Thread -> Nat]
      BY <1>1, <1>3
    <2>2. \A u \in Thread : at'[u] = "block" => off'[u] \in Block /\ off'[u] < counter'
      BY <1>1, <1>3 DEF Rest, DrawsOK, Block
    <2>3. \A u \in Thread \ {t} : at'[u] = "block" => off'[u] < counter
      BY <1>3 DEF Rest, DrawsOK
    <2>4. \A u, v \in Thread : at'[u] = "block" /\ at'[v] = "block" /\ off'[u] = off'[v] => u = v
      BY <1>3, <2>3 DEF Rest, DrawsOK
    <2>5. at'[Main] \in Over => counter' >= Blocks
      BY <1>1, <1>2, <1>3 DEF Rest, DrawsOK, Over
    <2> QED BY <2>1, <2>2, <2>4, <2>5 DEF DrawsOK
  <1>8. SentOK'
    BY <1>1 DEF Rest, SentOK
  <1> QED BY <1>6, <1>7, <1>8 DEF Rest

\* A thread goes over the block it drew.
LEMMA SearchRest ==
  ASSUME IInv, PlaceOK, Rest, NEW t \in Thread, SearchBlock(t)
  PROVE  Rest'
  <1>1. /\ at[t] = "block" /\ at' = [at EXCEPT ![t] = "draw"]
        /\ passes' = [passes EXCEPT ![data][off[t]] = @ + 1]
        /\ UNCHANGED <<turn, data, counter, off, sent>>
    BY DEF SearchBlock, GoTo
  <1>2. Live /\ data = turn[Main] /\ data \in Step /\ data \notin HomeSteps
    BY <1>1, Together, LiveStep DEF Working, PlaceOK
  <1>3. /\ \A u \in Thread \ {t} : at'[u] = at[u]
        /\ at'[t] = "draw" /\ at'[Main] \notin {"begin", "reset"}
    BY <1>1, <1>2 DEF Live, PlaceOK
  <1>4. off[t] \in Block /\ off[t] < counter /\ InHand(off[t])
    BY <1>1 DEF Rest, DrawsOK, InHand
  <1>5. ~ InHand(off[t])' /\ \A b \in Block \ {off[t]} : InHand(b)' <=> InHand(b)
    BY <1>1, <1>3 DEF Rest, DrawsOK, InHand
  <1>6. passes \in [Step -> [Block -> Nat]] /\ passes[data][off[t]] = 0
    BY <1>2, <1>4 DEF Rest, PassesOK
  <1>7. /\ passes' \in [Step -> [Block -> Nat]]
        /\ \A s \in Step, b \in Block : passes'[s][b] =
             IF s = data /\ b = off[t] THEN 1 ELSE passes[s][b]
    BY <1>1, <1>2, <1>4, <1>6
  <1>8. PassesOK'
    <2>1. \A b \in Block :
            passes'[data'][b] = IF b < counter' /\ ~ InHand(b)' THEN 1 ELSE 0
      BY <1>1, <1>2, <1>4, <1>5, <1>7 DEF Rest, PassesOK
    <2>2. \A s \in Step, b \in Block :
            /\ s > turn'[Main] => passes'[s][b] = 0
            /\ s < turn'[Main] => passes'[s][b] = 1
      <3>1. \A s \in Step : s > turn[Main] \/ s < turn[Main] => s # data
        BY <1>2 DEF Step
      <3> QED BY <1>1, <1>7, <3>1 DEF Rest, PassesOK
    <2> QED BY <1>1, <1>2, <1>3, <1>7, <2>1, <2>2 DEF PassesOK
  <1>9. DrawsOK'
    BY <1>1, <1>3 DEF Rest, DrawsOK, Over
  <1>10. SentOK'
    BY <1>1 DEF Rest, SentOK
  <1> QED BY <1>8, <1>9, <1>10 DEF Rest

\* A thread copies its share of a slice that came home.
LEMMA CopyRest ==
  ASSUME IInv, PlaceOK, Rest, NEW t \in Thread, CopyShare(t)
  PROVE  Rest'
  <1>1. /\ at[t] = "copy" /\ at' = [at EXCEPT ![t] = "copied"]
        /\ passes' = [passes EXCEPT ![data] = [b \in Block |->
                         IF b \in Share[t] THEN @[b] + 1 ELSE @[b]]]
        /\ UNCHANGED <<turn, data, counter, off, sent>>
    BY DEF CopyShare, GoTo
  <1>2. Live /\ data = turn[Main] /\ data = turn[t] /\ data \in Step /\ data \in HomeSteps
    BY <1>1, Together, LiveStep DEF Working, PlaceOK
  <1>3. /\ \A u \in Thread \ {t} : at'[u] = at[u]
        /\ at'[t] = "copied" /\ at'[Main] \notin {"begin", "reset"}
    BY <1>1, <1>2 DEF Live, PlaceOK
  <1>4. ~ Copied(t) /\ Copied(t)' /\ \A u \in Thread \ {t} : Copied(u)' <=> Copied(u)
    <2>1. data \in Nat
      BY <1>2 DEF Step
    <2> QED BY <1>1, <1>2, <1>3, <2>1 DEF Copied, Over
  <1>5. passes \in [Step -> [Block -> Nat]]
    BY DEF Rest, PassesOK
  <1>6. \A b \in Block : b \in Share[t] => passes[data][b] = 0
    BY <1>2, <1>4, OneSharer DEF Rest, PassesOK
  <1>7. /\ passes' \in [Step -> [Block -> Nat]]
        /\ \A s \in Step, b \in Block : passes'[s][b] =
             IF s = data /\ b \in Share[t] THEN 1 ELSE passes[s][b]
    BY <1>1, <1>2, <1>5, <1>6
  <1>8. PassesOK'
    <2>1. \A b \in Block : passes'[data'][b] =
            IF \E u \in Thread : b \in Share[u] /\ Copied(u)' THEN 1 ELSE 0
      BY <1>1, <1>2, <1>4, <1>7, OneSharer DEF Rest, PassesOK
    <2>2. \A s \in Step, b \in Block :
            /\ s > turn'[Main] => passes'[s][b] = 0
            /\ s < turn'[Main] => passes'[s][b] = 1
      BY <1>1, <1>2, <1>7 DEF Rest, PassesOK, Step
    <2> QED BY <1>1, <1>2, <1>3, <1>7, <2>1, <2>2 DEF PassesOK
  <1>9. DrawsOK'
    BY <1>1, <1>2, <1>3 DEF Rest, DrawsOK
  <1>10. SentOK'
    BY <1>1 DEF Rest, SentOK
  <1> QED BY <1>8, <1>9, <1>10 DEF Rest

\* A thread ends a step; the slice of the main thread's step is complete then.
LEMMA EndRest ==
  ASSUME IInv, PlaceOK, Rest, NEW t \in Thread, EndStep(t)
  PROVE  Rest'
  <1>1. /\ at[t] = "end" /\ at' = [at EXCEPT ![t] = "begin"]
        /\ sent' = IF t = Main /\ data \notin HomeSteps THEN sent \cup {data} ELSE sent
        /\ turn' = [turn EXCEPT ![t] = @ + 1]
        /\ UNCHANGED <<data, counter, off, passes>>
    BY DEF EndStep, GoTo
  <1>2. /\ \A u \in Thread \ {t} : at'[u] = at[u] /\ turn'[u] = turn[u]
        /\ at'[t] = "begin" /\ turn'[t] = turn[t] + 1
        /\ turn \in [Thread -> 0 .. Steps]
    BY <1>1 DEF PlaceOK
  <1>3. \A u \in Thread : at'[u] = "block" <=> at[u] = "block"
    BY <1>1, <1>2
  <1>4. DrawsOK'
    BY <1>1, <1>2, <1>3 DEF Rest, DrawsOK, Over
  <1>5. CASE t # Main
    <2>1. turn'[Main] = turn[Main] /\ at'[Main] = at[Main] /\ (Live' <=> Live)
      BY <1>2, <1>5 DEF Live
    <2>2. \A b : InHand(b)' <=> InHand(b)
      BY <1>1, <1>3 DEF InHand
    <2>3. \A u \in Thread : Copied(u)' <=> Copied(u)
      <3>1. data \in Nat
        BY DEF PlaceOK
      <3> QED BY <1>1, <1>2, <3>1 DEF Copied, Over
    <2>4. Live' => \A b \in Block :
       /\ data' \notin HomeSteps =>
            passes'[data'][b] = IF b < counter' /\ ~ InHand(b)' THEN 1 ELSE 0
       /\ data' \in HomeSteps =>
            passes'[data'][b] = IF \E u \in Thread : b \in Share[u] /\ Copied(u)' THEN 1 ELSE 0
      BY <1>1, <2>1, <2>2, <2>3 DEF Rest, PassesOK
    <2>5. PassesOK'
      BY <1>1, <2>1, <2>4 DEF Rest, PassesOK
    <2>6. SentOK'
      BY <1>1, <1>5, <2>1 DEF Rest, SentOK
    <2> QED BY <1>4, <2>5, <2>6 DEF Rest
  <1>6. CASE t = Main
    <2>1. Live /\ data = turn[Main] /\ data \in Step /\ ~ Live'
      BY <1>1, <1>2, <1>6, LiveStep DEF Live
    <2>2. \A u \in Thread :
            turn[u] > data \/ (turn[u] = data /\ at[u] \in Over)
      BY <1>1, <1>6, <2>1, Together
    <2>3. ASSUME NEW b \in Block PROVE passes[data][b] = 1
      <3>1. CASE data \in HomeSteps
        <4>1. \A u \in Thread : Copied(u)
          BY <2>2 DEF Copied
        <4> QED BY <2>1, <3>1, <4>1, OneSharer DEF Rest, PassesOK
      <3>2. CASE data \notin HomeSteps
        <4>1. \A u \in Thread : at[u] # "block"
          BY <2>1, <2>2, Together DEF Working, Step, Over
        <4>2. b < counter
          BY <1>1, <1>6, <3>2 DEF Rest, DrawsOK, Block, Over
        <4> QED BY <2>1, <3>2, <4>1, <4>2 DEF Rest, PassesOK, InHand
      <3> QED BY <3>1, <3>2
    <2>4. PassesOK'
      <3>1. turn'[Main] = data + 1 /\ data \in Nat
        BY <1>2, <1>6, <2>1 DEF Step
      <3>2. ASSUME NEW s \in Step, NEW b \in Block
            PROVE  /\ s >= data + 1 => passes[s][b] = 0
                   /\ s < data + 1 => passes[s][b] = 1
        BY <2>1, <2>3, <3>1 DEF Rest, PassesOK, Step
      <3> QED BY <1>1, <2>1, <3>1, <3>2 DEF Rest, PassesOK, Step
    <2>5. SentOK'
      BY <1>1, <1>2, <1>6, <2>1 DEF Rest, SentOK, Step
    <2> QED BY <1>4, <2>4, <2>5 DEF Rest
  <1> QED BY <1>5, <1>6

LEMMA NextRest ==
  ASSUME IInv, PlaceOK, Rest, [BmpNext]_bmpVars
  PROVE  Rest'
  <1>1. CASE UNCHANGED bmpVars
    BY <1>1, QuietRest DEF bmpVars, Quiet, Live
  <1>2. CASE Publish
    <2>1. at[Main] = "begin" /\ at' = [at EXCEPT ![Main] = "reset"]
          /\ UNCHANGED <<turn, counter, off, passes, sent>>
      BY <1>2 DEF Publish, GoTo
    <2>2. at'[Main] = "reset" /\ \A t \in Thread : at'[t] = "block" <=> at[t] = "block"
      BY <2>1 DEF PlaceOK
    <2>3. PassesOK' /\ DrawsOK' /\ SentOK'
      BY <2>1, <2>2 DEF Rest, PassesOK, DrawsOK, SentOK, Live, Over
    <2> QED BY <2>3 DEF Rest
  <1>3. CASE ResetCounter
    BY <1>3, ResetRest
  <1>4. ASSUME NEW t \in Thread, NEW l,
               at' = [at EXCEPT ![t] = l], UNCHANGED <<turn, data, counter, off, passes, sent>>,
               \/ t # Main /\ at[t] = "begin" /\ l = "gate"
               \/ at[t] = "gate" /\ l \in {"copy", "draw"}
               \/ at[t] = "copied" /\ l = "shut"
               \/ at[t] = "close" /\ l = "add"
               \/ at[t] \in {"shut", "add"} /\ l = "end"
               \/ at[t] = "begin" /\ l = "done"
        PROVE  Rest'
    <2>1. at'[t] = l /\ \A u \in Thread \ {t} : at'[u] = at[u]
      BY <1>4 DEF PlaceOK
    <2>2. at[t] = "copied" => data \in HomeSteps
      BY DEF PlaceOK
    <2>3. Quiet
      BY <1>4, <2>1, <2>2 DEF Quiet, Live, Over
    <2> QED BY <2>3, QuietRest
  <1>5. ASSUME UNCHANGED <<at, turn, data, counter, off, passes, sent>>
        PROVE  Rest'
    BY <1>5, QuietRest DEF Quiet, Live
  <1>6. ASSUME NEW t \in Thread, SkipPublish(t) PROVE Rest'
    BY <1>4, <1>6 DEF SkipPublish, GoTo
  <1>7. ASSUME NEW t \in Thread, NEW l, NEW next, Sync(t, l, next),
               \/ l = "gate" /\ next \in {"copy", "draw"}
               \/ l = "close" /\ next = "add"
               \/ l = "shut" /\ next = "end"
               \/ l = "begin" /\ next = "done"
        PROVE  Rest'
    BY <1>4, <1>5, <1>7 DEF Sync
  <1>8. ASSUME NEW t \in Thread, Gate(t) \/ CopyClose(t) \/ Close(t) \/ Finish(t) PROVE Rest'
    <2> DEFINE next == IF data \in HomeSteps THEN "copy" ELSE "draw"
    <2>1. next \in {"copy", "draw"}
      OBVIOUS
    <2> QED BY <1>7, <1>8, <2>1 DEF Gate, CopyClose, Close, Finish
  <1>9. ASSUME NEW t \in Thread, OmpForEnd(t) PROVE Rest'
    BY <1>4, <1>5, <1>9 DEF OmpForEnd, GoTo
  <1>10. ASSUME NEW t \in Thread, AddCount(t) PROVE Rest'
    BY <1>4, <1>10 DEF AddCount, GoTo
  <1> QED
    BY <1>1, <1>2, <1>3, <1>6, <1>8, <1>9, <1>10, DrawRest, SearchRest, CopyRest, EndRest
       DEF BmpNext, ThreadStep

-----------------------------------------------------------------------------
(* What is found *)

\* A step that searches no block and counts nothing.
LEMMA SameCounts ==
  ASSUME PlaceOK, CountsOK, NEW t \in Thread, NEW l,
         at' = [at EXCEPT ![t] = l] \/ at' = at, UNCHANGED <<turn, passes, mine, cells>>,
         at[t] \in {"draw", "block", "close", "add"} => l \in {"draw", "block", "close", "add"}
  PROVE  CountsOK'
  <1>1. \A u \in Thread : at[u] \in {"draw", "block", "close", "add"} =>
                          at'[u] \in {"draw", "block", "close", "add"}
    BY DEF PlaceOK
  <1> QED BY <1>1 DEF CountsOK

\* The finds of a block go to the thread that drew it; nobody else had it.
LEMMA SearchCounts ==
  ASSUME IInv, PlaceOK, Rest, CountsOK, NEW t \in Thread, SearchBlock(t)
  PROVE  CountsOK'
  <1>1. /\ at[t] = "block" /\ at' = [at EXCEPT ![t] = "draw"]
        /\ passes' = [passes EXCEPT ![data][off[t]] = @ + 1]
        /\ mine' = [mine EXCEPT ![t] = @ \cup {off[t]}]
        /\ UNCHANGED <<turn, cells>>
    BY DEF SearchBlock, GoTo
  <1>2. Live /\ data = turn[t] /\ data = turn[Main] /\ data \in Step /\ data \notin HomeSteps
    BY <1>1, Together, LiveStep DEF Working, PlaceOK
  <1>3. off[t] \in Block /\ InHand(off[t])
    BY <1>1 DEF Rest, DrawsOK, InHand
  <1>4. passes \in [Step -> [Block -> Nat]] /\ passes[data][off[t]] = 0
    BY <1>2, <1>3 DEF Rest, PassesOK
  <1>5. \A s \in Step, b \in Block :
          passes'[s][b] = IF s = data /\ b = off[t] THEN 1 ELSE passes[s][b]
    BY <1>1, <1>2, <1>3, <1>4
  <1>6. \A u \in Thread : turn[u] = data => off[t] \notin mine[u]
    BY <1>4 DEF CountsOK
  <1>7. cells[data][off[t]] = <<>>
    BY <1>2, <1>3, <1>4 DEF CountsOK
  <1>8. /\ mine \in [Thread -> SUBSET Block] /\ at \in [Thread -> Label]
        /\ mine' \in [Thread -> SUBSET Block]
        /\ mine'[t] = mine[t] \cup {off[t]} /\ at'[t] = "draw"
        /\ \A u \in Thread \ {t} : mine'[u] = mine[u] /\ at'[u] = at[u]
    BY <1>1, <1>3 DEF CountsOK, PlaceOK
  <1>9. ASSUME NEW u \in Thread, mine'[u] # {}
        PROVE  at'[u] \in {"draw", "block", "close", "add"} /\ turn'[u] \in Step \ HomeSteps
    <2>1. CASE u = t
      BY <1>1, <1>2, <1>8, <2>1
    <2>2. CASE u # t
      <3>1. mine[u] # {} /\ at'[u] = at[u] /\ turn'[u] = turn[u]
        BY <1>1, <1>8, <1>9, <2>2
      <3> QED BY <3>1 DEF CountsOK
    <2> QED BY <2>1, <2>2
  <1>10. ASSUME NEW u \in Thread, NEW b \in mine'[u]
         PROVE  passes'[turn'[u]][b] = 1 /\ cells'[turn'[u]][b] = <<>>
    <2>1. turn[u] \in Step /\ b \in Block
      BY <1>1, <1>8, <1>9, <1>10
    <2>2. CASE u = t /\ b = off[t]
      <3>1. turn'[u] = data /\ cells' = cells
        BY <1>1, <1>2, <2>2
      <3>2. passes'[data][off[t]] = 1
        BY <1>2, <1>3, <1>5
      <3> QED BY <1>7, <2>2, <3>1, <3>2
    <2>3. CASE b \in mine[u]
      BY <1>1, <1>5, <2>1, <2>3 DEF CountsOK
    <2> QED BY <1>8, <1>10, <2>2, <2>3
  <1>11. ASSUME NEW u \in Thread, NEW v \in Thread,
                turn'[u] = turn'[v], mine'[u] \cap mine'[v] # {}
         PROVE  u = v
    <2>1. turn[u] = turn[v]
      BY <1>1, <1>11
    <2>2. CASE u # t /\ v # t
      BY <1>8, <1>11, <2>1, <2>2 DEF CountsOK
    <2>3. CASE u = t /\ v # t
      <3>1. mine[t] \cap mine[v] # {}
        BY <1>2, <1>6, <1>8, <1>11, <2>1, <2>3
      <3> QED BY <2>1, <2>3, <3>1 DEF CountsOK
    <2>4. CASE v = t /\ u # t
      <3>1. mine[u] \cap mine[t] # {}
        BY <1>2, <1>6, <1>8, <1>11, <2>1, <2>4
      <3> QED BY <2>1, <2>4, <3>1 DEF CountsOK
    <2> QED BY <2>2, <2>3, <2>4
  <1>12. ASSUME NEW s \in Step \ HomeSteps, NEW b \in Block
         PROVE  /\ cells'[s][b] \in {<<>>, <<RoutedCount(s)>>}
                /\ passes'[s][b] = 0 => cells'[s][b] = <<>>
                /\ passes'[s][b] = 1 /\ cells'[s][b] = <<>> =>
                     \E u \in Thread : turn'[u] = s /\ b \in mine'[u]
    <2>1. CASE s = data /\ b = off[t]
      BY <1>1, <1>2, <1>5, <1>7, <1>8, <2>1
    <2>2. CASE ~ (s = data /\ b = off[t])
      <3>1. passes'[s][b] = passes[s][b] /\ cells'[s][b] = cells[s][b]
        BY <1>1, <1>5, <2>2
      <3>2. \A u \in Thread : b \in mine[u] => b \in mine'[u]
        BY <1>8
      <3> QED BY <1>1, <3>1, <3>2 DEF CountsOK
    <2> QED BY <2>1, <2>2
  <1>13. cells' \in [Step -> [Block -> Seq(Nat)]]
    BY <1>1 DEF CountsOK
  <1> QED BY <1>8, <1>9, <1>10, <1>11, <1>12, <1>13 DEF CountsOK

\* A thread adds its finds where the description says, be it that of its step
\* or already the next one.
LEMMA AddCounts ==
  ASSUME PlaceOK, CountsOK, NEW t \in Thread, AddCount(t)
  PROVE  CountsOK'
  <1>1. /\ at[t] = "add" /\ at' = [at EXCEPT ![t] = "end"]
        /\ cells' = [cells EXCEPT ![turn[t]] = [b \in Block |->
                       IF b \in mine[t] THEN Append(@[b], RoutedCount(data)) ELSE @[b]]]
        /\ mine' = [mine EXCEPT ![t] = {}]
        /\ UNCHANGED <<turn, passes>>
    BY DEF AddCount, GoTo
  <1>2. turn[t] \in Step
    <2>1. turn[t] \in 0 .. Steps /\ turn[t] # Steps
      BY <1>1 DEF PlaceOK
    <2> QED BY <2>1 DEF Step
  <1>3. RoutedCount(data) = RoutedCount(turn[t]) /\ RoutedCount(data) \in Nat
    BY DEF RoutedCount
  <1>4. /\ mine \in [Thread -> SUBSET Block] /\ at \in [Thread -> Label]
        /\ cells \in [Step -> [Block -> Seq(Nat)]]
    BY DEF CountsOK, PlaceOK
  <1>5. /\ mine' \in [Thread -> SUBSET Block] /\ mine'[t] = {}
        /\ \A u \in Thread \ {t} : mine'[u] = mine[u] /\ at'[u] = at[u]
    BY <1>1, <1>4
  <1>6. /\ cells' \in [Step -> [Block -> Seq(Nat)]]
        /\ \A s \in Step, b \in Block : cells'[s][b] =
             IF s = turn[t] /\ b \in mine[t] THEN Append(cells[s][b], RoutedCount(data))
                                             ELSE cells[s][b]
    <2>1. \A b \in Block : Append(cells[turn[t]][b], RoutedCount(data)) \in Seq(Nat)
      BY <1>2, <1>3, <1>4
    <2> QED BY <1>1, <1>2, <1>4, <2>1
  <1>7. \A b \in mine[t] : cells'[turn[t]][b] = <<RoutedCount(turn[t])>>
    <2>1. \A b \in mine[t] : b \in Block /\ cells[turn[t]][b] = <<>>
      BY <1>4 DEF CountsOK
    <2>2. Append(<<>>, RoutedCount(data)) = <<RoutedCount(turn[t])>>
      BY <1>3
    <2> QED BY <1>2, <1>6, <2>1, <2>2
  <1>8. \A u \in Thread : \A b \in mine'[u] :
          passes'[turn'[u]][b] = 1 /\ cells'[turn'[u]][b] = <<>>
    <2> SUFFICES ASSUME NEW u \in Thread, NEW b \in mine'[u]
                 PROVE  passes'[turn'[u]][b] = 1 /\ cells'[turn'[u]][b] = <<>>
      OBVIOUS
    <2>1. u # t /\ b \in mine[u] /\ b \in Block /\ turn[u] \in Step
      BY <1>4, <1>5 DEF CountsOK
    <2>2. ~ (turn[u] = turn[t] /\ b \in mine[t])
      BY <2>1 DEF CountsOK
    <2>3. cells'[turn[u]][b] = cells[turn[u]][b]
      BY <1>6, <2>1, <2>2
    <2>4. passes[turn[u]][b] = 1 /\ cells[turn[u]][b] = <<>>
      BY <2>1 DEF CountsOK
    <2> QED BY <1>1, <2>3, <2>4
  <1>9. ASSUME NEW s \in Step \ HomeSteps, NEW b \in Block
        PROVE  /\ cells'[s][b] \in {<<>>, <<RoutedCount(s)>>}
               /\ passes'[s][b] = 0 => cells'[s][b] = <<>>
               /\ passes'[s][b] = 1 /\ cells'[s][b] = <<>> =>
                    \E u \in Thread : turn'[u] = s /\ b \in mine'[u]
    <2>1. CASE s = turn[t] /\ b \in mine[t]
      <3>1. passes[s][b] = 1
        BY <2>1 DEF CountsOK
      <3>2. cells'[s][b] = <<RoutedCount(s)>>
        BY <1>7, <2>1
      <3>3. passes'[s][b] # 0
        BY <1>1, <3>1
      <3>4. <<RoutedCount(s)>> # <<>>
        OBVIOUS
      <3>5. cells'[s][b] # <<>>
        BY <3>2, <3>4
      <3> QED BY <3>2, <3>3, <3>5
    <2>2. CASE ~ (s = turn[t] /\ b \in mine[t])
      <3>1. cells'[s][b] = cells[s][b] /\ passes'[s][b] = passes[s][b]
        BY <1>1, <1>6, <2>2
      <3>2. \A u \in Thread : turn[u] = s /\ b \in mine[u] => turn'[u] = s /\ b \in mine'[u]
        BY <1>1, <1>5, <2>2
      <3> QED BY <3>1, <3>2 DEF CountsOK
    <2> QED BY <2>1, <2>2
  <1>10. \A u \in Thread : mine'[u] # {} =>
           at'[u] \in {"draw", "block", "close", "add"} /\ turn'[u] \in Step \ HomeSteps
    BY <1>1, <1>5 DEF CountsOK
  <1>11. \A u, v \in Thread : turn'[u] = turn'[v] /\ mine'[u] \cap mine'[v] # {} => u = v
    BY <1>1, <1>5 DEF CountsOK
  <1> QED BY <1>5, <1>6, <1>8, <1>9, <1>10, <1>11 DEF CountsOK

\* The copy of a slice that came home counts nothing.
LEMMA CopyCounts ==
  ASSUME IInv, PlaceOK, Rest, CountsOK, NEW t \in Thread, CopyShare(t)
  PROVE  CountsOK'
  <1>1. /\ at[t] = "copy" /\ at' = [at EXCEPT ![t] = "copied"]
        /\ passes' = [passes EXCEPT ![data] = [b \in Block |->
                         IF b \in Share[t] THEN @[b] + 1 ELSE @[b]]]
        /\ UNCHANGED <<turn, mine, cells>>
    BY DEF CopyShare, GoTo
  <1>2. data \in HomeSteps
    BY <1>1 DEF PlaceOK
  <1>3. \A s \in Step \ HomeSteps : passes'[s] = passes[s]
    BY <1>1, <1>2 DEF Rest, PassesOK
  <1>4. mine[t] = {}
    BY <1>1 DEF CountsOK
  <1>5. \A u \in Thread \ {t} : at'[u] = at[u]
    BY <1>1 DEF PlaceOK
  <1>6. \A u \in Thread : mine'[u] # {} =>
          at'[u] \in {"draw", "block", "close", "add"} /\ turn'[u] \in Step \ HomeSteps
    BY <1>1, <1>4, <1>5 DEF CountsOK
  <1>7. \A u \in Thread : \A b \in mine'[u] :
          passes'[turn'[u]][b] = 1 /\ cells'[turn'[u]][b] = <<>>
    <2> SUFFICES ASSUME NEW u \in Thread, NEW b \in mine'[u]
                 PROVE  passes'[turn'[u]][b] = 1 /\ cells'[turn'[u]][b] = <<>>
      OBVIOUS
    <2>1. turn[u] \in Step \ HomeSteps
      BY <1>1 DEF CountsOK
    <2>2. passes'[turn[u]] = passes[turn[u]]
      BY <1>3, <2>1
    <2>3. passes[turn[u]][b] = 1 /\ cells[turn[u]][b] = <<>>
      BY <1>1 DEF CountsOK
    <2> QED BY <1>1, <2>2, <2>3
  <1>8. \A s \in Step \ HomeSteps, b \in Block :
          /\ cells'[s][b] \in {<<>>, <<RoutedCount(s)>>}
          /\ passes'[s][b] = 0 => cells'[s][b] = <<>>
          /\ passes'[s][b] = 1 /\ cells'[s][b] = <<>> =>
               \E u \in Thread : turn'[u] = s /\ b \in mine'[u]
    <2> SUFFICES ASSUME NEW s \in Step \ HomeSteps, NEW b \in Block
                 PROVE  /\ cells'[s][b] \in {<<>>, <<RoutedCount(s)>>}
                        /\ passes'[s][b] = 0 => cells'[s][b] = <<>>
                        /\ passes'[s][b] = 1 /\ cells'[s][b] = <<>> =>
                             \E u \in Thread : turn'[u] = s /\ b \in mine'[u]
      OBVIOUS
    <2>1. passes'[s][b] = passes[s][b] /\ cells' = cells /\ turn' = turn /\ mine' = mine
      BY <1>1, <1>3
    <2> QED BY <2>1 DEF CountsOK
  <1>9. /\ cells' \in [Step -> [Block -> Seq(Nat)]]
        /\ mine' \in [Thread -> SUBSET Block]
        /\ \A u, v \in Thread : turn'[u] = turn'[v] /\ mine'[u] \cap mine'[v] # {} => u = v
    BY <1>1 DEF CountsOK
  <1> QED BY <1>6, <1>7, <1>8, <1>9 DEF CountsOK

\* A thread that leaves a step has counted what it found.
LEMMA EndCounts ==
  ASSUME PlaceOK, CountsOK, NEW t \in Thread, EndStep(t)
  PROVE  CountsOK'
  <1>1. /\ at[t] = "end" /\ at' = [at EXCEPT ![t] = "begin"]
        /\ turn' = [turn EXCEPT ![t] = @ + 1]
        /\ UNCHANGED <<passes, mine, cells>>
    BY DEF EndStep, GoTo
  <1>2. mine[t] = {}
    BY <1>1 DEF CountsOK
  <1>3. \A u \in Thread \ {t} : at'[u] = at[u] /\ turn'[u] = turn[u]
    BY <1>1 DEF PlaceOK
  <1> QED BY <1>1, <1>2, <1>3 DEF CountsOK

LEMMA NextCounts ==
  ASSUME IInv, PlaceOK, Rest, CountsOK, [BmpNext]_bmpVars
  PROVE  CountsOK'
  <1>1. CASE UNCHANGED bmpVars
    BY <1>1 DEF bmpVars, CountsOK
  <1>2. CASE Publish \/ ResetCounter
    <2>1. PICK l \in {"reset", "gate"} :
            /\ at[Main] \in {"begin", "reset"} /\ at' = [at EXCEPT ![Main] = l]
            /\ UNCHANGED <<turn, passes, mine, cells>>
      BY <1>2 DEF Publish, ResetCounter, GoTo
    <2> QED BY <2>1, SameCounts, ThreadsAssumption
  <1>3. ASSUME NEW t \in Thread, SkipPublish(t) PROVE CountsOK'
    BY <1>3, SameCounts DEF SkipPublish, GoTo
  <1>4. ASSUME NEW t \in Thread, Draw(t) PROVE CountsOK'
    <2>1. PICK l \in {"block", "close"} :
            at' = [at EXCEPT ![t] = l] /\ UNCHANGED <<turn, passes, mine, cells>>
      BY <1>4 DEF Draw, GoTo
    <2> QED BY <2>1, SameCounts
  <1>5. ASSUME NEW t \in Thread, NEW l, NEW next, Sync(t, l, next),
               l \in {"gate", "shut", "begin"} \/ (l = "close" /\ next = "add")
        PROVE  CountsOK'
    BY <1>5, SameCounts DEF Sync
  <1>6. ASSUME NEW t \in Thread, Gate(t) \/ CopyClose(t) \/ Close(t) \/ Finish(t)
        PROVE  CountsOK'
    BY <1>5, <1>6 DEF Gate, CopyClose, Close, Finish
  <1>7. ASSUME NEW t \in Thread, OmpForEnd(t) PROVE CountsOK'
    BY <1>7, SameCounts DEF OmpForEnd, GoTo
  <1> QED
    BY <1>1, <1>2, <1>3, <1>4, <1>6, <1>7, SearchCounts, AddCounts, CopyCounts, EndCounts
       DEF BmpNext, ThreadStep

-----------------------------------------------------------------------------
(* Theorems *)

LEMMA InitPlace == BmpInit => IInv /\ PlaceOK
  <1> SUFFICES ASSUME BmpInit PROVE IInv /\ PlaceOK
    OBVIOUS
  <1>1. IInv
    BY InitIInv DEF BmpInit
  <1>2. PlaceOK
    BY BehindValues DEF BmpInit, Init, PlaceOK, Label
  <1> QED BY <1>1, <1>2

\* The barrier invariant and the places are an invariant of the level.
THEOREM PlaceInvariance == BmpSpec => [](IInv /\ PlaceOK)
  <1>1. IInv /\ PlaceOK /\ [BmpNext]_bmpVars => (IInv /\ PlaceOK)'
    BY BarrierPart, NextIInv, NextPlace
  <1> QED BY <1>1, InitPlace, PTL DEF BmpSpec

\* data and process_counter are overwritten by the main thread only while no
\* other thread works on the slice that they describe.
THEOREM SliceIsStable == BmpSpec => []SliceStable
  <1>1. IInv /\ PlaceOK => SliceStable
    BY Together DEF SliceStable
  <1> QED BY <1>1, PlaceInvariance, PTL

\* The calls of thread_sync_ in a bottom-up level implement the abstract
\* barrier, with however many threads and steps.
THEOREM LevelImplementsBarrier == BmpSpec => ImplementsBarrier
  <1>1. BmpInit => Init
    BY DEF BmpInit
  <1>2. BmpSpec => Spec
    BY <1>1, BarrierPart, PTL DEF BmpSpec, Spec
  <1> QED BY <1>2, Refinement, PTL

\* How often each block was gone over is an invariant, too.
THEOREM RestInvariance == BmpSpec => [](IInv /\ PlaceOK /\ Rest)
  <1>1. BmpInit => IInv /\ PlaceOK /\ Rest
    <2> SUFFICES ASSUME BmpInit PROVE Rest
      BY InitPlace
    <2>1. PassesOK /\ DrawsOK /\ SentOK
      BY DEF BmpInit, PassesOK, DrawsOK, SentOK, Live, Step, Over
    <2> QED BY <2>1 DEF Rest
  <1>2. IInv /\ PlaceOK /\ Rest /\ [BmpNext]_bmpVars => (IInv /\ PlaceOK /\ Rest)'
    BY BarrierPart, NextIInv, NextPlace, NextRest
  <1> QED BY <1>1, <1>2, PTL DEF BmpSpec

\* Every block of a slice is gone over once, by the time the main thread passes
\* the slice on and for good; and exactly the search slices are passed on.
THEOREM SlicesAreComplete == BmpSpec => []StepsComplete
  <1>1. IInv /\ PlaceOK /\ Rest => StepsComplete
    BY DEF PlaceOK, Rest, PassesOK, SentOK, StepsComplete, Step
  <1> QED BY <1>1, RestInvariance, PTL

\* What is found in a block of a searched slice is counted once and under the
\* index of that slice, although the description may be the next slice's when a
\* thread looks the index up: for every number of threads, blocks and steps.
THEOREM FindsAreCounted == BmpSpec => []FindsCounted
  <1>1. BmpInit => CountsOK
    BY DEF BmpInit, CountsOK
  <1>2. IInv /\ PlaceOK /\ Rest /\ CountsOK /\ [BmpNext]_bmpVars => CountsOK'
    BY NextCounts
  <1>3. IInv /\ PlaceOK /\ Rest /\ CountsOK => FindsCounted
    <2> SUFFICES ASSUME PlaceOK, Rest, CountsOK, NEW s \in Step \ HomeSteps, NEW b \in Block
                 PROVE  /\ cells[s][b] \in {<<>>, <<RoutedCount(s)>>}
                        /\ (\A t \in Thread : turn[t] > s) => cells[s][b] # <<>>
      BY DEF FindsCounted
    <2>1. ASSUME \A t \in Thread : turn[t] > s PROVE cells[s][b] # <<>>
      <3>1. passes[s][b] = 1
        BY <2>1 DEF Rest, PassesOK, PlaceOK, Step
      <3>2. \A t \in Thread : turn[t] # s
        BY <2>1 DEF PlaceOK, Step
      <3> QED BY <3>1, <3>2 DEF CountsOK
    <2> QED BY <2>1 DEF CountsOK
  <1> QED BY <1>1, <1>2, <1>3, RestInvariance, PTL DEF BmpSpec
=============================================================================
