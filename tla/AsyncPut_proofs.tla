--------------------------- MODULE AsyncPut_proofs ---------------------------
(***************************************************************************)
(* The lock-free send buffer for any number of threads, packets and any    *)
(* buffer size: one thread swaps the buffer at a time, the counter does    *)
(* not run away, what is handed over consists of whole packets, and the    *)
(* buffers implement batches of whole puts.                                *)
(***************************************************************************)
EXTENDS AsyncPut, FiniteSetTheorems, TLAPS

USE AsyncPutAssumption

-----------------------------------------------------------------------------
(* Packets and threads *)

\* A thread inside put() works on a packet that fits the buffer.
LEMMA PacketInWork ==
  ASSUME TypeOK, NEW t \in Thread, done[t] < Len(Lengths[t])
  PROVE  /\ Here(t) \in Put /\ Here(t)[1] = t /\ Here(t)[2] = done[t] + 1
         /\ Len1(t) \in 1 .. BufferSize /\ Length(Here(t)) = Len1(t)
  <1>1. Lengths[t] \in Seq(1 .. BufferSize) /\ done[t] \in Nat
    BY DEF TypeOK
  <1>2. done[t] + 1 \in DOMAIN Lengths[t]
    BY <1>1
  <1>3. Here(t) \in Put
    BY <1>2 DEF Here, Put
  <1>4. Lengths[t][done[t] + 1] \in 1 .. BufferSize
    BY <1>1, <1>2
  <1> QED BY <1>3, <1>4 DEF Here, Len1, Length

\* Threads that have reserved behind the end of the buffer.
Waiting == {t \in Thread : pc[t] \in {"spin", "await", "fetch", "reset", "reopen"}}

\* Each of them has added one packet to the counter.
CounterBound == reserved <= BufferSize + Cardinality(Waiting) * BufferSize

LEMMA WaitingFinite ==
  ASSUME NEW S, S \subseteq Thread
  PROVE  /\ IsFiniteSet(S) /\ Cardinality(S) \in Nat
         /\ Cardinality(S) <= Cardinality(Thread) /\ Cardinality(Thread) \in Nat
  BY FS_Subset, FS_CardinalityType

\* Products with the buffer size grow with the other factor.
LEMMA TimesBuffer ==
  ASSUME NEW m \in Nat, NEW n \in Nat, m <= n
  PROVE  /\ m * BufferSize \in Nat /\ n * BufferSize \in Nat
         /\ m * BufferSize <= n * BufferSize
         /\ (m + 1) * BufferSize = m * BufferSize + BufferSize
  <1>1. n * BufferSize = m * BufferSize + (n - m) * BufferSize
    OBVIOUS
  <1>2. (n - m) * BufferSize \in Nat /\ m * BufferSize \in Nat
    OBVIOUS
  <1> QED BY <1>1, <1>2
-----------------------------------------------------------------------------
(* The counters and the thread that swaps the buffer *)

CounterInv == TypeOK /\ OneSwapper /\ CounterBound

\* The type of everything but the counters' ranges.
LEMMA Labels ==
  ASSUME TypeOK, NEW t \in Thread, Step(t)
  PROVE  /\ pc' \in [Thread -> {"put", "spin", "await", "fetch", "reset", "reopen",
                                "add", "commit"}]
         /\ \A s \in Thread \ {t} : pc'[s] = pc[s]
         /\ offset' \in [Thread -> Nat] /\ filled' \in Nat /\ reserved' \in Nat
         /\ attached' \in BOOLEAN /\ merged' \in BOOLEAN
         /\ done' \in [Thread -> Nat]
         /\ \A s \in Thread : done'[s] <= Len(Lengths[s])
         /\ \A s \in Thread : pc'[s] # "put" => done'[s] < Len(Lengths[s])
  <1>0. /\ pc \in [Thread -> {"put", "spin", "await", "fetch", "reset", "reopen",
                              "add", "commit"}]
        /\ done \in [Thread -> Nat] /\ offset \in [Thread -> Nat]
        /\ filled \in Nat /\ reserved \in Nat
        /\ attached \in BOOLEAN /\ merged \in BOOLEAN
        /\ \A s \in Thread : Len(Lengths[s]) \in Nat
        /\ \A s \in Thread : done[s] <= Len(Lengths[s])
        /\ \A s \in Thread : pc[s] # "put" => done[s] < Len(Lengths[s])
    BY DEF TypeOK
  <1>1. CASE Reserve(t)
    <2>1. Len1(t) \in 1 .. BufferSize /\ done[t] < Len(Lengths[t])
      BY <1>1, PacketInWork DEF Reserve
    <2>2. AfterReserve(reserved, Len1(t)) \in {"spin", "await", "add"}
      BY <1>0, <2>1 DEF AfterReserve
    <2> QED BY <1>0, <1>1, <2>1, <2>2 DEF Reserve, Goto
  <1>2. CASE Spin(t)
    BY <1>0, <1>2 DEF Spin, Goto
  <1>3. CASE AwaitFilled(t)
    BY <1>0, <1>3 DEF AwaitFilled, Flush, Goto
  <1>4. CASE Fetch(t)
    BY <1>0, <1>4 DEF Fetch, Goto
  <1>5. CASE ResetFilled(t)
    BY <1>0, <1>5 DEF ResetFilled, Goto
  <1>6. CASE Reopen(t)
    <2>1. Len1(t) \in 1 .. BufferSize
      BY <1>0, <1>6, PacketInWork DEF Reopen
    <2> QED BY <1>0, <1>6, <2>1 DEF Reopen, Goto
  <1>7. CASE Add(t)
    BY <1>0, <1>7 DEF Add, Goto
  <1>8. CASE Commit(t)
    <2>1. Len1(t) \in 1 .. BufferSize
      BY <1>0, <1>8, PacketInWork DEF Commit
    <2>2. /\ filled' = filled + Len1(t) /\ done' = [done EXCEPT ![t] = @ + 1]
          /\ pc' = [pc EXCEPT ![t] = "put"]
          /\ UNCHANGED <<offset, reserved, attached, merged>>
      BY <1>8 DEF Commit, Goto
    <2>3. done[t] < Len(Lengths[t])
      BY <1>0, <1>8 DEF Commit
    <2>4. \A s \in Thread : done'[s] = IF s = t THEN done[t] + 1 ELSE done[s]
      BY <1>0, <2>2
    <2>5. \A s \in Thread : pc'[s] = IF s = t THEN "put" ELSE pc[s]
      BY <1>0, <2>2
    <2>6. \A s \in Thread : done'[s] <= Len(Lengths[s])
      <3> SUFFICES ASSUME NEW s \in Thread PROVE done'[s] <= Len(Lengths[s])
        OBVIOUS
      <3>1. done[s] \in Nat /\ Len(Lengths[s]) \in Nat /\ done[s] <= Len(Lengths[s])
        BY <1>0
      <3>2. CASE s = t
        BY <2>3, <2>4, <3>1, <3>2
      <3>3. CASE s # t
        BY <2>4, <3>1, <3>3
      <3> QED BY <3>2, <3>3
    <2>7. \A s \in Thread : pc'[s] # "put" => done'[s] < Len(Lengths[s])
      BY <1>0, <2>4, <2>5
    <2> QED BY <1>0, <2>1, <2>2, <2>5, <2>6, <2>7, SMTT(30)
  <1> QED BY <1>1, <1>2, <1>3, <1>4, <1>5, <1>6, <1>7, <1>8 DEF Step

\* The bound gives the range of the counter.
LEMMA CounterRange ==
  ASSUME reserved \in Nat, CounterBound
  PROVE  reserved \in 0 .. BufferSize + Cardinality(Thread) * BufferSize
  <1>1. /\ Cardinality(Waiting) \in Nat /\ Cardinality(Thread) \in Nat
        /\ Cardinality(Waiting) <= Cardinality(Thread)
    BY WaitingFinite DEF Waiting
  <1>2. Cardinality(Waiting) * BufferSize <= Cardinality(Thread) * BufferSize
        /\ Cardinality(Waiting) * BufferSize \in Nat /\ Cardinality(Thread) * BufferSize \in Nat
    BY <1>1, TimesBuffer
  <1> QED BY <1>2 DEF CounterBound

LEMMA SmallCounter == reserved \in Nat /\ reserved <= BufferSize => CounterBound
  <1>1. Cardinality(Waiting) \in Nat
    BY WaitingFinite DEF Waiting
  <1>2. Cardinality(Waiting) * BufferSize \in Nat
    BY <1>1, TimesBuffer
  <1> QED BY <1>2 DEF CounterBound

\* A reservation, the one step that can make the counter grow.
LEMMA ReserveCounter ==
  ASSUME CounterInv, NEW t \in Thread, Reserve(t)
  PROVE  OneSwapper' /\ CounterBound'
  <1>1. /\ pc[t] = "put" /\ done[t] < Len(Lengths[t])
        /\ reserved' = reserved + Len1(t)
        /\ pc' = [pc EXCEPT ![t] = AfterReserve(reserved, Len1(t))]
    BY DEF Reserve, Goto
  <1>2. /\ Len1(t) \in 1 .. BufferSize /\ reserved \in Nat /\ reserved' \in Nat
    BY <1>1, PacketInWork DEF CounterInv, TypeOK
  <1>3. pc \in [Thread -> {"put", "spin", "await", "fetch", "reset", "reopen", "add", "commit"}]
    BY DEF CounterInv, TypeOK
  <1>4. OneSwapper
    BY DEF CounterInv
  <1>5. /\ Cardinality(Waiting) \in Nat /\ IsFiniteSet(Waiting) /\ t \notin Waiting
        /\ Cardinality(Waiting) * BufferSize \in Nat
        /\ (Cardinality(Waiting) + 1) * BufferSize = Cardinality(Waiting) * BufferSize + BufferSize
    BY <1>1, WaitingFinite, TimesBuffer DEF Waiting
  <1>6. CASE reserved > BufferSize
    <2>1. pc'[t] = "spin" /\ \A s \in Thread \ {t} : pc'[s] = pc[s]
      BY <1>1, <1>2, <1>3, <1>6 DEF AfterReserve
    <2>2. \A s \in Thread : Swapping(s)' <=> Swapping(s)
      BY <1>1, <2>1 DEF Swapping
    <2>3. OneSwapper'
      BY <1>1, <1>2, <1>4, <1>6, <2>2 DEF OneSwapper
    <2>4. Waiting' = Waiting \cup {t}
      BY <2>1 DEF Waiting
    <2>5. Cardinality(Waiting') = Cardinality(Waiting) + 1
      BY <1>5, <2>4, FS_AddElement
    <2> QED BY <1>1, <1>2, <1>5, <2>3, <2>5 DEF CounterBound, CounterInv
  <1>7. CASE reserved <= BufferSize /\ reserved' > BufferSize
    <2>1. pc'[t] = "await" /\ \A s \in Thread \ {t} : pc'[s] = pc[s]
      BY <1>1, <1>2, <1>3, <1>7 DEF AfterReserve
    <2>2. \A s \in Thread : ~ Swapping(s)
      BY <1>2, <1>4, <1>7 DEF OneSwapper
    <2>3. \A s \in Thread : Swapping(s)' <=> s = t
      BY <2>1, <2>2 DEF Swapping
    <2>4. OneSwapper'
      BY <1>7, <2>3 DEF OneSwapper
    <2>5. Waiting' = Waiting \cup {t}
      BY <2>1 DEF Waiting
    <2>6. Cardinality(Waiting') = Cardinality(Waiting) + 1
      BY <1>5, <2>5, FS_AddElement
    <2> QED BY <1>1, <1>2, <1>5, <1>7, <2>4, <2>6 DEF CounterBound
  <1>8. CASE reserved' <= BufferSize
    <2>1. pc'[t] = "add" /\ \A s \in Thread \ {t} : pc'[s] = pc[s]
      BY <1>1, <1>2, <1>3, <1>8 DEF AfterReserve
    <2>2. \A s \in Thread : Swapping(s)' <=> Swapping(s)
      BY <1>1, <2>1 DEF Swapping
    <2>3. OneSwapper'
      BY <1>1, <1>2, <1>4, <1>8, <2>2 DEF OneSwapper
    <2>4. CounterBound'
      <3>1. Cardinality(Waiting') \in Nat
        BY WaitingFinite DEF Waiting
      <3>2. Cardinality(Waiting') * BufferSize \in Nat
        BY <3>1, TimesBuffer
      <3> QED BY <1>2, <1>8, <3>2 DEF CounterBound
    <2> QED BY <2>3, <2>4
  <1> QED BY <1>2, <1>6, <1>7, <1>8

\* The other steps: a waiting thread tries again, the buffer is swapped, or
\* the counter stays as it is.
LEMMA StepCounter ==
  ASSUME CounterInv, NEW t \in Thread, Step(t)
  PROVE  CounterInv'
  <1>1. /\ pc \in [Thread -> {"put", "spin", "await", "fetch", "reset", "reopen", "add", "commit"}]
        /\ reserved \in Nat /\ OneSwapper /\ CounterBound
    BY DEF CounterInv, TypeOK
  <1>2. \A s \in Thread \ {t} : pc'[s] = pc[s]
    BY Labels DEF CounterInv
  <1>3. OneSwapper' /\ CounterBound'
    <2>1. CASE Reserve(t)
      BY <2>1, ReserveCounter
    <2>2. CASE Spin(t)
      <3>1. pc[t] = "spin" /\ pc'[t] = "put" /\ reserved <= BufferSize /\ reserved' = reserved
        BY <1>1, <2>2 DEF Spin, Goto
      <3>2. \A s \in Thread : Swapping(s)' <=> Swapping(s)
        BY <1>2, <3>1 DEF Swapping
      <3>3. OneSwapper'
        BY <1>1, <3>1, <3>2 DEF OneSwapper
      <3>4. CounterBound'
        <4>1. Cardinality(Waiting') \in Nat
          BY WaitingFinite DEF Waiting
        <4>2. Cardinality(Waiting') * BufferSize \in Nat
          BY <4>1, TimesBuffer
        <4> QED BY <1>1, <3>1, <4>2 DEF CounterBound
      <3> QED BY <3>3, <3>4
    <2>3. CASE AwaitFilled(t) \/ Fetch(t) \/ ResetFilled(t)
      <3>1. Swapping(t) /\ Swapping(t)' /\ reserved' = reserved
        BY <1>1, <2>3 DEF AwaitFilled, Fetch, ResetFilled, Swapping, Goto
      <3>2. \A s \in Thread : Swapping(s)' <=> Swapping(s)
        BY <1>2, <3>1 DEF Swapping
      <3>3. Waiting' = Waiting
        BY <1>2, <3>1 DEF Waiting, Swapping
      <3> QED BY <1>1, <3>1, <3>2, <3>3 DEF OneSwapper, CounterBound
    <2>4. CASE Reopen(t)
      <3>1. /\ Swapping(t) /\ pc'[t] = "add" /\ reserved' = Len1(t)
            /\ Len1(t) \in 1 .. BufferSize
        BY <1>1, <2>4, PacketInWork DEF Reopen, Swapping, Goto, CounterInv, TypeOK
      <3>2. \A s \in Thread : ~ Swapping(s)'
        BY <1>1, <1>2, <3>1 DEF OneSwapper, Swapping
      <3>3. OneSwapper'
        BY <3>1, <3>2 DEF OneSwapper
      <3>4. CounterBound'
        <4>1. Cardinality(Waiting') \in Nat
          BY WaitingFinite DEF Waiting
        <4>2. Cardinality(Waiting') * BufferSize \in Nat
          BY <4>1, TimesBuffer
        <4> QED BY <3>1, <4>2 DEF CounterBound
      <3> QED BY <3>3, <3>4
    <2>5. CASE Add(t) \/ Commit(t)
      <3>1. ~ Swapping(t) /\ ~ Swapping(t)' /\ t \notin Waiting /\ t \notin Waiting'
            /\ reserved' = reserved
        BY <1>1, <2>5 DEF Add, Commit, Swapping, Waiting, Goto
      <3>2. \A s \in Thread : Swapping(s)' <=> Swapping(s)
        BY <1>2, <3>1 DEF Swapping
      <3>3. Waiting' = Waiting
        BY <1>2, <3>1 DEF Waiting
      <3> QED BY <1>1, <3>1, <3>2, <3>3 DEF OneSwapper, CounterBound
    <2> QED BY <2>1, <2>2, <2>3, <2>4, <2>5 DEF Step
  <1>4. reserved' \in Nat
    BY Labels DEF CounterInv
  <1>5. reserved' \in 0 .. BufferSize + Cardinality(Thread) * BufferSize
    <2>1. /\ Cardinality(Waiting') \in Nat /\ Cardinality(Thread) \in Nat
          /\ Cardinality(Waiting') <= Cardinality(Thread)
      BY WaitingFinite DEF Waiting
    <2>2. Cardinality(Waiting') * BufferSize <= Cardinality(Thread) * BufferSize
          /\ Cardinality(Waiting') * BufferSize \in Nat /\ Cardinality(Thread) * BufferSize \in Nat
      BY <2>1, TimesBuffer
    <2> QED BY <1>3, <1>4, <2>2 DEF CounterBound
  <1>6. TypeOK'
    BY <1>5, Labels DEF TypeOK, CounterInv
  <1> QED BY <1>3, <1>6 DEF CounterInv

LEMMA InitCounter == Init => CounterInv
  <1> SUFFICES ASSUME Init PROVE CounterInv
    OBVIOUS
  <1>1. \A t \in Thread : ~ Swapping(t)
    BY DEF Init, Swapping
  <1>2. OneSwapper /\ reserved \in Nat /\ CounterBound
    BY <1>1, SmallCounter DEF Init, OneSwapper
  <1>3. \A s \in Thread : Len(Lengths[s]) \in Nat
    OBVIOUS
  <1>4. reserved \in 0 .. BufferSize + Cardinality(Thread) * BufferSize
    BY <1>2, CounterRange
  <1>5. \A s \in Thread : done[s] = 0 /\ pc[s] = "put"
    BY DEF Init
  <1>6. \A s \in Thread : done[s] <= Len(Lengths[s])
    BY <1>3, <1>5
  <1>7. attached \in BOOLEAN /\ merged \in BOOLEAN
    BY DEF Init
  <1>8. /\ pc \in [Thread -> {"put", "spin", "await", "fetch", "reset", "reopen",
                              "add", "commit"}]
        /\ done \in [Thread -> Nat] /\ offset \in [Thread -> Nat] /\ filled \in Nat
    BY DEF Init
  <1>9. TypeOK
    BY <1>4, <1>5, <1>6, <1>7, <1>8 DEF TypeOK
  <1> QED BY <1>2, <1>9 DEF CounterInv

LEMMA NextCounter == CounterInv /\ [Next]_vars => CounterInv'
  <1> SUFFICES ASSUME CounterInv, [Next]_vars PROVE CounterInv'
    OBVIOUS
  <1>1. CASE Merge
    BY <1>1 DEF Merge, Flush, CounterInv, TypeOK, OneSwapper, Swapping, CounterBound, Waiting
  <1>2. CASE UNCHANGED vars
    BY <1>2 DEF vars, CounterInv, TypeOK, OneSwapper, Swapping, CounterBound, Waiting
  <1> QED BY <1>1, <1>2, StepCounter DEF Next

\* The shared counter stays in range, however many threads wait behind the
\* end of the buffer.
THEOREM TypeCorrect == Spec => []TypeOK
  <1>1. CounterInv => TypeOK
    BY DEF CounterInv
  <1> QED BY <1>1, InitCounter, NextCounter, PTL DEF Spec

\* One thread at most swaps the buffer, and one does whenever reserved_size_
\* tells the others to wait.
THEOREM Swapper == Spec => []OneSwapper
  <1>1. CounterInv => OneSwapper
    BY DEF CounterInv
  <1> QED BY <1>1, InitCounter, NextCounter, PTL DEF Spec
-----------------------------------------------------------------------------
(* What is in the buffers *)

Word == [pos : Nat, put : Put, word : Nat]
Pending(t) == pc[t] \in {"add", "commit"}
Room(t)    == offset[t] .. offset[t] + Len1(t) - 1    \* the range t reserved
Unfilled   == UNION {Room(t) : t \in {s \in Thread : Pending(s)}}
Attaching  == \E t \in Thread : pc[t] \in {"reset", "reopen"}
Usable     == attached /\ ~ Attaching

\* The end of the ranges that threads reserved in the current buffer.
IsEnd(l) == \/ reserved <= BufferSize /\ l = reserved
            \/ \E t \in Thread : pc[t] = "await" /\ l = offset[t]

\* Every word belongs to a packet that is there as a whole.
WholePackets(words) ==
  \A w \in words :
    /\ w.word \in 0 .. Length(w.put) - 1 /\ w.word <= w.pos
    /\ \A i \in 0 .. Length(w.put) - 1 :
         [pos |-> w.pos - w.word + i, put |-> w.put, word |-> i] \in words

\* The ranges up to the end are disjoint; a position has one word, or is in
\* the range of a thread that has yet to fill it; and filled_size_ counts the
\* positions that no thread is busy with.
Tiled(l) ==
  /\ l \in 0 .. BufferSize /\ IsEnd(l)
  /\ \A t \in Thread : Pending(t) => Room(t) \subseteq 0 .. l - 1
  /\ \A s, t \in Thread : Pending(s) /\ Pending(t) /\ s # t => Room(s) \cap Room(t) = {}
  /\ filled + Cardinality(Unfilled) = l
  /\ \A w \in cur : w.pos < l
  /\ \A t \in Thread : pc[t] = "add" => \A w \in cur : w.pos \notin Room(t)
  /\ \A v, w \in cur : v.pos = w.pos => v = w
  /\ \A pos \in 0 .. l - 1 : \/ \E w \in cur : w.pos = pos
                             \/ \E t \in Thread : pc[t] = "add" /\ pos \in Room(t)

Whole(buf) ==
  /\ buf.length <= BufferSize
  /\ \A pos \in 0 .. buf.length - 1 :
       /\ \E w \in buf.words : w.pos = pos
       /\ \A v, w \in buf.words : v.pos = pos /\ w.pos = pos => v = w
  /\ \A w \in buf.words : w.pos < buf.length
  /\ WholePackets(buf.words)

BufferInv ==
  /\ cur \in SUBSET Word /\ WholePackets(cur)
  /\ sent \in Seq([words : SUBSET Word, length : Nat])
  /\ \A b \in DOMAIN sent : Whole(sent[b])
  /\ Usable => \E l \in Nat : Tiled(l)
  /\ ~ Usable => cur = {} /\ \A t \in Thread : ~ Pending(t)
  /\ ~ attached => merged \/ reserved >= BufferSize
  /\ \A t \in Thread :
       /\ pc[t] \in {"reset", "reopen"} => attached
       /\ pc[t] = "reopen" => filled = 0 /\ offset[t] = 0
       /\ merged => pc[t] = "put" /\ done[t] = Len(Lengths[t])

\* The range of a thread in work, and what a change of another's place does.
LEMMA RoomSize ==
  ASSUME TypeOK, NEW t \in Thread, Pending(t)
  PROVE  /\ offset[t] \in Nat /\ Len1(t) \in 1 .. BufferSize
         /\ IsFiniteSet(Room(t)) /\ Cardinality(Room(t)) = Len1(t)
         /\ offset[t] \in Room(t)
  <1>1. offset[t] \in Nat /\ Len1(t) \in 1 .. BufferSize
    BY PacketInWork DEF TypeOK, Pending
  <1>2. offset[t] \in Int /\ offset[t] + Len1(t) - 1 \in Int
    BY <1>1
  <1>3. IsFiniteSet(Room(t)) /\ Cardinality(Room(t)) =
          IF offset[t] > offset[t] + Len1(t) - 1 THEN 0
          ELSE (offset[t] + Len1(t) - 1) - offset[t] + 1
    BY <1>2, FS_Interval DEF Room
  <1> QED BY <1>1, <1>3 DEF Room

LEMMA UnfilledFinite ==
  ASSUME NEW l \in Nat, Tiled(l)
  PROVE  IsFiniteSet(Unfilled) /\ Unfilled \subseteq 0 .. l - 1
  <1>1. Unfilled \subseteq 0 .. l - 1
    BY DEF Tiled, Unfilled
  <1>2. IsFiniteSet(0 .. l - 1)
    BY FS_Interval
  <1> QED BY <1>1, <1>2, FS_Subset

\* A buffer whose ranges are all filled is whole.
LEMMA FilledIsWhole ==
  ASSUME TypeOK, NEW l \in Nat, Tiled(l), WholePackets(cur), filled = l
  PROVE  /\ \A t \in Thread : ~ Pending(t)
         /\ Whole([words |-> cur, length |-> filled])
  <1>1. IsFiniteSet(Unfilled) /\ Cardinality(Unfilled) = 0
    <2>1. IsFiniteSet(Unfilled) /\ Cardinality(Unfilled) \in Nat
      BY UnfilledFinite, FS_CardinalityType
    <2> QED BY <2>1 DEF Tiled
  <1>2. Unfilled = {}
    BY <1>1, FS_EmptySet
  <1>3. \A t \in Thread : ~ Pending(t)
    BY <1>2, RoomSize DEF Unfilled
  <1>4. \A t \in Thread : pc[t] # "add"
    BY <1>3 DEF Pending
  <1> QED BY <1>3, <1>4 DEF Tiled, Whole

\* Steps that the words in the buffers and the ranges know nothing of.
LEMMA Untouched ==
  ASSUME BufferInv, NEW t \in Thread, ~ Pending(t), ~ Pending(t)',
         UNCHANGED <<done, filled, attached, cur, sent, merged>>,
         \A s \in Thread \ {t} : pc'[s] = pc[s] /\ offset'[s] = offset[s],
         pc[t] \notin {"reset", "reopen", "await"}, pc'[t] \notin {"reset", "reopen"},
         ~ merged,
         ~ attached => reserved' >= BufferSize,
         \A l \in Nat : IsEnd(l) => IsEnd(l)'
  PROVE  BufferInv'
  <1>1. \A s \in Thread : Pending(s)' <=> Pending(s)
    BY DEF Pending
  <1>2. \A s \in Thread \ {t} : Room(s)' = Room(s)
    BY DEF Room, Len1, Here
  <1>3. Usable' <=> Usable
    BY DEF Usable, Attaching
  <1>4. Unfilled' = Unfilled
    BY <1>1, <1>2 DEF Unfilled
  <1>5. \A s \in Thread : pc'[s] = "add" <=> pc[s] = "add"
    BY DEF Pending
  <1>12. \A s \in Thread : Pending(s) => Pending(s)' /\ Room(s)' = Room(s)
    BY <1>1, <1>2
  <1>13. \A s \in Thread : pc[s] = "add" => pc'[s] = "add" /\ Room(s)' = Room(s)
    BY <1>5, <1>12 DEF Pending
  <1>6. ASSUME NEW l \in Nat, Tiled(l) PROVE Tiled(l)'
    <2>1. l \in 0 .. BufferSize /\ IsEnd(l)'
      BY <1>6 DEF Tiled
    <2>2. \A s \in Thread : Pending(s)' => Room(s)' \subseteq 0 .. l - 1
      BY <1>1, <1>12, <1>6 DEF Tiled
    <2>3. \A r, s \in Thread :
            Pending(r)' /\ Pending(s)' /\ r # s => Room(r)' \cap Room(s)' = {}
      <3> SUFFICES ASSUME NEW r \in Thread, NEW s \in Thread,
                          Pending(r)', Pending(s)', r # s
                   PROVE  Room(r)' \cap Room(s)' = {}
        OBVIOUS
      <3>1. Room(r)' = Room(r) /\ Room(s)' = Room(s) /\ Pending(r) /\ Pending(s)
        BY <1>1, <1>12
      <3> QED BY <1>6, <3>1 DEF Tiled
    <2>4. filled' + Cardinality(Unfilled') = l
      BY <1>4, <1>6 DEF Tiled
    <2>5. \A s \in Thread : pc'[s] = "add" => \A w \in cur' : w.pos \notin Room(s)'
      BY <1>2, <1>5, <1>6 DEF Tiled, Pending
    <2>6. \A pos \in 0 .. l - 1 : \/ \E w \in cur' : w.pos = pos
                                  \/ \E s \in Thread : pc'[s] = "add" /\ pos \in Room(s)'
      <3> SUFFICES ASSUME NEW pos \in 0 .. l - 1
                   PROVE  \/ \E w \in cur' : w.pos = pos
                          \/ \E s \in Thread : pc'[s] = "add" /\ pos \in Room(s)'
        OBVIOUS
      <3>1. \/ \E w \in cur : w.pos = pos
            \/ \E s \in Thread : pc[s] = "add" /\ pos \in Room(s)
        BY <1>6 DEF Tiled
      <3> QED BY <1>13, <3>1
    <2> QED BY <1>6, <2>1, <2>2, <2>3, <2>4, <2>5, <2>6 DEF Tiled
  <1>7. Usable' => \E l \in Nat : Tiled(l)'
    BY <1>3, <1>6 DEF BufferInv
  <1>8. WholePackets(cur)'
    BY DEF BufferInv, WholePackets
  <1>9. \A b \in DOMAIN sent' : Whole(sent[b])'
    BY DEF BufferInv, Whole, WholePackets
  <1>10. ~ Usable' => cur' = {} /\ \A s \in Thread : ~ Pending(s)'
    BY <1>1, <1>3 DEF BufferInv
  <1>11. \A s \in Thread :
       /\ pc'[s] \in {"reset", "reopen"} => attached'
       /\ pc'[s] = "reopen" => filled' = 0 /\ offset'[s] = 0
    BY DEF BufferInv
  <1> QED BY <1>7, <1>8, <1>9, <1>10, <1>11 DEF BufferInv

\* A thread reserves a range in the buffer, or has to wait.
LEMMA ReserveBuffer ==
  ASSUME CounterInv, BufferInv, NEW t \in Thread, Reserve(t)
  PROVE  BufferInv'
  <1>1. /\ pc[t] = "put" /\ done[t] < Len(Lengths[t])
        /\ offset' = [offset EXCEPT ![t] = reserved]
        /\ reserved' = reserved + Len1(t)
        /\ pc' = [pc EXCEPT ![t] = AfterReserve(reserved, Len1(t))]
        /\ UNCHANGED <<done, filled, attached, cur, sent, merged>>
    BY DEF Reserve, Goto
  <1>0. TypeOK /\ OneSwapper /\ reserved \in Nat
    BY DEF CounterInv, TypeOK
  <1>2. /\ Len1(t) \in 1 .. BufferSize /\ reserved \in Nat /\ reserved' \in Nat
        /\ TypeOK /\ OneSwapper
    BY <1>0, <1>1, PacketInWork
  <1>3. /\ pc'[t] = AfterReserve(reserved, Len1(t)) /\ offset'[t] = reserved
        /\ \A s \in Thread \ {t} : pc'[s] = pc[s] /\ offset'[s] = offset[s]
    BY <1>1, <1>2 DEF TypeOK
  <1>4. ~ merged /\ (~ attached => reserved >= BufferSize)
    <2>1. done[t] \in Nat /\ Len(Lengths[t]) \in Nat
      BY <1>2 DEF TypeOK
    <2> QED BY <1>1, <2>1 DEF BufferInv
  <1>5. CASE reserved > BufferSize
    <2>1. pc'[t] = "spin"
      BY <1>2, <1>3, <1>5 DEF AfterReserve
    <2>2. \A l \in Nat : IsEnd(l) => IsEnd(l)'
      BY <1>1, <1>2, <1>3, <1>5 DEF IsEnd
    <2>3. ~ Pending(t) /\ ~ Pending(t)' /\ (~ attached => reserved' >= BufferSize)
      BY <1>1, <1>2, <1>4, <2>1 DEF Pending
    <2> QED BY <1>1, <1>3, <1>4, <2>1, <2>2, <2>3, Untouched
  <1>6. CASE reserved <= BufferSize /\ reserved' > BufferSize
    <2>1. pc'[t] = "await"
      BY <1>1, <1>2, <1>3, <1>6 DEF AfterReserve
    <2>2. \A s \in Thread : pc[s] # "await"
      BY <1>2, <1>6 DEF OneSwapper, Swapping
    <2>3. \A l \in Nat : IsEnd(l) => IsEnd(l)'
      BY <1>3, <2>1, <2>2 DEF IsEnd
    <2>4. ~ Pending(t) /\ ~ Pending(t)' /\ (~ attached => reserved' >= BufferSize)
      BY <1>1, <1>2, <1>4, <2>1 DEF Pending
    <2> QED BY <1>1, <1>3, <1>4, <2>1, <2>3, <2>4, Untouched
  <1>7. CASE reserved' <= BufferSize
    <2>0. PICK e \in Nat : e = reserved' /\ e = reserved + Len1(t)
      BY <1>1, <1>2
    <2>1. pc'[t] = "add" /\ reserved < BufferSize
      BY <1>1, <1>2, <1>3, <1>7 DEF AfterReserve
    <2>2. \A s \in Thread : ~ Swapping(s)
      BY <1>2, <2>1 DEF OneSwapper
    <2>3. Usable /\ Usable'
      BY <1>1, <1>2, <1>3, <1>4, <2>1, <2>2 DEF Usable, Attaching, Swapping
    <2>4. Tiled(reserved)
      <3>1. PICK l \in Nat : Tiled(l)
        BY <2>3 DEF BufferInv
      <3>2. l = reserved
        BY <2>2, <3>1 DEF Tiled, IsEnd, Swapping
      <3> QED BY <3>1, <3>2
    <2>5. /\ Pending(t)' /\ ~ Pending(t) /\ Room(t)' = reserved .. e - 1
          /\ \A s \in Thread \ {t} : (Pending(s)' <=> Pending(s)) /\ Room(s)' = Room(s)
      BY <1>1, <1>2, <1>3, <2>0, <2>1 DEF Pending, Room, Len1, Here
    <2>6. Unfilled' = Unfilled \cup (reserved .. e - 1)
      BY <2>5 DEF Unfilled
    <2>7. \A s \in Thread \ {t} : Pending(s)' => Room(s)' \subseteq 0 .. reserved - 1
      BY <2>4, <2>5 DEF Tiled
    <2>8. filled' + Cardinality(Unfilled') = e
      <3>1. IsFiniteSet(Unfilled) /\ Unfilled \subseteq 0 .. reserved - 1
        BY <1>2, <2>4, UnfilledFinite
      <3>2. Unfilled \cap (reserved .. e - 1) = {}
        BY <1>2, <2>0, <3>1
      <3>3. /\ IsFiniteSet(reserved .. e - 1)
            /\ Cardinality(reserved .. e - 1) = Len1(t)
        <4>1. reserved \in Int /\ e - 1 \in Int
          BY <1>2
        <4>2. /\ IsFiniteSet(reserved .. e - 1)
              /\ Cardinality(reserved .. e - 1) =
                   IF reserved > e - 1 THEN 0 ELSE (e - 1) - reserved + 1
          BY <4>1, FS_Interval
        <4> QED BY <1>2, <2>0, <4>2
      <3>4. Cardinality(Unfilled') = Cardinality(Unfilled) + Len1(t)
        <4>1. Cardinality({}) = 0 /\ Cardinality(Unfilled) \in Nat
          BY <3>1, FS_EmptySet, FS_CardinalityType
        <4>2. Cardinality(Unfilled') = Cardinality(Unfilled) +
                Cardinality(reserved .. e - 1)
                - Cardinality(Unfilled \cap (reserved .. e - 1))
          BY <2>6, <3>1, <3>3, FS_Union
        <4>3. Cardinality(Unfilled \cap (reserved .. e - 1)) = 0
          BY <3>2, <4>1
        <4>4. \A m, n, k, z \in Int : m = n + k - z /\ z = 0 => m = n + k
          OBVIOUS
        <4> QED BY <1>2, <3>3, <4>1, <4>2, <4>3, <4>4
      <3>5. filled + Cardinality(Unfilled) = reserved /\ filled \in Nat
        BY <1>2, <2>4 DEF Tiled, TypeOK
      <3>6. Cardinality(Unfilled) \in Nat
        BY <3>1, FS_CardinalityType
      <3> QED BY <1>1, <1>2, <2>0, <3>4, <3>5, <3>6
    <2>9. Tiled(e)'
      <3>1. e \in 0 .. BufferSize /\ IsEnd(e)'
        BY <1>2, <1>7, <2>0 DEF IsEnd
      <3>2. \A s \in Thread : Pending(s)' => Room(s)' \subseteq 0 .. e - 1
        BY <1>2, <2>0, <2>5, <2>7, SMTT(30)
      <3>3. \A r, s \in Thread :
              Pending(r)' /\ Pending(s)' /\ r # s => Room(r)' \cap Room(s)' = {}
        <4>1. \A r, s \in Thread \ {t} :
                Pending(r)' /\ Pending(s)' /\ r # s => Room(r)' \cap Room(s)' = {}
          BY <2>4, <2>5 DEF Tiled
        <4>2. \A s \in Thread \ {t} : Pending(s)' => Room(s)' \cap Room(t)' = {}
          BY <1>2, <2>0, <2>5, <2>7
        <4> QED BY <4>1, <4>2
      <3>4. \A w \in cur' : w.pos < reserved /\ w.pos < e /\ w.pos \in Nat
        BY <1>1, <1>2, <2>0, <2>4 DEF Tiled, BufferInv, Word
      <3>5. \A s \in Thread : pc'[s] = "add" => \A w \in cur' : w.pos \notin Room(s)'
        BY <1>1, <1>2, <1>3, <2>4, <2>5, <3>4 DEF Tiled
      <3>6. \A v, w \in cur' : v.pos = w.pos => v = w
        BY <1>1, <2>4 DEF Tiled
      <3>7. \A pos \in 0 .. e - 1 :
               \/ \E w \in cur' : w.pos = pos
               \/ \E s \in Thread : pc'[s] = "add" /\ pos \in Room(s)'
        <4>1. \A pos \in 0 .. reserved - 1 :
               \/ \E w \in cur' : w.pos = pos
               \/ \E s \in Thread \ {t} : pc'[s] = "add" /\ pos \in Room(s)'
          <5> SUFFICES ASSUME NEW pos \in 0 .. reserved - 1
                       PROVE  \/ \E w \in cur' : w.pos = pos
                              \/ \E s \in Thread \ {t} : pc'[s] = "add" /\ pos \in Room(s)'
            OBVIOUS
          <5>1. \/ \E w \in cur : w.pos = pos
                \/ \E s \in Thread : pc[s] = "add" /\ pos \in Room(s)
            BY <2>4 DEF Tiled
          <5>2. \A s \in Thread : pc[s] = "add" => s \in Thread \ {t} /\ pc'[s] = "add" /\ Room(s)' = Room(s)
            BY <1>1, <1>3, <2>5
          <5> QED BY <1>1, <5>1, <5>2
        <4>2. \A pos \in reserved .. e - 1 : pc'[t] = "add" /\ pos \in Room(t)'
          BY <2>1, <2>5
        <4>3. \A pos \in 0 .. e - 1 :
                pos \in 0 .. reserved - 1 \/ pos \in reserved .. e - 1
          BY <1>2, <2>0
        <4> QED BY <4>1, <4>2, <4>3
      <3> QED BY <2>8, <3>1, <3>2, <3>3, <3>4, <3>5, <3>6, <3>7 DEF Tiled
    <2>10. WholePackets(cur)' /\ \A b \in DOMAIN sent' : Whole(sent[b])'
      BY <1>1 DEF BufferInv, Whole, WholePackets
    <2>11. \A s \in Thread :
       /\ pc'[s] \in {"reset", "reopen"} => attached'
       /\ pc'[s] = "reopen" => filled' = 0 /\ offset'[s] = 0
      BY <1>1, <1>3, <2>1 DEF BufferInv
    <2> QED BY <1>1, <1>2, <1>4, <2>3, <2>9, <2>10, <2>11 DEF BufferInv, Usable
  <1> QED BY <1>2, <1>5, <1>6, <1>7

\* A thread copies its packet into its range.
LEMMA AddBuffer ==
  ASSUME CounterInv, BufferInv, NEW t \in Thread, Add(t)
  PROVE  BufferInv'
  <1> DEFINE new == {[pos |-> offset[t] + i, put |-> Here(t), word |-> i] :
                        i \in 0 .. Len1(t) - 1}
  <1>1. /\ pc[t] = "add" /\ pc' = [pc EXCEPT ![t] = "commit"] /\ cur' = cur \cup new
        /\ UNCHANGED <<done, offset, reserved, filled, attached, sent, merged>>
    BY DEF Add, Goto
  <1>2. /\ TypeOK /\ Pending(t) /\ offset[t] \in Nat /\ Len1(t) \in 1 .. BufferSize
        /\ Here(t) \in Put /\ Length(Here(t)) = Len1(t)
    BY <1>1, RoomSize, PacketInWork DEF CounterInv, TypeOK, Pending
  <1>3. pc'[t] = "commit" /\ \A s \in Thread \ {t} : pc'[s] = pc[s]
    BY <1>1, <1>2 DEF TypeOK
  <1>4. /\ \A s \in Thread : Room(s)' = Room(s) /\ (Pending(s)' <=> Pending(s))
        /\ Unfilled' = Unfilled /\ (Usable' <=> Usable) /\ Usable
    <2> HIDE DEF new
    <2>1. \A s \in Thread : Room(s)' = Room(s) /\ (Pending(s)' <=> Pending(s))
      BY <1>1, <1>3 DEF Room, Len1, Here, Pending
    <2>2. Unfilled' = Unfilled
      BY <2>1 DEF Unfilled
    <2>3. Usable' <=> Usable
      BY <1>1, <1>3 DEF Usable, Attaching
    <2>4. Usable
      BY <1>2 DEF BufferInv
    <2> QED BY <2>1, <2>2, <2>3, <2>4
  <1>5. PICK l \in Nat : Tiled(l)
    BY <1>4 DEF BufferInv
  <1>6. /\ \A w \in new : w.pos \in Room(t) /\ w \in Word
        /\ \A v, w \in new : v.pos = w.pos => v = w
        /\ \A pos \in Room(t) : \E w \in new : w.pos = pos
    <2>1. \A i \in 0 .. Len1(t) - 1 : i \in Nat /\ offset[t] + i \in Room(t) /\ offset[t] + i \in Nat
      BY <1>2 DEF Room
    <2>2. \A w \in new : w.pos \in Room(t) /\ w \in Word
      BY <1>2, <2>1 DEF Word
    <2>3. \A v, w \in new : v.pos = w.pos => v = w
      BY <1>2
    <2>4. ASSUME NEW pos \in Room(t) PROVE \E w \in new : w.pos = pos
      <3>1. pos - offset[t] \in 0 .. Len1(t) - 1 /\ offset[t] + (pos - offset[t]) = pos
        BY <1>2, <2>4 DEF Room
      <3>2. [pos |-> offset[t] + (pos - offset[t]), put |-> Here(t), word |-> pos - offset[t]] \in new
        BY <3>1
      <3> QED BY <3>1, <3>2
    <2> QED BY <2>2, <2>3, <2>4
  <1>7. WholePackets(cur')
    <2>1. WholePackets(cur)
      BY DEF BufferInv
    <2>2. WholePackets(new)
      <3> SUFFICES ASSUME NEW j \in 0 .. Len1(t) - 1
                   PROVE  /\ j \in 0 .. Length(Here(t)) - 1 /\ j <= offset[t] + j
                          /\ \A i \in 0 .. Length(Here(t)) - 1 :
                               [pos |-> (offset[t] + j) - j + i, put |-> Here(t), word |-> i] \in new
        BY <1>2 DEF WholePackets
      <3>1. \A i \in 0 .. Len1(t) - 1 : (offset[t] + j) - j + i = offset[t] + i
        BY <1>2
      <3>2. \A i \in 0 .. Len1(t) - 1 :
              [pos |-> (offset[t] + j) - j + i, put |-> Here(t), word |-> i] \in new
        BY <3>1
      <3> HIDE DEF new
      <3> QED BY <1>2, <3>2
    <2> QED BY <1>1, <2>1, <2>2 DEF WholePackets
  <1>8. Tiled(l)'
    <2> HIDE DEF new
    <2>1. l \in 0 .. BufferSize /\ IsEnd(l)'
      BY <1>1, <1>3, <1>5 DEF Tiled, IsEnd
    <2>2. /\ \A s \in Thread : Pending(s)' => Room(s)' \subseteq 0 .. l - 1
          /\ \A r, s \in Thread :
               Pending(r)' /\ Pending(s)' /\ r # s => Room(r)' \cap Room(s)' = {}
          /\ filled' + Cardinality(Unfilled') = l
      BY <1>1, <1>4, <1>5 DEF Tiled
    <2>3. Room(t) \subseteq 0 .. l - 1
      BY <1>2, <1>5 DEF Tiled
    <2>4. \A w \in cur' : w.pos < l
      BY <1>1, <1>5, <1>6, <2>3 DEF Tiled
    <2>5. \A s \in Thread \ {t} : pc[s] = "add" => Room(s) \cap Room(t) = {}
      BY <1>2, <1>5 DEF Tiled, Pending
    <2>6. \A s \in Thread : pc'[s] = "add" => \A w \in cur' : w.pos \notin Room(s)'
      BY <1>1, <1>3, <1>4, <1>5, <1>6, <2>5 DEF Tiled
    <2>7. \A v, w \in cur' : v.pos = w.pos => v = w
      BY <1>1, <1>5, <1>6 DEF Tiled
    <2>8. \A pos \in 0 .. l - 1 : \/ \E w \in cur' : w.pos = pos
                                  \/ \E s \in Thread : pc'[s] = "add" /\ pos \in Room(s)'
      <3> SUFFICES ASSUME NEW pos \in 0 .. l - 1
                   PROVE  \/ \E w \in cur' : w.pos = pos
                          \/ \E s \in Thread : pc'[s] = "add" /\ pos \in Room(s)'
        OBVIOUS
      <3>1. \/ \E w \in cur : w.pos = pos
            \/ \E s \in Thread : pc[s] = "add" /\ pos \in Room(s)
        BY <1>5 DEF Tiled
      <3>2. CASE pos \in Room(t)
        BY <1>1, <1>6, <3>2
      <3>3. CASE pos \notin Room(t)
        BY <1>1, <1>3, <1>4, <3>1, <3>3
      <3> QED BY <3>2, <3>3
    <2> QED BY <2>1, <2>2, <2>4, <2>6, <2>7, <2>8 DEF Tiled
  <1>9. cur' \in SUBSET Word
    BY <1>1, <1>6 DEF BufferInv
  <1>10. \A b \in DOMAIN sent' : Whole(sent[b])'
    BY <1>1 DEF BufferInv, Whole, WholePackets
  <1>11. \A s \in Thread :
       /\ pc'[s] \in {"reset", "reopen"} => attached'
       /\ pc'[s] = "reopen" => filled' = 0 /\ offset'[s] = 0
       /\ merged' => pc'[s] = "put" /\ done'[s] = Len(Lengths[s])
    BY <1>1, <1>3 DEF BufferInv
  <1> QED BY <1>1, <1>4, <1>7, <1>8, <1>9, <1>10, <1>11 DEF BufferInv, WholePackets

\* A thread counts its packet and is done with it.
LEMMA CommitBuffer ==
  ASSUME CounterInv, BufferInv, NEW t \in Thread, Commit(t)
  PROVE  BufferInv'
  <1>1. /\ pc[t] = "commit" /\ pc' = [pc EXCEPT ![t] = "put"]
        /\ filled' = filled + Len1(t) /\ done' = [done EXCEPT ![t] = @ + 1]
        /\ UNCHANGED <<offset, reserved, attached, cur, sent, merged>>
    BY DEF Commit, Goto
  <1>0. TypeOK /\ Pending(t)
    BY <1>1 DEF CounterInv, Pending
  <1>2. /\ filled \in Nat /\ Len1(t) \in 1 .. BufferSize
        /\ IsFiniteSet(Room(t)) /\ Cardinality(Room(t)) = Len1(t)
    BY <1>0, RoomSize DEF TypeOK
  <1>3. /\ pc'[t] = "put" /\ \A s \in Thread \ {t} : pc'[s] = pc[s] /\ done'[s] = done[s]
    BY <1>0, <1>1 DEF TypeOK
  <1>4. /\ ~ Pending(t)'
        /\ \A s \in Thread \ {t} : Room(s)' = Room(s) /\ (Pending(s)' <=> Pending(s))
    BY <1>1, <1>3 DEF Room, Len1, Here, Pending
  <1>5. Usable /\ Usable'
    BY <1>0, <1>1, <1>3 DEF Usable, Attaching, BufferInv
  <1>6. PICK l \in Nat : Tiled(l)
    BY <1>5 DEF BufferInv
  <1>7. Unfilled' = Unfilled \ Room(t) /\ Room(t) \subseteq Unfilled
    <2>1. \A s \in Thread \ {t} : Pending(s) => Room(s) \cap Room(t) = {}
      BY <1>0, <1>6 DEF Tiled
    <2> QED BY <1>0, <1>4, <2>1 DEF Unfilled
  <1>8. filled' + Cardinality(Unfilled') = l
    <2>1. IsFiniteSet(Unfilled) /\ Cardinality(Unfilled) \in Nat
      BY <1>0, <1>6, UnfilledFinite, FS_CardinalityType
    <2>2. Unfilled \cap Room(t) = Room(t)
      BY <1>7
    <2>3. Cardinality(Unfilled') = Cardinality(Unfilled) - Cardinality(Unfilled \cap Room(t))
      BY <1>7, <2>1, FS_Difference
    <2>4. Cardinality(Unfilled') = Cardinality(Unfilled) - Len1(t)
      BY <1>2, <2>2, <2>3
    <2>5. filled + Cardinality(Unfilled) = l
      BY <1>6 DEF Tiled
    <2> QED BY <1>1, <1>2, <2>1, <2>4, <2>5
  <1>9. Tiled(l)'
    <2>1. l \in 0 .. BufferSize /\ IsEnd(l)'
      BY <1>1, <1>3, <1>6 DEF Tiled, IsEnd
    <2>2. \A s \in Thread : Pending(s)' => s # t /\ Pending(s) /\ Room(s)' = Room(s)
      BY <1>4
    <2>3. \A s \in Thread : pc'[s] = "add" <=> pc[s] = "add"
      BY <1>1, <1>3
    <2>4. \A s \in Thread : pc[s] = "add" => pc'[s] = "add" /\ Room(s)' = Room(s)
      BY <1>1, <1>4, <2>3
    <2>5. /\ \A s \in Thread : Pending(s)' => Room(s)' \subseteq 0 .. l - 1
          /\ \A w \in cur' : w.pos < l
          /\ \A v, w \in cur' : v.pos = w.pos => v = w
      BY <1>1, <1>6, <2>2 DEF Tiled
    <2>6. ASSUME NEW r \in Thread, NEW s \in Thread, Pending(r)', Pending(s)', r # s
          PROVE  Room(r)' \cap Room(s)' = {}
      <3>1. Room(r)' = Room(r) /\ Room(s)' = Room(s) /\ Pending(r) /\ Pending(s)
        BY <2>2, <2>6
      <3> QED BY <1>6, <2>6, <3>1 DEF Tiled
    <2>7. \A s \in Thread : pc'[s] = "add" => \A w \in cur' : w.pos \notin Room(s)'
      BY <1>1, <1>6, <2>3, <2>4 DEF Tiled
    <2>8. ASSUME NEW pos \in 0 .. l - 1
          PROVE  \/ \E w \in cur' : w.pos = pos
                 \/ \E s \in Thread : pc'[s] = "add" /\ pos \in Room(s)'
      <3>1. \/ \E w \in cur : w.pos = pos
            \/ \E s \in Thread : pc[s] = "add" /\ pos \in Room(s)
        BY <1>6 DEF Tiled
      <3> QED BY <1>1, <2>4, <3>1
    <2> QED BY <1>8, <2>1, <2>5, <2>6, <2>7, <2>8 DEF Tiled
  <1>10. WholePackets(cur)' /\ \A b \in DOMAIN sent' : Whole(sent[b])'
    BY <1>1 DEF BufferInv, Whole, WholePackets
  <1>11. ~ merged
    BY <1>1 DEF BufferInv
  <1>12. \A s \in Thread :
       /\ pc'[s] \in {"reset", "reopen"} => attached'
       /\ pc'[s] # "reopen"
    BY <1>0, <1>1, <1>3, <1>5 DEF BufferInv, Usable, Attaching
  <1> QED BY <1>1, <1>5, <1>9, <1>10, <1>11, <1>12 DEF BufferInv

\* Flushing a buffer that is whole.
LEMMA FlushBuffer ==
  ASSUME TypeOK, BufferInv, Flush,
         Usable => Whole([words |-> cur, length |-> filled]),
         attached => Usable
  PROVE  /\ cur' = {} /\ ~ attached'
         /\ sent' \in Seq([words : SUBSET Word, length : Nat])
         /\ \A b \in DOMAIN sent' : Whole(sent'[b])
  <1>1. CASE ~ attached
    BY <1>1 DEF Flush, BufferInv
  <1>2. CASE attached
    <2> DEFINE buf == [words |-> cur, length |-> filled]
    <2>1. buf \in [words : SUBSET Word, length : Nat] /\ Whole(buf)
      BY <1>2 DEF BufferInv, TypeOK
    <2>2. sent' = Append(sent, buf) /\ cur' = {} /\ ~ attached'
      BY <1>2 DEF Flush
    <2> HIDE DEF buf
    <2>3. sent \in Seq([words : SUBSET Word, length : Nat]) /\ \A b \in DOMAIN sent : Whole(sent[b])
      BY DEF BufferInv
    <2>4. /\ sent' \in Seq([words : SUBSET Word, length : Nat])
          /\ \A b \in DOMAIN sent' : sent'[b] = buf \/ (b \in DOMAIN sent /\ sent'[b] = sent[b])
      BY <2>1, <2>2, <2>3
    <2> QED BY <2>1, <2>2, <2>3, <2>4
  <1> QED BY <1>1, <1>2

\* One thread hands the buffer over and attaches the next one.
LEMMA SwapBuffer ==
  ASSUME CounterInv, BufferInv, NEW t \in Thread,
         AwaitFilled(t) \/ Fetch(t) \/ ResetFilled(t) \/ Reopen(t)
  PROVE  BufferInv'
  <1>1. Swapping(t) /\ TypeOK /\ OneSwapper
    BY DEF Swapping, CounterInv, AwaitFilled, Fetch, ResetFilled, Reopen
  <1>2. /\ reserved > BufferSize /\ reserved \in Nat
        /\ \A s \in Thread \ {t} : ~ Swapping(s) /\ pc[s] \notin {"await", "reset", "reopen"}
    BY <1>1 DEF OneSwapper, Swapping, TypeOK
  <1>3. \A s \in Thread \ {t} : pc'[s] = pc[s]
    BY <1>1, Labels DEF Step
  <1>4. ~ merged
    BY <1>1 DEF BufferInv, Swapping
  <1>5. CASE AwaitFilled(t)
    <2>1. /\ pc[t] = "await" /\ pc'[t] = "fetch" /\ offset[t] = filled /\ Flush
          /\ UNCHANGED <<done, offset, reserved, filled, merged>>
      BY <1>1, <1>5 DEF AwaitFilled, Goto, TypeOK
    <2>2. attached => Usable
      BY <1>2, <2>1 DEF Usable, Attaching
    <2>3. /\ Usable => Whole([words |-> cur, length |-> filled])
          /\ \A s \in Thread : ~ Pending(s)
      <3>1. CASE ~ Usable
        BY <3>1 DEF BufferInv
      <3>2. CASE Usable
        <4>1. PICK l \in Nat : Tiled(l)
          BY <3>2 DEF BufferInv
        <4>2. filled = l
          BY <1>2, <2>1, <4>1 DEF Tiled, IsEnd
        <4> QED BY <1>1, <4>1, <4>2, FilledIsWhole DEF BufferInv
      <3> QED BY <3>1, <3>2
    <2>4. /\ cur' = {} /\ ~ attached'
          /\ sent' \in Seq([words : SUBSET Word, length : Nat])
          /\ \A b \in DOMAIN sent' : Whole(sent'[b])
      BY <1>1, <2>1, <2>2, <2>3, FlushBuffer
    <2>5. ~ Usable' /\ \A s \in Thread : ~ Pending(s)'
      BY <1>3, <2>1, <2>3, <2>4 DEF Usable, Pending
    <2>6. \A b \in DOMAIN sent' : Whole(sent[b])'
      BY <2>4 DEF Whole, WholePackets
    <2>7. \A s \in Thread : pc'[s] \notin {"reset", "reopen"}
      BY <1>2, <1>3, <2>1
    <2> QED BY <1>2, <1>4, <2>1, <2>4, <2>5, <2>6, <2>7 DEF BufferInv, WholePackets
  <1>6. CASE Fetch(t) \/ ResetFilled(t)
    <2>1. /\ pc[t] \in {"fetch", "reset"} /\ pc'[t] \in {"reset", "reopen"}
          /\ pc'[t] = "reopen" => filled' = 0 /\ offset'[t] = 0
          /\ UNCHANGED <<done, reserved, sent, merged>>
      BY <1>1, <1>6 DEF Fetch, ResetFilled, Goto, TypeOK
    <2>2. cur' = {} /\ attached'
      <3>1. CASE Fetch(t)
        BY <3>1 DEF Fetch
      <3>2. CASE ResetFilled(t)
        BY <3>2 DEF ResetFilled, BufferInv, Usable, Attaching
      <3> QED BY <1>6, <3>1, <3>2
    <2>3. \A s \in Thread : ~ Pending(s)
      <3>1. CASE pc[t] = "fetch"
        <4>1. ~ Usable
          BY <1>2, <3>1 DEF BufferInv, Usable, Attaching, Tiled, IsEnd
        <4> QED BY <4>1 DEF BufferInv
      <3>2. CASE pc[t] = "reset"
        BY <3>2 DEF BufferInv, Usable, Attaching
      <3> QED BY <2>1, <3>1, <3>2
    <2>4. ~ Usable' /\ \A s \in Thread : ~ Pending(s)'
      BY <1>3, <2>1, <2>3 DEF Usable, Attaching, Pending
    <2>5. \A b \in DOMAIN sent' : Whole(sent[b])'
      BY <2>1 DEF BufferInv, Whole, WholePackets
    <2>6. \A s \in Thread : pc'[s] = "reopen" => filled' = 0 /\ offset'[s] = 0
      BY <1>2, <1>3, <2>1
    <2> QED BY <1>4, <2>1, <2>2, <2>4, <2>5, <2>6 DEF BufferInv, WholePackets
  <1>7. CASE Reopen(t)
    <2>1. /\ pc[t] = "reopen" /\ pc'[t] = "add" /\ reserved' = Len1(t)
          /\ UNCHANGED <<done, offset, filled, attached, cur, sent, merged>>
      BY <1>1, <1>7 DEF Reopen, Goto, TypeOK
    <2>2. ~ Usable /\ cur = {} /\ attached /\ filled = 0 /\ offset[t] = 0
      BY <2>1 DEF BufferInv, Usable, Attaching
    <2>3. \A s \in Thread : ~ Pending(s)
      BY <2>2 DEF BufferInv
    <2>4. Len1(t) \in 1 .. BufferSize
      BY <1>1, <2>1, PacketInWork DEF TypeOK
    <2>5. PICK e \in Nat : e = Len1(t)
      BY <2>4
    <2>6. \A s \in Thread : Pending(s)' <=> s = t
      BY <1>3, <2>1, <2>3 DEF Pending
    <2>7. Room(t)' = 0 .. e - 1
      BY <2>1, <2>2, <2>4, <2>5 DEF Room, Len1, Here
    <2>8. Unfilled' = 0 .. e - 1
      BY <2>6, <2>7 DEF Unfilled
    <2>9. Cardinality(Unfilled') = e
      <3>1. 0 \in Int /\ e - 1 \in Int
        OBVIOUS
      <3>2. Cardinality(0 .. e - 1) = IF 0 > e - 1 THEN 0 ELSE (e - 1) - 0 + 1
        BY <3>1, FS_Interval
      <3> QED BY <2>4, <2>5, <2>8, <3>2
    <2>10. Tiled(e)'
      <3>1. e \in 0 .. BufferSize /\ IsEnd(e)'
        BY <2>1, <2>4, <2>5 DEF IsEnd
      <3>2. \A s \in Thread : Pending(s)' => Room(s)' \subseteq 0 .. e - 1
        BY <2>6, <2>7
      <3>3. \A r, s \in Thread :
              Pending(r)' /\ Pending(s)' /\ r # s => Room(r)' \cap Room(s)' = {}
        BY <2>6
      <3>4. filled' + Cardinality(Unfilled') = e /\ cur' = {}
        BY <2>1, <2>2, <2>9
      <3>5. \A pos \in 0 .. e - 1 :
              \E s \in Thread : pc'[s] = "add" /\ pos \in Room(s)'
        BY <2>1, <2>7
      <3> QED BY <3>1, <3>2, <3>3, <3>4, <3>5 DEF Tiled
    <2>11. Usable'
      BY <1>2, <1>3, <2>1, <2>2 DEF Usable, Attaching
    <2>12. \A b \in DOMAIN sent' : Whole(sent[b])'
      BY <2>1 DEF BufferInv, Whole, WholePackets
    <2>13. \A s \in Thread : pc'[s] \notin {"reset", "reopen"}
      BY <1>2, <1>3, <2>1
    <2>14. cur' = {} /\ attached' /\ ~ merged' /\ sent' = sent
      BY <1>4, <2>1, <2>2
    <2> QED BY <2>10, <2>11, <2>12, <2>13, <2>14 DEF BufferInv, WholePackets
  <1> QED BY <1>5, <1>6, <1>7

\* After the parallel section nobody is busy, and what is left is handed over.
LEMMA MergeBuffer ==
  ASSUME CounterInv, BufferInv, Merge
  PROVE  BufferInv'
  <1>1. /\ ~ merged /\ merged' /\ Flush /\ UNCHANGED <<pc, done, offset, reserved, filled>>
        /\ \A t \in Thread : pc[t] = "put" /\ done[t] = Len(Lengths[t])
    BY DEF Merge
  <1>2. TypeOK /\ (attached => Usable) /\ \A t \in Thread : ~ Pending(t)
    BY <1>1 DEF CounterInv, Usable, Attaching, Pending
  <1>3. Usable => Whole([words |-> cur, length |-> filled])
    <2> SUFFICES ASSUME Usable PROVE Whole([words |-> cur, length |-> filled])
      OBVIOUS
    <2>1. PICK l \in Nat : Tiled(l)
      BY DEF BufferInv
    <2>2. Unfilled = {}
      BY <1>2 DEF Unfilled
    <2>3. filled = l
      BY <1>2, <2>1, <2>2, FS_EmptySet DEF Tiled, TypeOK
    <2> QED BY <1>2, <2>1, <2>3, FilledIsWhole DEF BufferInv
  <1>4. /\ cur' = {} /\ ~ attached'
        /\ sent' \in Seq([words : SUBSET Word, length : Nat])
        /\ \A b \in DOMAIN sent' : Whole(sent'[b])
    BY <1>1, <1>2, <1>3, FlushBuffer
  <1>5. ~ Usable' /\ \A t \in Thread : ~ Pending(t)'
    BY <1>1, <1>2, <1>4 DEF Usable, Pending
  <1>6. \A b \in DOMAIN sent' : Whole(sent[b])'
    BY <1>4 DEF Whole, WholePackets
  <1> QED BY <1>1, <1>4, <1>5, <1>6 DEF BufferInv, WholePackets

LEMMA NextBuffer == CounterInv /\ BufferInv /\ [Next]_vars => BufferInv'
  <1> SUFFICES ASSUME CounterInv, BufferInv, [Next]_vars PROVE BufferInv'
    OBVIOUS
  <1>1. CASE UNCHANGED vars
    <2>1. /\ \A t \in Thread : Room(t)' = Room(t) /\ (Pending(t)' <=> Pending(t))
          /\ Unfilled' = Unfilled /\ (Usable' <=> Usable)
      BY <1>1 DEF vars, Room, Len1, Here, Pending, Unfilled, Usable, Attaching
    <2>2. ASSUME NEW l \in Nat, Tiled(l) PROVE Tiled(l)'
      BY <1>1, <2>1, <2>2 DEF vars, Tiled, IsEnd
    <2>3. Usable' => \E l \in Nat : Tiled(l)'
      BY <2>1, <2>2 DEF BufferInv
    <2>4. WholePackets(cur)' /\ \A b \in DOMAIN sent' : Whole(sent[b])'
      BY <1>1 DEF vars, BufferInv, Whole, WholePackets
    <2> QED BY <1>1, <2>1, <2>3, <2>4 DEF vars, BufferInv
  <1>2. ASSUME NEW t \in Thread, Spin(t) PROVE BufferInv'
    <2>1. /\ pc[t] = "spin" /\ pc' = [pc EXCEPT ![t] = "put"]
          /\ UNCHANGED <<done, offset, reserved, filled, attached, cur, sent, merged>>
      BY <1>2 DEF Spin, Goto
    <2>2. /\ pc'[t] = "put" /\ \A s \in Thread \ {t} : pc'[s] = pc[s]
      BY <2>1 DEF CounterInv, TypeOK
    <2>3. ~ merged /\ (~ attached => reserved' >= BufferSize) /\ ~ Pending(t) /\ ~ Pending(t)'
      BY <2>1, <2>2 DEF BufferInv, Pending
    <2>4. \A l \in Nat : IsEnd(l) => IsEnd(l)'
      BY <2>1, <2>2 DEF IsEnd
    <2> QED BY <2>1, <2>2, <2>3, <2>4, Untouched
  <1> QED BY <1>1, <1>2, ReserveBuffer, AddBuffer, CommitBuffer, SwapBuffer, MergeBuffer
          DEF Next, Step

\* Each buffer that is handed over to the exchange has one word at every
\* position up to its length and only whole packets, in whatever order the
\* threads reserve, copy and commit.
THEOREM Buffers == Spec => []BuffersWhole
  <1>1. Init => BufferInv
    BY DEF Init, BufferInv, WholePackets, Usable, Attaching, Pending
  <1>2. BufferInv => BuffersWhole
    <2> SUFFICES ASSUME BufferInv, NEW b \in DOMAIN sent
                 PROVE  LET buf == sent[b] IN
                        /\ buf.length <= BufferSize
                        /\ \A pos \in 0 .. buf.length - 1 :
                             Cardinality({w \in buf.words : w.pos = pos}) = 1
                        /\ \A w \in buf.words :
                             /\ w.pos < buf.length
                             /\ \A i \in 0 .. Length(w.put) - 1 :
                                  [pos |-> w.pos - w.word + i, put |-> w.put, word |-> i]
                                    \in buf.words
      BY DEF BuffersWhole
    <2>1. Whole(sent[b])
      BY DEF BufferInv
    <2>2. ASSUME NEW pos \in 0 .. sent[b].length - 1
          PROVE  Cardinality({w \in sent[b].words : w.pos = pos}) = 1
      <3>1. PICK w \in sent[b].words : w.pos = pos
        BY <2>1 DEF Whole
      <3>2. {v \in sent[b].words : v.pos = pos} = {w}
        BY <2>1, <3>1 DEF Whole
      <3> QED BY <3>2, FS_Singleton
    <2> QED BY <2>1, <2>2 DEF Whole, WholePackets
  <1> QED BY <1>1, <1>2, InitCounter, NextCounter, NextBuffer, PTL DEF Spec

-----------------------------------------------------------------------------
(* The buffers as batches of puts *)

\* The puts that have words in a set of words.
PutsIn(words) == {w.put : w \in words}
Accepted == {p \in PutsIn(cur) : Committed(p)}
Handed   == [b \in DOMAIN sent |-> PutsIn(sent[b].words)]

\* What is in a buffer was committed, or is about to be by the thread that
\* wrote it; a buffer in use has room reserved in it.
BatchInv ==
  /\ \A w \in cur : Committed(w.put) \/ \E t \in Thread : pc[t] = "commit" /\ w.put = Here(t)
  /\ \A b \in DOMAIN sent : \A w \in sent[b].words : Committed(w.put)
  /\ \A t \in Thread : pc[t] = "commit" => Here(t) \in PutsIn(cur)
  /\ Usable => reserved >= 1
  /\ \A t \in Thread : pc[t] = "await" => offset[t] >= 1

\* Puts are pairs, and a thread commits its puts in turn.
LEMMA PutPairs ==
  ASSUME NEW p \in Put
  PROVE  p[1] \in Thread /\ p = <<p[1], p[2]>> /\ p[2] \in DOMAIN Lengths[p[1]]
         /\ p[2] \in Nat /\ Length(p) \in 1 .. BufferSize
<1>1. PICK t \in Thread : p \in {t} \X DOMAIN Lengths[t]
  BY DEF Put
<1>2. p[1] = t /\ p = <<p[1], p[2]>> /\ p[2] \in DOMAIN Lengths[t]
  BY <1>1
<1>3. Lengths[t] \in Seq(1 .. BufferSize)
  OBVIOUS
<1>4. p[2] \in 1 .. Len(Lengths[t]) /\ Lengths[t][p[2]] \in 1 .. BufferSize
  BY <1>2, <1>3
<1> QED BY <1>2, <1>4 DEF Length

\* A commit makes one put more a committed one.
LEMMA NewlyCommitted ==
  ASSUME TypeOK, NEW t \in Thread, done[t] < Len(Lengths[t]),
         done' = [done EXCEPT ![t] = @ + 1], NEW p \in Put
  PROVE  /\ Committed(p)' <=> Committed(p) \/ p = Here(t)
         /\ ~ Committed(Here(t))
<1>1. done \in [Thread -> Nat] /\ done[t] \in Nat
  BY DEF TypeOK
<1>2. p[1] \in Thread /\ p = <<p[1], p[2]>> /\ p[2] \in Nat
  BY PutPairs
<1>3. Here(t)[1] = t /\ Here(t)[2] = done[t] + 1
  BY DEF Here
<1>4. ~ Committed(Here(t))
  BY <1>1, <1>3 DEF Committed
<1>5. CASE p[1] = t
  <2>1. p = Here(t) <=> p[2] = done[t] + 1
    BY <1>2, <1>5 DEF Here
  <2>2. done'[t] = done[t] + 1
    BY <1>1
  <2> QED BY <1>1, <1>2, <1>4, <1>5, <2>1, <2>2 DEF Committed
<1>6. CASE p[1] # t
  <2>1. p # Here(t)
    BY <1>3, <1>6
  <2>2. done'[p[1]] = done[p[1]]
    BY <1>1, <1>2, <1>6
  <2> QED BY <1>4, <2>1, <2>2 DEF Committed
<1> QED BY <1>5, <1>6

\* The size of a batch is taken with the same definition of Cardinality.
LEMMA SameCardinality == ASSUME NEW S PROVE Batches!Cardinality(S) = Cardinality(S)
  BY DEF Batches!Cardinality, Cardinality

\* The words of whole puts that are all in the buffer are at positions of
\* their own, so that there is room for them.
LEMMA BatchFits ==
  ASSUME TypeOK, BufferInv, NEW l \in Nat, Tiled(l), NEW batch, batch \subseteq PutsIn(cur)
  PROVE  Batches!Size(batch) <= BufferSize
<1> DEFINE W == Batches!Words(batch)
           Place(x) == CHOOSE w \in cur : w.put = x[1] /\ w.word = x[2] - 1
           f == [x \in W |-> Place(x).pos]
<1>1. cur \subseteq Word /\ WholePackets(cur) /\ l <= BufferSize /\ BufferSize \in Nat
  BY DEF BufferInv, Tiled
<1>2. ASSUME NEW x \in W
      PROVE  Place(x) \in cur /\ Place(x).put = x[1] /\ Place(x).word = x[2] - 1 /\ x = <<x[1], x[2]>>
             /\ x[2] \in Nat
  <2>1. PICK p \in batch : x \in {p} \X (1 .. Length(p))
    BY DEF Batches!Words
  <2>2. x[1] = p /\ x[2] \in 1 .. Length(p) /\ x = <<x[1], x[2]>>
    BY <2>1
  <2>3. PICK v \in cur : v.put = p
    BY <2>1 DEF PutsIn
  <2>4. p \in Put /\ Length(p) \in Nat
    <3>1. p \in Put
      BY <1>1, <2>3 DEF Word
    <3> QED BY <3>1, PutPairs
  <2>5. x[2] - 1 \in 0 .. Length(p) - 1 /\ x[2] \in Nat
    BY <2>2, <2>4
  <2>6. \E w \in cur : w.put = x[1] /\ w.word = x[2] - 1
    <3> DEFINE u == [pos |-> v.pos - v.word + (x[2] - 1), put |-> v.put, word |-> x[2] - 1]
    <3>1. u \in cur
      BY <1>1, <2>3, <2>5 DEF WholePackets
    <3> QED BY <2>2, <2>3, <3>1
  <2> QED BY <2>2, <2>5, <2>6
<1>3. \A x \in W : Place(x).pos \in 0 .. l - 1
  <2>1. \A w \in cur : w.pos \in Nat /\ w.pos < l
    BY <1>1 DEF Word, Tiled
  <2> QED BY <1>2, <2>1
<1>4. ASSUME NEW x \in W, NEW y \in W, f[x] = f[y] PROVE x = y
  <2>1. Place(x).pos = Place(y).pos
    BY <1>4
  <2>2. Place(x) = Place(y)
    BY <1>2, <2>1 DEF Tiled
  <2>3. x[1] = y[1] /\ x[2] - 1 = y[2] - 1
    BY <1>2, <2>2
  <2>4. x[2] = y[2]
    <3>1. x[2] \in Nat /\ y[2] \in Nat
      BY <1>2
    <3> QED BY <2>3, <3>1
  <2> QED BY <1>2, <2>3, <2>4
<1>5. IsFiniteSet(0 .. l - 1) /\ Cardinality(0 .. l - 1) = l
  <2>1. 0 \in Int /\ l - 1 \in Int
    OBVIOUS
  <2>2. IsFiniteSet(0 .. l - 1) /\ Cardinality(0 .. l - 1) = IF 0 > l - 1 THEN 0 ELSE (l - 1) - 0 + 1
    BY <2>1, FS_Interval
  <2> QED BY <2>2
<1>6. f \in [W -> 0 .. l - 1]
  BY <1>3
<1> HIDE DEF W, f
<1>7. f \in Injection(W, 0 .. l - 1)
  BY <1>4, <1>6 DEF Injection, IsInjective
<1>8. Cardinality(W) <= Cardinality(0 .. l - 1) /\ IsFiniteSet(W)
  BY <1>5, <1>7, FS_Injection
<1>9. Cardinality(W) \in Nat
  BY <1>8, FS_CardinalityType
<1>10. Cardinality(W) <= BufferSize
  BY <1>1, <1>5, <1>8, <1>9
<1> QED BY <1>10, SameCardinality DEF Batches!Size, W
-----------------------------------------------------------------------------
\* It holds before the first put.
LEMMA BatchInit == Init => BatchInv
  BY DEF Init, BatchInv, Usable

\* Steps that leave the buffers and the counts of puts alone.
LEMMA BatchKept ==
  ASSUME TypeOK, BatchInv, NEW t \in Thread, UNCHANGED <<done, cur, sent>>,
         \A s \in Thread \ {t} : pc'[s] = pc[s] /\ offset'[s] = offset[s],
         pc[t] # "commit", pc'[t] # "commit", pc'[t] = "await" => offset'[t] >= 1,
         Usable' => reserved' >= 1
  PROVE  BatchInv'
<1>1. \A s \in Thread : pc'[s] = "commit" <=> pc[s] = "commit"
  OBVIOUS
<1>2. \A s \in Thread : Here(s)' = Here(s)
  BY DEF Here
<1>3. \A p : Committed(p)' <=> Committed(p)
  BY DEF Committed
<1>4. PutsIn(cur)' = PutsIn(cur)
  BY DEF PutsIn
<1>5. \A w \in cur' : Committed(w.put)' \/ \E s \in Thread : pc'[s] = "commit" /\ w.put = Here(s)'
  BY <1>1, <1>2, <1>3 DEF BatchInv
<1>6. \A b \in DOMAIN sent' : \A w \in sent'[b].words : Committed(w.put)'
  BY <1>3 DEF BatchInv
<1>7. \A s \in Thread : pc'[s] = "commit" => Here(s)' \in PutsIn(cur)'
  BY <1>1, <1>2, <1>4 DEF BatchInv
<1>8. \A s \in Thread : pc'[s] = "await" => offset'[s] >= 1
  BY DEF BatchInv
<1> QED BY <1>5, <1>6, <1>7, <1>8 DEF BatchInv

\* The same of the batches.
\* The batches follow from the buffers and the counts of puts.
LEMMA BatchesKept ==
  ASSUME TypeOK, UNCHANGED <<done, cur, sent>>
  PROVE  Accepted' = Accepted /\ Handed' = Handed
<1>1. \A p : Committed(p)' <=> Committed(p)
  BY DEF Committed
<1> QED BY <1>1 DEF Accepted, Handed, PutsIn

\* A reservation tells nothing of a buffer but that it is in use.
LEMMA ReserveBatch ==
  ASSUME CounterInv, BufferInv, BatchInv, NEW t \in Thread, Reserve(t)
  PROVE  BatchInv'
<1>1. /\ pc[t] = "put" /\ done[t] < Len(Lengths[t])
      /\ offset' = [offset EXCEPT ![t] = reserved]
      /\ reserved' = reserved + Len1(t)
      /\ pc' = [pc EXCEPT ![t] = AfterReserve(reserved, Len1(t))]
      /\ UNCHANGED <<done, filled, attached, cur, sent, merged>>
  BY DEF Reserve, Goto
<1>2. TypeOK /\ reserved \in Nat /\ Len1(t) \in 1 .. BufferSize
  BY <1>1, PacketInWork DEF CounterInv, TypeOK
<1>3. /\ pc'[t] = AfterReserve(reserved, Len1(t)) /\ offset'[t] = reserved
      /\ \A s \in Thread \ {t} : pc'[s] = pc[s] /\ offset'[s] = offset[s]
  BY <1>1, <1>2 DEF TypeOK
<1>4. pc'[t] # "commit" /\ (pc'[t] = "await" => offset'[t] >= 1)
  BY <1>2, <1>3 DEF AfterReserve
<1>5. reserved' >= 1
  BY <1>1, <1>2
<1> QED BY <1>1, <1>2, <1>3, <1>4, <1>5, BatchKept

\* Waiting, and attaching the next buffer, leave the batches as they are.
LEMMA SpinBatch ==
  ASSUME CounterInv, BufferInv, BatchInv, NEW t \in Thread,
         Spin(t) \/ Fetch(t) \/ ResetFilled(t) \/ Reopen(t)
  PROVE  BatchInv' /\ UNCHANGED <<done, cur, sent>>
<1>1. TypeOK /\ OneSwapper
  BY DEF CounterInv
<1>2. CASE Spin(t)
  <2>1. /\ pc[t] = "spin" /\ pc' = [pc EXCEPT ![t] = "put"]
        /\ UNCHANGED <<done, offset, reserved, filled, attached, cur, sent, merged>>
    BY <1>2 DEF Spin, Goto
  <2>2. pc'[t] = "put" /\ \A s \in Thread \ {t} : pc'[s] = pc[s]
    BY <1>1, <2>1 DEF TypeOK
  <2>3. Usable' => Usable
    BY <2>1, <2>2 DEF Usable, Attaching
  <2>4. Usable' => reserved' >= 1
    BY <2>1, <2>3 DEF BatchInv
  <2> QED BY <1>1, <2>1, <2>2, <2>4, BatchKept
<1>3. CASE Fetch(t) \/ ResetFilled(t)
  <2>1. /\ pc[t] \in {"fetch", "reset"} /\ pc'[t] \in {"reset", "reopen"}
        /\ UNCHANGED <<done, reserved, sent>> /\ (cur' = cur \/ cur' = {})
        /\ \A s \in Thread \ {t} : pc'[s] = pc[s] /\ offset'[s] = offset[s]
    BY <1>1, <1>3 DEF Fetch, ResetFilled, Goto, TypeOK
  <2>2. cur = {}
    <3>1. \A s \in Thread \ {t} : pc[s] # "await"
      BY <1>1, <2>1 DEF OneSwapper, Swapping
    <3>2. reserved > BufferSize
      BY <1>1, <2>1 DEF OneSwapper, Swapping
    <3>3. reserved \in Nat
      BY <1>1 DEF TypeOK
    <3>4. \A l \in Nat : ~ IsEnd(l)
      BY <2>1, <3>1, <3>2, <3>3 DEF IsEnd
    <3>5. ~ Usable
      BY <3>4 DEF BufferInv, Tiled
    <3> QED BY <3>5 DEF BufferInv
  <2>3. ~ Usable'
    BY <2>1 DEF Usable, Attaching
  <2>4. UNCHANGED <<done, cur, sent>>
    BY <2>1, <2>2
  <2> QED BY <1>1, <2>1, <2>3, <2>4, BatchKept
<1>4. CASE Reopen(t)
  <2>1. /\ pc[t] = "reopen" /\ pc' = [pc EXCEPT ![t] = "add"] /\ reserved' = Len1(t)
        /\ UNCHANGED <<done, offset, filled, attached, cur, sent, merged>>
    BY <1>4 DEF Reopen, Goto
  <2>2. pc'[t] = "add" /\ \A s \in Thread \ {t} : pc'[s] = pc[s]
    BY <1>1, <2>1 DEF TypeOK
  <2>3. Len1(t) \in 1 .. BufferSize
    BY <1>1, <2>1, PacketInWork DEF TypeOK
  <2>4. reserved' >= 1
    BY <2>1, <2>3
  <2> QED BY <1>1, <2>1, <2>2, <2>4, BatchKept
<1> QED BY <1>2, <1>3, <1>4

\* A thread writes its put, which is not accepted yet.
LEMMA AddBatch ==
  ASSUME CounterInv, BufferInv, BatchInv, NEW t \in Thread, Add(t)
  PROVE  BatchInv' /\ Accepted' = Accepted /\ Handed' = Handed
<1> DEFINE new == {[pos |-> offset[t] + i, put |-> Here(t), word |-> i] : i \in 0 .. Len1(t) - 1}
<1>1. /\ pc[t] = "add" /\ pc' = [pc EXCEPT ![t] = "commit"] /\ cur' = cur \cup new
      /\ UNCHANGED <<done, offset, reserved, filled, attached, sent, merged>>
  BY DEF Add, Goto
<1>2. TypeOK /\ Len1(t) \in 1 .. BufferSize /\ done[t] < Len(Lengths[t])
  BY <1>1, PacketInWork DEF CounterInv, TypeOK
<1>3. pc'[t] = "commit" /\ \A s \in Thread \ {t} : pc'[s] = pc[s]
  BY <1>1, <1>2 DEF TypeOK
<1>4. (\A w \in new : w.put = Here(t)) /\ \E w \in new : w.put = Here(t)
  <2>1. 0 \in 0 .. Len1(t) - 1
    BY <1>2
  <2>2. [pos |-> offset[t] + 0, put |-> Here(t), word |-> 0] \in new
    BY <2>1
  <2>3. [pos |-> offset[t] + 0, put |-> Here(t), word |-> 0].put = Here(t)
    OBVIOUS
  <2>4. \A w \in new : w.put = Here(t)
    OBVIOUS
  <2> HIDE DEF new
  <2> QED BY <2>2, <2>3, <2>4
<1> HIDE DEF new
<1>5. PutsIn(cur)' = PutsIn(cur) \cup {Here(t)}
  BY <1>1, <1>4 DEF PutsIn
<1>6. /\ \A p : Committed(p)' <=> Committed(p)
      /\ \A s \in Thread : Here(s)' = Here(s)
  BY <1>1 DEF Committed, Here
<1>7. ~ Committed(Here(t))
  BY <1>2 DEF Committed, Here, TypeOK
<1>8. Accepted' = Accepted
  BY <1>5, <1>6, <1>7 DEF Accepted
<1>9. \A w \in cur' : Committed(w.put)' \/ \E s \in Thread : pc'[s] = "commit" /\ w.put = Here(s)'
  <2> SUFFICES ASSUME NEW w \in cur'
               PROVE  Committed(w.put)' \/ \E s \in Thread : pc'[s] = "commit" /\ w.put = Here(s)'
    OBVIOUS
  <2>1. CASE w \in cur
    <3>1. CASE Committed(w.put)
      BY <1>6, <3>1
    <3>2. CASE ~ Committed(w.put)
      <4>1. PICK s \in Thread : pc[s] = "commit" /\ w.put = Here(s)
        BY <2>1, <3>2 DEF BatchInv
      <4>2. pc'[s] = "commit" /\ Here(s)' = Here(s)
        BY <1>1, <1>3, <1>6, <4>1
      <4> QED BY <4>1, <4>2
    <3> QED BY <3>1, <3>2
  <2>2. CASE w \in new
    BY <1>3, <1>4, <1>6, <2>2
  <2> QED BY <1>1, <2>1, <2>2
<1>10. \A b \in DOMAIN sent' : \A w \in sent'[b].words : Committed(w.put)'
  BY <1>1, <1>6 DEF BatchInv
<1>11. \A s \in Thread : pc'[s] = "commit" => Here(s)' \in PutsIn(cur)'
  BY <1>3, <1>5, <1>6 DEF BatchInv
<1>12. Usable' => reserved' >= 1
  <2>1. Usable' => Usable
    BY <1>1, <1>3 DEF Usable, Attaching
  <2> QED BY <1>1, <2>1 DEF BatchInv
<1>13. \A s \in Thread : pc'[s] = "await" => offset'[s] >= 1
  BY <1>1, <1>3 DEF BatchInv
<1>14. Handed' = Handed
  BY <1>1 DEF Handed, PutsIn
<1> QED BY <1>8, <1>9, <1>10, <1>11, <1>12, <1>13, <1>14 DEF BatchInv

\* A thread commits its put, which is accepted with that.
LEMMA CommitBatch ==
  ASSUME CounterInv, BufferInv, BatchInv, NEW t \in Thread, Commit(t)
  PROVE  /\ BatchInv' /\ Accepted' = Accepted \cup {Here(t)} /\ Handed' = Handed
         /\ Here(t) \in PutsIn(cur) /\ Here(t) \in Put /\ ~ Committed(Here(t)) /\ Usable
<1>1. /\ pc[t] = "commit" /\ pc' = [pc EXCEPT ![t] = "put"]
      /\ done' = [done EXCEPT ![t] = @ + 1]
      /\ UNCHANGED <<offset, reserved, attached, cur, sent, merged>>
  BY DEF Commit, Goto
<1>2. TypeOK /\ done[t] < Len(Lengths[t])
  BY <1>1 DEF CounterInv, TypeOK
<1>3. Here(t) \in Put
  BY <1>2, PacketInWork
<1>4. /\ pc'[t] = "put" /\ \A s \in Thread \ {t} : pc'[s] = pc[s] /\ Here(s)' = Here(s)
  BY <1>1, <1>2 DEF TypeOK, Here
<1>5. Here(t) \in PutsIn(cur) /\ PutsIn(cur)' = PutsIn(cur)
  BY <1>1 DEF BatchInv, PutsIn
<1>6. Usable
  BY <1>1 DEF BufferInv, Pending
<1>7. /\ \A w \in cur : w.put \in Put
      /\ \A b \in DOMAIN sent : \A w \in sent[b].words : w.put \in Put
  <2>1. cur \subseteq Word /\ \A b \in DOMAIN sent : sent[b].words \subseteq Word
    <3> DEFINE S == [words : SUBSET Word, length : Nat]
    <3>1. cur \subseteq Word /\ sent \in Seq(S)
      BY DEF BufferInv
    <3>2. \A b \in DOMAIN sent : sent[b] \in S
      <4> HIDE DEF S
      <4> QED BY <3>1
    <3> QED BY <3>1, <3>2
  <2> QED BY <2>1 DEF Word
<1>8. /\ ~ Committed(Here(t)) /\ \A p \in Put : Committed(p)' <=> Committed(p) \/ p = Here(t)
  BY <1>1, <1>2, <1>3, NewlyCommitted
<1>9. Accepted' = Accepted \cup {Here(t)}
  <2>1. \A p \in PutsIn(cur) : p \in Put
    BY <1>7 DEF PutsIn
  <2> QED BY <1>5, <1>8, <2>1 DEF Accepted
<1>10. \A w \in cur' : Committed(w.put)' \/ \E s \in Thread : pc'[s] = "commit" /\ w.put = Here(s)'
  <2> SUFFICES ASSUME NEW w \in cur, ~ Committed(w.put)'
               PROVE  \E s \in Thread : pc'[s] = "commit" /\ w.put = Here(s)'
    BY <1>1
  <2>1. ~ Committed(w.put) /\ w.put # Here(t)
    BY <1>7, <1>8
  <2>2. PICK s \in Thread : pc[s] = "commit" /\ w.put = Here(s)
    BY <2>1 DEF BatchInv
  <2> QED BY <1>4, <2>1, <2>2
<1>11. \A b \in DOMAIN sent' : \A w \in sent'[b].words : Committed(w.put)'
  BY <1>1, <1>7, <1>8 DEF BatchInv
<1>12. \A s \in Thread : pc'[s] = "commit" => Here(s)' \in PutsIn(cur)'
  BY <1>4, <1>5 DEF BatchInv
<1>13. Usable' => reserved' >= 1
  BY <1>1, <1>6 DEF BatchInv
<1>14. \A s \in Thread : pc'[s] = "await" => offset'[s] >= 1
  BY <1>1, <1>4 DEF BatchInv
<1>15. Handed' = Handed
  BY <1>1 DEF Handed, PutsIn
<1> QED BY <1>3, <1>5, <1>6, <1>8, <1>9, <1>10, <1>11, <1>12, <1>13, <1>14, <1>15 DEF BatchInv

\* A buffer that is handed over with nobody at work on it has all its puts
\* committed, and some.
LEMMA FlushBatch ==
  ASSUME TypeOK, BufferInv, BatchInv, Flush, UNCHANGED done, attached => Usable,
         \A t \in Thread : ~ Pending(t), \A t \in Thread : Here(t)' = Here(t),
         \A t \in Thread : pc'[t] # "commit" /\ (pc'[t] = "await" => offset'[t] >= 1),
         Usable => filled >= 1 /\ \E l \in Nat : Tiled(l) /\ l = filled
  PROVE  /\ BatchInv' /\ Accepted' = {}
         /\ \/ ~ attached /\ Accepted = {} /\ Handed' = Handed
            \/ attached /\ Accepted # {} /\ Handed' = Append(Handed, Accepted)
<1>1. \A p : Committed(p)' <=> Committed(p)
  BY DEF Committed
<1>2. cur' = {} /\ ~ attached'
  BY DEF Flush
<1>3. \A w \in cur : Committed(w.put)
  BY DEF BatchInv, Pending
<1>4. Accepted = PutsIn(cur) /\ Accepted' = {}
  BY <1>2, <1>3 DEF Accepted, PutsIn
<1>5. ~ Usable'
  BY <1>2 DEF Usable
<1>6. CASE ~ attached
  <2>1. sent' = sent /\ cur = {}
    BY <1>6 DEF Flush, Usable, BufferInv
  <2>2. Handed' = Handed /\ Accepted = {}
    BY <1>4, <2>1 DEF Handed, PutsIn
  <2>3. \A b \in DOMAIN sent' : \A w \in sent'[b].words : Committed(w.put)'
    BY <1>1, <2>1 DEF BatchInv
  <2> QED BY <1>2, <1>4, <1>5, <1>6, <2>2, <2>3 DEF BatchInv
<1>7. CASE attached
  <2> DEFINE buf == [words |-> cur, length |-> filled]
             S == [words : SUBSET Word, length : Nat]
  <2>1. sent' = Append(sent, buf) /\ sent \in Seq(S) /\ buf \in S
    BY <1>7 DEF Flush, BufferInv, TypeOK
  <2>2. /\ DOMAIN sent' = 1 .. Len(sent) + 1 /\ DOMAIN sent = 1 .. Len(sent) /\ Len(sent) \in Nat
        /\ sent'[Len(sent) + 1] = buf
        /\ \A b \in 1 .. Len(sent) : sent'[b] = sent[b]
    <3> HIDE DEF buf, S
    <3> QED BY <2>1
  <2>3. buf.words = cur
    OBVIOUS
  <2>4. \A b \in DOMAIN sent' : \A w \in sent'[b].words : Committed(w.put)'
    <3> SUFFICES ASSUME NEW b \in 1 .. Len(sent) + 1 PROVE \A w \in sent'[b].words : Committed(w.put)
      BY <1>1, <2>2
    <3>1. CASE b = Len(sent) + 1
      BY <1>3, <2>2, <2>3, <3>1
    <3>2. CASE b \in 1 .. Len(sent)
      BY <2>2, <3>2 DEF BatchInv
    <3> QED BY <2>2, <3>1, <3>2
  <2>5. Handed' = Append(Handed, Accepted)
    <3>1. Handed = [b \in 1 .. Len(sent) |-> PutsIn(sent[b].words)]
          /\ Handed' = [b \in 1 .. Len(sent) + 1 |-> PutsIn(sent'[b].words)]
      BY <2>2 DEF Handed, PutsIn
    <3>2. Len(Handed) = Len(sent)
      BY <2>2, <3>1
    <3>3. Append(Handed, Accepted) =
            [b \in 1 .. Len(sent) + 1 |-> IF b = Len(sent) + 1 THEN Accepted ELSE Handed[b]]
      <4> DEFINE T == {Accepted} \cup {Handed[b] : b \in 1 .. Len(sent)}
      <4>0. Accepted \in T /\ \A b \in 1 .. Len(sent) : Handed[b] \in T
        OBVIOUS
      <4> HIDE DEF T
      <4>1. Handed \in Seq(T) /\ Accepted \in T
        <5>1. Handed = [b \in 1 .. Len(sent) |-> Handed[b]]
          BY <3>1
        <5>2. Handed \in [1 .. Len(sent) -> T] /\ Len(sent) \in Nat
          BY <2>2, <4>0, <5>1
        <5> HIDE DEF buf
        <5> QED BY <4>0, <5>2
      <4> DEFINE A == Append(Handed, Accepted)
      <4>2. /\ A \in Seq(T) /\ Len(A) = Len(sent) + 1
            /\ \A b \in 1 .. Len(sent) + 1 : A[b] = IF b = Len(sent) + 1 THEN Accepted ELSE Handed[b]
        BY <2>2, <3>2, <4>1
      <4> HIDE DEF A
      <4>3. A = [b \in 1 .. Len(A) |-> A[b]]
        BY <4>2
      <4>4. A = [b \in 1 .. Len(sent) + 1 |-> IF b = Len(sent) + 1 THEN Accepted ELSE Handed[b]]
        BY <4>2, <4>3
      <4> QED BY <4>4 DEF A
    <3>4. ASSUME NEW b \in 1 .. Len(sent) + 1
          PROVE  PutsIn(sent'[b].words) = IF b = Len(sent) + 1 THEN Accepted ELSE Handed[b]
      <4>1. CASE b = Len(sent) + 1
        BY <1>4, <2>2, <2>3, <4>1
      <4>2. CASE b \in 1 .. Len(sent)
        BY <2>2, <3>1, <4>2
      <4> QED BY <2>2, <4>1, <4>2
    <3> QED BY <3>1, <3>3, <3>4
  <2>6. Accepted # {}
    <3>1. PICK l \in Nat : Tiled(l) /\ l = filled /\ l >= 1
      BY <1>7
    <3>2. 0 \in 0 .. l - 1 /\ \A t \in Thread : pc[t] # "add"
      BY <3>1 DEF Pending
    <3>3. \E w \in cur : w.pos = 0
      BY <3>1, <3>2 DEF Tiled
    <3> QED BY <1>4, <3>3 DEF PutsIn
  <2> QED BY <1>2, <1>4, <1>5, <1>7, <2>4, <2>5, <2>6 DEF BatchInv
<1> QED BY <1>6, <1>7

\* The two steps that hand a buffer over.
LEMMA AwaitBatch ==
  ASSUME CounterInv, BufferInv, BatchInv, NEW t \in Thread, AwaitFilled(t)
  PROVE  /\ BatchInv' /\ Accepted' = {}
         /\ \/ ~ attached /\ Accepted = {} /\ Handed' = Handed
            \/ attached /\ Accepted # {} /\ Handed' = Append(Handed, Accepted)
<1>1. TypeOK /\ OneSwapper
  BY DEF CounterInv
<1>2. /\ pc[t] = "await" /\ pc'[t] = "fetch" /\ offset[t] = filled /\ Flush
      /\ UNCHANGED <<done, offset, reserved, filled, merged>>
      /\ \A s \in Thread \ {t} : pc'[s] = pc[s]
  BY <1>1 DEF AwaitFilled, Goto, TypeOK
<1>3. /\ reserved > BufferSize /\ reserved \in Nat
      /\ \A s \in Thread \ {t} : pc[s] \notin {"await", "reset", "reopen"}
  BY <1>1, <1>2 DEF OneSwapper, Swapping, TypeOK
<1>4. attached => Usable
  BY <1>2, <1>3 DEF Usable, Attaching
<1>5. Usable => \E l \in Nat : Tiled(l) /\ l = filled
  <2> SUFFICES ASSUME Usable PROVE \E l \in Nat : Tiled(l) /\ l = filled
    OBVIOUS
  <2>1. PICK l \in Nat : Tiled(l)
    BY DEF BufferInv
  <2>2. IsEnd(l) /\ l <= BufferSize
    BY <2>1 DEF Tiled
  <2>3. l = filled
    BY <1>2, <1>3, <2>2 DEF IsEnd
  <2> QED BY <2>1, <2>3
<1>6. filled >= 1
  BY <1>2 DEF BatchInv
<1>7. \A s \in Thread : ~ Pending(s)
  <2>1. CASE ~ Usable
    BY <2>1 DEF BufferInv
  <2>2. CASE Usable
    BY <1>1, <1>5, <2>2, FilledIsWhole DEF BufferInv
  <2> QED BY <2>1, <2>2
<1>8. \A s \in Thread : Here(s)' = Here(s)
  BY <1>2 DEF Here
<1>9. \A s \in Thread : pc'[s] # "commit" /\ pc'[s] # "await"
  BY <1>2, <1>3, <1>7 DEF Pending
<1>10. UNCHANGED done
  BY <1>2
<1> QED BY <1>1, <1>2, <1>4, <1>5, <1>6, <1>7, <1>8, <1>9, <1>10, FlushBatch

\* The flush at the end hands over what is left.
LEMMA MergeBatch ==
  ASSUME CounterInv, BufferInv, BatchInv, Merge
  PROVE  /\ BatchInv' /\ Accepted' = {}
         /\ \/ ~ attached /\ Accepted = {} /\ Handed' = Handed
            \/ attached /\ Accepted # {} /\ Handed' = Append(Handed, Accepted)
<1>1. /\ ~ merged /\ merged' /\ Flush /\ UNCHANGED <<pc, done, offset, reserved, filled>>
      /\ \A t \in Thread : pc[t] = "put" /\ done[t] = Len(Lengths[t])
  BY DEF Merge
<1>2. TypeOK /\ (attached => Usable) /\ \A t \in Thread : ~ Pending(t)
  BY <1>1 DEF CounterInv, Usable, Attaching, Pending
<1>3. Usable => filled >= 1 /\ \E l \in Nat : Tiled(l) /\ l = filled
  <2> SUFFICES ASSUME Usable PROVE filled >= 1 /\ \E l \in Nat : Tiled(l) /\ l = filled
    OBVIOUS
  <2>1. PICK l \in Nat : Tiled(l)
    BY DEF BufferInv
  <2>2. Unfilled = {}
    BY <1>2 DEF Unfilled
  <2>3. filled = l
    BY <1>2, <2>1, <2>2, FS_EmptySet DEF Tiled, TypeOK
  <2>4. l = reserved /\ reserved >= 1
    BY <1>1, <2>1 DEF Tiled, IsEnd, BatchInv
  <2> QED BY <2>1, <2>3, <2>4
<1>4. \A t \in Thread : Here(t)' = Here(t)
  BY <1>1 DEF Here
<1>5. \A t \in Thread : pc'[t] # "commit" /\ pc'[t] # "await"
  BY <1>1
<1>6. UNCHANGED done
  BY <1>1
<1> QED BY <1>1, <1>2, <1>3, <1>4, <1>5, <1>6, FlushBatch

\* Every step keeps the invariant.
LEMMA BatchNext == CounterInv /\ BufferInv /\ BatchInv /\ [Next]_vars => BatchInv'
<1> SUFFICES ASSUME CounterInv, BufferInv, BatchInv, [Next]_vars PROVE BatchInv'
  OBVIOUS
<1>1. CASE UNCHANGED vars
  <2>1. /\ \A p : Committed(p)' <=> Committed(p)
        /\ \A t \in Thread : Here(t)' = Here(t)
        /\ PutsIn(cur)' = PutsIn(cur) /\ (Usable' <=> Usable)
    BY <1>1 DEF vars, Committed, Here, PutsIn, Usable, Attaching
  <2> QED BY <1>1, <2>1 DEF vars, BatchInv
<1>2. CASE Merge
  BY <1>2, MergeBatch
<1>3. ASSUME NEW t \in Thread, Step(t) PROVE BatchInv'
  BY <1>3, ReserveBatch, SpinBatch, AwaitBatch, AddBatch, CommitBatch DEF Step
<1> QED BY <1>1, <1>2, <1>3 DEF Next

\* Each step accepts one put into the open batch, or closes it, or does
\* neither.
LEMMA BatchStep ==
  ASSUME CounterInv, BufferInv, BatchInv, [Next]_vars
  PROVE  [Batches!Next]_(Batches!batchVars)
<1> DEFINE open == {p \in {w.put : w \in cur} : Committed(p)}
           sealed == [b \in DOMAIN sent |-> {w.put : w \in sent[b].words}]
<1>1. open = Accepted /\ sealed = Handed /\ open' = Accepted' /\ sealed' = Handed'
  BY DEF Accepted, Handed, PutsIn
<1>2. CASE Accepted' = Accepted /\ Handed' = Handed
  BY <1>1, <1>2 DEF Batches!batchVars
<1>3. ASSUME Accepted' = {} /\ Accepted # {} /\ Handed' = Append(Handed, Accepted)
      PROVE  Batches!Seal
  BY <1>1, <1>3 DEF Batches!Seal
<1>4. ASSUME NEW t \in Thread, Commit(t), NEW p \in Put, p = Here(t)
      PROVE  Batches!Accept(p)
  <2>1. /\ Accepted' = Accepted \cup {Here(t)} /\ Handed' = Handed
        /\ Here(t) \in PutsIn(cur) /\ Here(t) \in Put /\ ~ Committed(Here(t)) /\ Usable
    BY <1>4, CommitBatch
  <2>2. Here(t) \notin Accepted
    BY <2>1 DEF Accepted
  <2>3. \A b \in DOMAIN Handed : Here(t) \notin Handed[b]
    BY <2>1 DEF Handed, PutsIn, BatchInv
  <2>4. Batches!Size(Accepted \cup {Here(t)}) <= BufferSize
    <3>1. PICK l \in Nat : Tiled(l)
      BY <2>1 DEF BufferInv
    <3>2. Accepted \cup {Here(t)} \subseteq PutsIn(cur)
      BY <2>1 DEF Accepted
    <3>3. TypeOK
      BY DEF CounterInv
    <3> QED BY <3>1, <3>2, <3>3, BatchFits
  <2> QED BY <1>1, <1>4, <2>1, <2>2, <2>3, <2>4 DEF Batches!Accept
<1>5. CASE UNCHANGED vars
  <2>1. TypeOK /\ UNCHANGED <<done, cur, sent>>
    BY <1>5 DEF vars, CounterInv
  <2> QED BY <1>2, <2>1, BatchesKept
<1>6. ASSUME \/ ~ attached /\ Accepted = {} /\ Handed' = Handed
             \/ attached /\ Accepted # {} /\ Handed' = Append(Handed, Accepted),
             Accepted' = {}
      PROVE  [Batches!Next]_(Batches!batchVars)
  BY <1>2, <1>3, <1>6 DEF Batches!Next
<1>7. CASE Merge
  BY <1>6, <1>7, MergeBatch
<1>8. ASSUME NEW t \in Thread, Step(t) PROVE [Batches!Next]_(Batches!batchVars)
  <2>1. CASE Reserve(t) \/ Spin(t) \/ Fetch(t) \/ ResetFilled(t) \/ Reopen(t)
    <3>1. UNCHANGED <<done, cur, sent>>
      <4>1. CASE Reserve(t)
        BY <4>1 DEF Reserve
      <4> QED BY <2>1, <4>1, SpinBatch
    <3>2. TypeOK
      BY DEF CounterInv
    <3> QED BY <1>2, <3>1, <3>2, BatchesKept
  <2>2. CASE AwaitFilled(t)
    BY <1>6, <2>2, AwaitBatch
  <2>3. CASE Add(t)
    BY <1>2, <2>3, AddBatch
  <2>4. CASE Commit(t)
    <3>1. PICK p \in Put : p = Here(t)
      BY <2>4, CommitBatch
    <3>2. Batches!Accept(p)
      BY <1>4, <2>4, <3>1
    <3> QED BY <3>2 DEF Batches!Next
  <2> QED BY <1>8, <2>1, <2>2, <2>3, <2>4 DEF Step
<1> QED BY <1>5, <1>7, <1>8 DEF Next

\* The lock-free buffer implements batches of whole puts: each put is accepted
\* once, into one batch that has room for it, and a batch is closed before
\* the next one opens.
THEOREM PutsAreBatched == Spec => ImplementsBatches
<1>1. Init => Batches!Init
  BY DEF Init, Batches!Init
<1>2. Init => BufferInv
  BY DEF Init, BufferInv, WholePackets, Usable, Attaching, Pending
<1> QED BY <1>1, <1>2, InitCounter, NextCounter, NextBuffer, BatchInit, BatchNext, BatchStep, PTL
        DEF Spec, ImplementsBatches, Batches!Spec
=============================================================================
