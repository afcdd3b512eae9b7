------------------------------ MODULE AsyncPut ------------------------------
(***************************************************************************)
(* AsyncAlltoallManager::put for one target: threads append packets to a   *)
(* shared buffer without a lock. A thread reserves its range by fetch-and- *)
(* add on reserved_size_; the one whose range crosses the end of the       *)
(* buffer waits until the ranges before it are filled and swaps the        *)
(* buffer; the others wait and try again.                                  *)
(*                                                                         *)
(* Every atomic access of the shared counters is a step of its own.        *)
(***************************************************************************)
EXTENDS Naturals, Sequences, FiniteSets

CONSTANTS
  Thread,
  Lengths,     \* Lengths[t] is the sequence of packet lengths t puts
  BufferSize   \* buffer_size_

ASSUME AsyncPutAssumption ==
  /\ IsFiniteSet(Thread)
  /\ BufferSize \in Nat
  /\ Lengths \in [Thread -> Seq(1 .. BufferSize)]

\* The k-th put of thread t.
Put == UNION {{t} \X DOMAIN Lengths[t] : t \in Thread}
Length(p) == Lengths[p[1]][p[2]]

VARIABLES
  pc,        \* where thread t is in put()
  done,      \* puts thread t has completed
  offset,    \* local variable of put()
  reserved,  \* reserved_size_
  filled,    \* filled_size_
  attached,  \* cur_buf.ptr is not NULL
  cur,       \* words in the current buffer: word i of put p at position pos
  sent,      \* send_data: buffers handed over, with their length
  merged     \* run() has collected the buffers

vars == <<pc, done, offset, reserved, filled, attached, cur, sent, merged>>

Here(t) == <<t, done[t] + 1>>     \* the put that thread t is working on
Len1(t) == Length(Here(t))

\* prepare(): a full buffer that is not there makes the first put fetch one.
Init ==
  /\ pc = [t \in Thread |-> "put"]
  /\ done = [t \in Thread |-> 0]
  /\ offset = [t \in Thread |-> 0]
  /\ reserved = BufferSize
  /\ filled = BufferSize
  /\ attached = FALSE
  /\ cur = {}
  /\ sent = <<>>
  /\ merged = FALSE

Goto(t, label) == pc' = [pc EXCEPT ![t] = label]

\* Mutant: a thread behind the end does not wait for the one that crosses it
\* but swaps the buffer as well.
AfterReserveNoSpin(o, length) == IF o + length > BufferSize THEN "await" ELSE "add"

\* Behind the end: wait. Across the end: swap the buffer. Else: fill.
AfterReserve(o, length) ==
  CASE o > BufferSize -> "spin"
    [] o <= BufferSize /\ o + length > BufferSize -> "await"
    [] o + length <= BufferSize -> "add"

Reserve(t) ==
  /\ pc[t] = "put"
  /\ done[t] < Len(Lengths[t])
  /\ offset' = [offset EXCEPT ![t] = reserved]
  /\ reserved' = reserved + Len1(t)
  /\ Goto(t, AfterReserve(reserved, Len1(t)))
  /\ UNCHANGED <<done, filled, attached, cur, sent, merged>>

\* Mutants: wait for room below the end; do not wait before the next try.
SpinBelow(t) ==
  /\ pc[t] = "spin"
  /\ reserved < BufferSize
  /\ Goto(t, "put")
  /\ UNCHANGED <<done, offset, reserved, filled, attached, cur, sent, merged>>
SpinNot(t) ==
  /\ pc[t] = "spin"
  /\ Goto(t, "put")
  /\ UNCHANGED <<done, offset, reserved, filled, attached, cur, sent, merged>>

\* while(node.reserved_size_ > buffer_size_) ; continue
Spin(t) ==
  /\ pc[t] = "spin"
  /\ reserved <= BufferSize
  /\ Goto(t, "put")
  /\ UNCHANGED <<done, offset, reserved, filled, attached, cur, sent, merged>>

\* flush(): the buffer is handed over with what is filled.
Flush ==
  /\ sent' = IF attached THEN Append(sent, [words |-> cur, length |-> filled])
                         ELSE sent
  /\ attached' = FALSE
  /\ cur' = {}

\* while(offset != node.filled_size_) ; flush(node)
AwaitFilled(t) ==
  /\ pc[t] = "await"
  /\ offset[t] = filled
  /\ Flush
  /\ Goto(t, "fetch")
  /\ UNCHANGED <<done, offset, reserved, filled, merged>>

\* get_send_buffer(), under its mutex.
Fetch(t) ==
  /\ pc[t] = "fetch"
  /\ attached' = TRUE
  /\ cur' = {}
  /\ Goto(t, "reset")
  /\ UNCHANGED <<done, offset, reserved, filled, sent, merged>>

\* offset = filled_size_ = 0
ResetFilled(t) ==
  /\ pc[t] = "reset"
  /\ offset' = [offset EXCEPT ![t] = 0]
  /\ filled' = 0
  /\ Goto(t, "reopen")
  /\ UNCHANGED <<done, reserved, attached, cur, sent, merged>>

\* Mutant: the buffer is opened again before the swapping thread has its range.
ReopenEmpty(t) ==
  /\ pc[t] = "reopen"
  /\ reserved' = 0
  /\ Goto(t, "add")
  /\ UNCHANGED <<done, offset, filled, attached, cur, sent, merged>>

\* reserved_size_ = length, after the barrier: lets the other threads in.
Reopen(t) ==
  /\ pc[t] = "reopen"
  /\ reserved' = Len1(t)
  /\ Goto(t, "add")
  /\ UNCHANGED <<done, offset, filled, attached, cur, sent, merged>>

Add(t) ==
  /\ pc[t] = "add"
  /\ cur' = cur \cup {[pos |-> offset[t] + i, put |-> Here(t), word |-> i] :
                        i \in 0 .. Len1(t) - 1}
  /\ Goto(t, "commit")
  /\ UNCHANGED <<done, offset, reserved, filled, attached, sent, merged>>

Commit(t) ==
  /\ pc[t] = "commit"
  /\ filled' = filled + Len1(t)
  /\ done' = [done EXCEPT ![t] = @ + 1]
  /\ Goto(t, "put")
  /\ UNCHANGED <<offset, reserved, attached, cur, sent, merged>>

\* run() and run_with_ptr() start by flushing every target, after the
\* parallel section that calls put() has ended.
Merge ==
  /\ ~ merged
  /\ \A t \in Thread : pc[t] = "put" /\ done[t] = Len(Lengths[t])
  /\ Flush
  /\ merged' = TRUE
  /\ UNCHANGED <<pc, done, offset, reserved, filled>>

\* Mutant: the buffer is opened before filled_size_ is reset.
StepOpenFirst(t) ==
  \/ Reserve(t) \/ Spin(t)
  \/ AwaitFilled(t) \/ Fetch(t)
  \/ /\ pc[t] = "reset"
     /\ offset' = [offset EXCEPT ![t] = 0]
     /\ reserved' = Len1(t)
     /\ Goto(t, "reopen")
     /\ UNCHANGED <<done, filled, attached, cur, sent, merged>>
  \/ /\ pc[t] = "reopen"
     /\ filled' = 0
     /\ Goto(t, "add")
     /\ UNCHANGED <<done, offset, reserved, attached, cur, sent, merged>>
  \/ Add(t) \/ Commit(t)

\* One step of thread t in put().
Step(t) ==
  \/ Reserve(t) \/ Spin(t)
  \/ AwaitFilled(t) \/ Fetch(t) \/ ResetFilled(t) \/ Reopen(t)
  \/ Add(t) \/ Commit(t)

Next == Merge \/ \E t \in Thread : Step(t)

Spec == Init /\ [][Next]_vars

\* Every thread runs on a processor of its own.
FairSpec == Spec /\ WF_vars(Merge) /\ \A t \in Thread : WF_vars(Step(t))
-----------------------------------------------------------------------------
(* Properties *)

Swapping(t) == pc[t] \in {"await", "fetch", "reset", "reopen"}

\* Type invariant of a target and the threads that put to it. The counter that
\* every waiting thread has increased stays in the range of an int: each
\* thread adds one packet to it per buffer, however long it waits.
TypeOK ==
  /\ pc \in [Thread -> {"put", "spin", "await", "fetch", "reset", "reopen",
                        "add", "commit"}]
  /\ done \in [Thread -> Nat]
  /\ \A t \in Thread : done[t] <= Len(Lengths[t])
  /\ offset \in [Thread -> Nat]
  /\ reserved \in 0 .. BufferSize + Cardinality(Thread) * BufferSize
  /\ filled \in Nat
  /\ attached \in BOOLEAN /\ merged \in BOOLEAN
  /\ \A t \in Thread : pc[t] # "put" => done[t] < Len(Lengths[t])

\* At most one thread swaps the buffer, and while reserved_size_ says that
\* the buffer is full somebody does: so nobody waits for nothing, and no two
\* threads flush the same buffer.
OneSwapper ==
  /\ \A s, t \in Thread : Swapping(s) /\ Swapping(t) => s = t
  /\ reserved > BufferSize <=> \E t \in Thread : Swapping(t)

\* A buffer that is handed over has one word at every position, nothing
\* behind its length or behind the end of the buffer (the assertion of add()),
\* and each packet in it is whole and contiguous.
BuffersWhole ==
  \A b \in DOMAIN sent :
    LET buf == sent[b] IN
    /\ buf.length <= BufferSize
    /\ \A pos \in 0 .. buf.length - 1 :
         Cardinality({w \in buf.words : w.pos = pos}) = 1
    /\ \A w \in buf.words :
         /\ w.pos < buf.length
         /\ \A i \in 0 .. Length(w.put) - 1 :
              [pos |-> w.pos - w.word + i, put |-> w.put, word |-> i] \in buf.words

\* The lock-free buffer implements batches of whole puts. A put is accepted
\* when its thread commits it.
Committed(p) == p[2] <= done[p[1]]
Batches == INSTANCE PutBatches WITH
             open   <- {p \in {w.put : w \in cur} : Committed(p)},
             sealed <- [b \in DOMAIN sent |-> {w.put : w \in sent[b].words}]
ImplementsBatches == Batches!Spec

\* Every put returns, and everything put is handed over in the end.
AllSent == <>(merged /\ \A p \in Put : \E b \in DOMAIN sent :
                                        \E w \in sent[b].words : w.put = p)
=============================================================================
