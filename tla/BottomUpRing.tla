---------------------------- MODULE BottomUpRing ----------------------------
(***************************************************************************)
(* bottom_up_bmp_parallel_section and MpiBottomUpSubstepComm: the ranks of *)
(* a processor row pass the slices of their visited bitmaps around, two at *)
(* a time, one to the right and one to the left. A rank searches a slice   *)
(* while the two before it are on their way (non-blocking requests).       *)
(*                                                                         *)
(* A rank is one sequential process here (thread 0 does all communication; *)
(* the other threads only share the search). MPI reads a send buffer at    *)
(* any time between the start of the request and its completion, and       *)
(* matches messages between two ranks in the order they were sent.         *)
(***************************************************************************)
EXTENDS Naturals, Sequences, FiniteSets, SequencesExt

CONSTANTS
  Size,        \* comm_size, ranks in the processor row
  Substeps,    \* BU_SUBSTEP, slices of one rank's bitmap
  NumBuffers   \* buffer_count, pieces of work_buf_

ASSUME RingAssumption ==
  /\ Size \in Nat \ {0}
  /\ Substeps \in {2, 4}  \* even, and no more than the entries of recv_pair
  /\ NumBuffers \in Nat /\ NumBuffers >= Substeps + 2

\* The MPI tag of a message has 12 bits for the region_id.
TagRegions == 4096
ASSUME TagAssumption == Size * Substeps <= TagRegions

Rank     == 0 .. Size - 1
Region   == 0 .. Size * Substeps - 1    \* tag.region_id
Buffer   == 0 .. NumBuffers - 1
Slot     == 0 .. 3                      \* NBUF entries of recv_pair
OwnerOf(g) == g \div Substeps
Right(r)   == (r + 1) % Size
Left(r)    == (r + Size - 1) % Size
NoSlice    == [region |-> 0, path |-> <<>>]

VARIABLES
  step,      \* step of the loop over total_steps
  pc,        \* "take", "search", "exchange" or "copy" within a step
  data,      \* the slice in work: its tag and its buffer
  bitmap,    \* bitmap_buffer: the slice each buffer holds and who searched it
  pending,   \* send_pair[0 .. send_filled - 1]
  sending,   \* send_pair[2 .. 3], the pair that is on its way
  recvPair,  \* recv_pair
  recvTop, recvFilled, recvTail,
  free,      \* free_list
  active,    \* is_active
  reqs,      \* req[i] still incomplete: 0, 1 receive, 2, 3 send
  status,    \* status[0 .. 1]: the tags that met the two receives
  net,       \* net[p][q]: sends from p to q that are not matched yet
  newVis,    \* what was copied back into new_visited_
  last       \* history: who searched each slice, in order, when it was last searched

ringVars == <<step, pc, data, bitmap, pending, sending, recvPair, recvTop,
              recvFilled, recvTail, free, active, reqs, status, net, newVis, last>>

\* Mutant: the steps in which the slices come home are forgotten.
TotalStepsShort == Size * Substeps

TotalSteps == (Size + 1) * Substeps

Init ==
  /\ step = [r \in Rank |-> 0]
  /\ pc = [r \in Rank |-> "take"]
  /\ data = [r \in Rank |-> [region |-> 0, buf |-> 0]]
  /\ bitmap = [r \in Rank |-> [b \in Buffer |->
                 IF b < Substeps THEN [region |-> r * Substeps + b, path |-> <<>>]
                                 ELSE NoSlice]]
  /\ pending = [r \in Rank |-> <<>>]
  /\ sending = [r \in Rank |-> <<>>]
  /\ recvPair = [r \in Rank |-> [s \in Slot |-> [region |-> 0, buf |-> 0]]]
  /\ recvTop = [r \in Rank |-> 0]
  /\ recvFilled = [r \in Rank |-> 0]
  /\ recvTail = [r \in Rank |-> 0]
  /\ free = [r \in Rank |-> [i \in 1 .. NumBuffers - Substeps |-> Substeps + i - 1]]
  /\ active = [r \in Rank |-> FALSE]
  /\ reqs = [r \in Rank |-> {}]
  /\ status = [r \in Rank |-> [i \in {0, 1} |-> 0]]
  /\ net = [p \in Rank |-> [q \in Rank |-> <<>>]]
  /\ newVis = [g \in Region |-> NoSlice]
  /\ last = [g \in Region |-> <<>>]

-----------------------------------------------------------------------------
\* Mutant: the tags go where the next exchange will receive.
TagSlotNext(r, i) == (recvTop[r] + i) % 4

\* Where the tag of the i-th receive of the completed exchange goes.
TagSlot(r, i) == (recvFilled[r] + i) % 4

\* Mutant: one buffer of a completed exchange is not freed.
FreedOne(r) == Append(free[r], sending[r][1].buf)

\* The free list once the pair on its way has been sent.
Freed(r) == free[r] \o <<sending[r][1].buf, sending[r][2].buf>>

\* MPI_Waitall and MPI_Testall on the four requests of a pair.
ExchangeDone(r) == active[r] /\ reqs[r] = {}

\* next_recv_probe: blocking before the next exchange and in recv() when no
\* slice is there, by polling (probe) during the search.
Complete(r) ==
  /\ ExchangeDone(r)
  /\ \/ pc[r] \in {"search", "exchange"}
     \/ pc[r] = "take" /\ step[r] >= Substeps /\ recvTail[r] >= recvFilled[r]
  /\ recvPair' = [recvPair EXCEPT ![r][TagSlot(r, 0)].region = status[r][0],
                                  ![r][TagSlot(r, 1)].region = status[r][1]]
  /\ recvFilled' = [recvFilled EXCEPT ![r] = @ + 2]
  /\ free' = [free EXCEPT ![r] = Freed(r)]
  /\ active' = [active EXCEPT ![r] = FALSE]
  /\ UNCHANGED <<step, pc, data, bitmap, pending, sending, recvTop, recvTail,
                 reqs, status, net, newVis, last>>

\* The head of a step: an own slice, or recv(). A slice that came home is
\* only copied.
Take(r) ==
  /\ pc[r] = "take" /\ step[r] < TotalSteps
  /\ IF step[r] < Substeps
       THEN /\ data' = [data EXCEPT ![r] = [region |-> r * Substeps + step[r],
                                            buf |-> step[r]]]
            /\ pc' = [pc EXCEPT ![r] = "search"]
            /\ UNCHANGED recvTail
       ELSE LET d == recvPair[r][recvTail[r] % 4] IN
            /\ recvTail[r] < recvFilled[r]
            /\ recvTail' = [recvTail EXCEPT ![r] = @ + 1]
            /\ data' = [data EXCEPT ![r] = d]
            /\ pc' = [pc EXCEPT ![r] = IF OwnerOf(d.region) = r THEN "copy" ELSE "search"]
  /\ UNCHANGED <<step, bitmap, pending, sending, recvPair, recvTop, recvFilled,
                 free, active, reqs, status, net, newVis, last>>

\* bottom_up_search_bitmap_process_step updates the slice in place; send_first
\* and send pass it on: every second slice starts an exchange.
Search(r) ==
  /\ pc[r] = "search"
  /\ bitmap' = [bitmap EXCEPT ![r][data[r].buf].path = Append(@, r)]
  /\ last' = [last EXCEPT ![data[r].region] = bitmap'[r][data[r].buf].path]
  /\ pending' = [pending EXCEPT ![r] = Append(@, data[r])]
  /\ IF Len(pending[r]) = 1
       THEN pc' = [pc EXCEPT ![r] = "exchange"] /\ UNCHANGED step
       ELSE /\ pc' = [pc EXCEPT ![r] = "take"]
            /\ step' = [step EXCEPT ![r] = @ + 1]
  /\ UNCHANGED <<data, sending, recvPair, recvTop, recvFilled, recvTail, free,
                 active, reqs, status, net, newVis>>

\* make_tag, and what the receiver reads out of status.MPI_TAG again.
Envelope(d, req) == [region |-> d.region % TagRegions, buf |-> d.buf,
                     req |-> req, copied |-> FALSE, slice |-> NoSlice]

\* net after rank r has sent one slice to the right and one to the left.
Posted(r, pair) ==
  LET toRight == [net EXCEPT ![r][Right(r)] = Append(@, Envelope(pair[1], 2))]
  IN  [toRight EXCEPT ![r][Left(r)] = Append(@, Envelope(pair[2], 3))]

\* The rest of send_recv: two buffers are taken from the end of the free list
\* and the four requests start.
StartExchange(r) ==
  LET n == Len(free[r]) IN
  /\ pc[r] = "exchange"
  /\ ~ active[r]
  /\ n >= 2
  /\ recvPair' = [recvPair EXCEPT ![r][recvTop[r] % 4].buf = free[r][n],
                                  ![r][(recvTop[r] + 1) % 4].buf = free[r][n - 1]]
  /\ recvTop' = [recvTop EXCEPT ![r] = @ + 2]
  /\ free' = [free EXCEPT ![r] = SubSeq(@, 1, n - 2)]
  /\ reqs' = [reqs EXCEPT ![r] = 0 .. 3]
  /\ net' = Posted(r, pending[r])
  /\ sending' = [sending EXCEPT ![r] = pending[r]]
  /\ pending' = [pending EXCEPT ![r] = <<>>]
  /\ active' = [active EXCEPT ![r] = TRUE]
  /\ pc' = [pc EXCEPT ![r] = "take"]
  /\ step' = [step EXCEPT ![r] = @ + 1]
  /\ UNCHANGED <<data, bitmap, recvFilled, recvTail, status, newVis, last>>

\* The slice came home: it is copied into new_visited_.
CopyHome(r) ==
  /\ pc[r] = "copy"
  /\ newVis' = [newVis EXCEPT ![data[r].region] = bitmap[r][data[r].buf]]
  /\ pc' = [pc EXCEPT ![r] = "take"]
  /\ step' = [step EXCEPT ![r] = @ + 1]
  /\ UNCHANGED <<data, bitmap, pending, sending, recvPair, recvTop, recvFilled,
                 recvTail, free, active, reqs, status, net, last>>

-----------------------------------------------------------------------------
\* MPI may copy a message out of its buffer early: the send is complete then.
Buffered(p, q, i) ==
  LET e == net[p][q][i] IN
  /\ ~ e.copied
  /\ net' = [net EXCEPT ![p][q][i] = [e EXCEPT !.copied = TRUE,
                                               !.slice = bitmap[p][e.buf]]]
  /\ reqs' = [reqs EXCEPT ![p] = @ \ {e.req}]
  /\ UNCHANGED <<step, pc, data, bitmap, pending, sending, recvPair, recvTop,
                 recvFilled, recvTail, free, active, status, newVis, last>>

\* The receives of rank q that are open for a message from p: req[0] is posted
\* to the left neighbour, then req[1] to the right one.
OpenReceives(q, p) == {i \in reqs[q] \cap {0, 1} : p = IF i = 0 THEN Left(q) ELSE Right(q)}

\* The oldest message from p meets the oldest receive for it.
Deliver(p, q, i) ==
  LET e    == Head(net[p][q])
      slot == (recvTop[q] - 2 + i) % 4
  IN
  /\ net[p][q] # <<>>
  /\ \A k \in OpenReceives(q, p) : i <= k
  /\ net' = [net EXCEPT ![p][q] = Tail(@)]
  /\ bitmap' = [bitmap EXCEPT ![q][recvPair[q][slot].buf] =
                  IF e.copied THEN e.slice ELSE bitmap[p][e.buf]]
  /\ status' = [status EXCEPT ![q][i] = e.region]
  /\ reqs' = [r \in Rank |-> reqs[r] \ ((IF r = q THEN {i} ELSE {}) \cup
                               (IF r = p /\ ~ e.copied THEN {e.req} ELSE {}))]
  /\ UNCHANGED <<step, pc, data, pending, sending, recvPair, recvTop, recvFilled,
                 recvTail, free, active, newVis, last>>

RankStep(r) == Complete(r) \/ Take(r) \/ Search(r) \/ StartExchange(r)
               \/ CopyHome(r)

Next ==
  \/ \E r \in Rank : RankStep(r)
  \/ \E p, q \in Rank : \E i \in DOMAIN net[p][q] : Buffered(p, q, i)
  \/ \E p, q \in Rank : \E i \in OpenReceives(q, p) : Deliver(p, q, i)
  \/ (\A r \in Rank : step[r] = TotalSteps) /\ UNCHANGED ringVars

Spec == Init /\ [][Next]_ringVars
-----------------------------------------------------------------------------
(* Properties *)

\* Type invariant of a processor row.
SliceTag  == [region : Region, buf : Buffer]
SliceData == [region : Region, path : Seq(Rank)]
TypeOK ==
  /\ step \in [Rank -> 0 .. TotalSteps]
  /\ pc \in [Rank -> {"take", "search", "exchange", "copy"}]
  /\ data \in [Rank -> SliceTag]
  /\ bitmap \in [Rank -> [Buffer -> SliceData]]
  /\ \A r \in Rank : pending[r] \in Seq(SliceTag) /\ Len(pending[r]) <= 2
  /\ \A r \in Rank : sending[r] \in Seq(SliceTag)
  /\ recvPair \in [Rank -> [Slot -> SliceTag]]
  /\ \A r \in Rank : free[r] \in Seq(Buffer) /\ IsInjective(free[r])
  /\ active \in [Rank -> BOOLEAN]
  /\ reqs \in [Rank -> SUBSET (0 .. 3)]
  /\ newVis \in [Region -> SliceData]

\* Neither of the two ways the ring can fail happens: a receive with nothing
\* on its way ("recv_tail >= recv_filled"), or an exchange without buffers
\* (the assertion of get_buffer).
NeverFails ==
  \A r \in Rank :
    /\ pc[r] = "take" /\ Substeps <= step[r] /\ step[r] < TotalSteps =>
         recvTail[r] < recvFilled[r] \/ active[r]
    /\ pc[r] = "exchange" /\ ~ active[r] => Len(free[r]) >= 2

\* The ring implements the visits that the search relies on: the bitmap that a
\* rank searches for a slice is the one the rank before it left, so tags stay
\* with their slices, and what comes home is the slice as it was searched last.
Home(g) == newVis[g].path # <<>> /\ newVis[g] = [region |-> g, path |-> last[g]]
Visits == INSTANCE SliceVisits WITH
            Ranks <- Rank, Slice <- Region, Owner <- OwnerOf,
            path <- last,
            home <- {g \in Region : Home(g)}
ImplementsVisits == Visits!Spec

\* A rank that has gone through its steps has all its slices back, and nothing
\* of this level is under way to it or from it: the next level begins with the
\* same tags and buffers. That the ranks get there is the absence of deadlocks,
\* since every step brings some slice further.
AllHome ==
  \A r \in Rank : step[r] = TotalSteps =>
    /\ \A g \in Region : OwnerOf(g) = r => Home(g)
    /\ ~ active[r] /\ pending[r] = <<>>
    /\ recvTail[r] = recvFilled[r] /\ recvFilled[r] = recvTop[r]
    /\ \A p \in Rank : net[p][r] = <<>>
=============================================================================
