-------------------------- MODULE PointerAlltoall --------------------------
(***************************************************************************)
(* AsyncAlltoallManager::run_with_ptr: the all-to-all of a top-down level. *)
(* A rank has packets for each target, already copied into buffers, and    *)
(* edge lists that were only pointed to (put_ptr). An edge list goes out   *)
(* behind a header of three words; what does not fit is cut off and sent   *)
(* in further rounds, until no rank has anything left.                     *)
(*                                                                         *)
(* The room for each target is computed in one pass and filled in another; *)
(* nothing but the arithmetic keeps the two in step. Packets count as      *)
(* words, and of an edge list the range of its words is kept. TopDownFold  *)
(* adds what is put before the exchange and how it is read after it.       *)
(*                                                                         *)
(* What the code relies on without checking: the packets for a target      *)
(* leave room for a header and a word of the first list.                   *)
(***************************************************************************)
EXTENDS Integers, Sequences, FiniteSets, SequencesExt, FiniteSetsExt

CONSTANTS
  Rank,        \* the processor column
  MaxSize,     \* max_size, words for one target in one round
  MinSpace     \* MINIMUM_POINTER_SPACE

HeaderSize == 3

ASSUME PointerAlltoallAssumption ==
  /\ IsFiniteSet(Rank)
  /\ MaxSize \in Nat /\ MinSpace \in Nat
  /\ MinSpace > HeaderSize /\ MaxSize > MinSpace

VARIABLES
  lengths,   \* the edge lists put for each target: put_ptr
  pc,        \* "count", "agree", "fill", "exchange" or "done"
  loop,      \* rounds completed
  packets,   \* words in send_data for each target
  left,      \* send_ptr: how much of each edge list is left
  counts,    \* send_counts_
  area,      \* what was written for each target: packet words and pieces
  received   \* pieces received from each rank, oldest first

alltoallVars == <<lengths, pc, loop, packets, left, counts, area, received>>

-----------------------------------------------------------------------------
\* Mutant: room is counted for every list that is left.
CountListAll(acc, len) ==
  IF len = 0 THEN acc
  ELSE [count |-> Min({acc.count + len + HeaderSize, MaxSize}), full |-> FALSE]

\* First pass, one edge list of which len words are left.
CountList(acc, len) ==
  IF acc.full \/ len = 0 THEN acc
  ELSE LET count == acc.count + len + HeaderSize IN
       IF count >= MaxSize
         THEN [count |-> MaxSize, full |-> TRUE]
         ELSE [count |-> count, full |-> count + MinSpace >= MaxSize]

\* The room for one target: its packets, and of each list what is left.
Counted(packetWords, lens) ==
  LET acc[b \in 0 .. Len(lens)] ==
        IF b = 0 THEN [count |-> packetWords, full |-> FALSE]
                 ELSE CountList(acc[b - 1], lens[b])
  IN acc[Len(lens)].count

Count(r) ==
  /\ pc[r] = "count"
  /\ counts' = [counts EXCEPT ![r] = [t \in Rank |-> Counted(packets[r][t], left[r][t])]]
  /\ pc' = [pc EXCEPT ![r] = IF loop[r] > 0 THEN "agree" ELSE "fill"]
  /\ UNCHANGED <<lengths, loop, packets, left, area, received>>

HasData(r) == \E t \in Rank : counts[r][t] > 0

\* Mutant: a rank decides on what it has itself.
AgreeAlone ==
  \E r \in Rank :
    /\ pc[r] = "agree"
    /\ pc' = [pc EXCEPT ![r] = IF HasData(r) THEN "fill" ELSE "done"]
    /\ UNCHANGED <<lengths, loop, packets, left, counts, area, received>>

\* From the second round on, MPI_Allreduce: does any rank have data?
Agree ==
  /\ \A r \in Rank : pc[r] = "agree"
  /\ pc' = [r \in Rank |-> IF \E s \in Rank : HasData(s) THEN "fill" ELSE "done"]
  /\ UNCHANGED <<lengths, loop, packets, left, counts, area, received>>

\* How much of a list with len words left goes into an area of count words.
TakeLength(count, len) ==
  IF count + len + HeaderSize >= MaxSize THEN MaxSize - count - HeaderSize ELSE len

\* buffer.ptr: the next word of a list with len of total words left.
PieceStart(len, total) == total - len

\* Second pass, list number b: its next piece is written, with a header.
FillList(acc, b, len, total) ==
  IF acc.full \/ len = 0 THEN acc
  ELSE LET n     == TakeLength(acc.count, len)
           count == acc.count + Min({len + HeaderSize, MaxSize - acc.count})
       IN  [count  |-> count,
            words  |-> acc.words + HeaderSize + n,
            pieces |-> Append(acc.pieces, [list |-> b, first |-> PieceStart(len, total), length |-> n]),
            left   |-> [acc.left EXCEPT ![b] = len - n],
            full   |-> count + MinSpace >= MaxSize]

Filled(packetWords, lens, total) ==
  LET acc[b \in 0 .. Len(lens)] ==
        IF b = 0 THEN [count |-> packetWords, words |-> packetWords, pieces |-> <<>>,
                       left |-> lens, full |-> FALSE]
                 ELSE FillList(acc[b - 1], b, lens[b], total[b])
  IN acc[Len(lens)]

Fill(r) ==
  LET fill == [t \in Rank |-> Filled(packets[r][t], left[r][t], lengths[r][t])] IN
  /\ pc[r] = "fill"
  /\ area' = [area EXCEPT ![r] = [t \in Rank |->
                [words |-> fill[t].words, pieces |-> fill[t].pieces]]]
  /\ left' = [left EXCEPT ![r] = [t \in Rank |-> fill[t].left]]
  /\ packets' = [packets EXCEPT ![r] = [t \in Rank |-> 0]]
  /\ pc' = [pc EXCEPT ![r] = "exchange"]
  /\ UNCHANGED <<lengths, loop, counts, received>>

\* ScatterContext::alltoallv and the handling of what came in. The pieces are
\* used up before the next round overwrites the buffer (finish).
Exchange ==
  /\ \A r \in Rank : pc[r] = "exchange"
  /\ received' = [r \in Rank |-> [s \in Rank |-> received[r][s] \o area[s][r].pieces]]
  /\ loop' = [r \in Rank |-> loop[r] + 1]
  /\ pc' = [r \in Rank |-> "count"]
  /\ UNCHANGED <<lengths, packets, left, counts, area>>

-----------------------------------------------------------------------------
(* Properties *)

\* The second pass writes exactly the words the first one made room for: a
\* word more would run into the area of the next target, a word less would
\* send what the last round left there. No round needs more than MaxSize
\* words for a target, so a receive buffer for all ranks suffices.
AreasExact ==
  \A r \in Rank : pc[r] = "exchange" =>
    \A t \in Rank : area[r][t].words = counts[r][t] /\ counts[r][t] <= MaxSize

\* No rank leaves the rounds before all do, nor while any has something left.
EndTogether ==
  \A r, s \in Rank : pc[r] = "done" =>
    /\ pc[s] = "done"
    /\ \A t \in Rank : \A b \in DOMAIN left[s][t] : left[s][t][b] = 0
=============================================================================
