---------------------------- MODULE TopDownFold ----------------------------
(***************************************************************************)
(* The fold of a top-down level, from the rows of the frontier to the      *)
(* vertices that hear of them: the threads of a rank write the edges of    *)
(* short rows as words into packets, one per thread and target, which go   *)
(* to the send buffers when they are full; long rows are split by target   *)
(* and only pointed to; run_with_ptr (PointerAlltoall) exchanges both, and *)
(* the receivers read the stream of words, now or, for a long list, after  *)
(* all streams have been looked through.                                   *)
(*                                                                         *)
(* A source is two words (its high bits carry the flags), a target one. A  *)
(* put of a packet is one step, which AsyncPut refines. Whether a target   *)
(* becomes visited is left to HybridBFS: here it only hears of a source.   *)
(***************************************************************************)
EXTENDS PointerAlltoall

CONSTANTS
  Thread,        \* OpenMP threads of a rank
  PacketLength,  \* LocalPacket::TOP_DOWN_LENGTH
  LongRow,       \* TOP_DOWN_PENDING_WIDTH / 10
  Pending,       \* TOP_DOWN_PENDING_WIDTH
  NumSplits,     \* num_splits of top_down_row_receive
  Frontiers      \* rows of every rank: [src, tgts], tgts in the stored order

NumRanks   == Cardinality(Rank)
NumThreads == Cardinality(Thread)

ASSUME TopDownFoldAssumption ==
  /\ Rank = 0 .. NumRanks - 1 /\ Rank # {}
  /\ NumThreads \in Nat /\ Thread = 1 .. NumThreads
  /\ PacketLength \in Nat /\ PacketLength >= 3
  /\ LongRow \in Nat /\ Pending \in Nat /\ NumSplits \in Nat \ {0}
  /\ Frontiers \subseteq [Rank -> Seq([src : Nat, tgts : Seq([dest : Rank, local : Nat]) \ {<<>>}])]
  /\ \A f \in Frontiers : \A r \in Rank : \A i \in DOMAIN f[r] :
       \A j \in 2 .. Len(f[r][i].tgts) : f[r][i].tgts[j - 1].dest <= f[r][i].tgts[j].dest

VARIABLES
  frontier,  \* the rows of every rank in this level
  todo,      \* per rank: rows that no thread has taken yet
  packet,    \* per rank, thread and target: fold_packet
  stream,    \* per rank and target: the words in the send buffers
  lists,     \* per rank and target: what put_ptr was given: source, targets
  heard      \* per rank: how often a local vertex heard of a source

foldVars == <<frontier, todo, packet, stream, lists, heard>>
allVars  == <<alltoallVars, foldVars>>

Empty == [src |-> -1, words |-> <<>>]
Sources == UNION {{frontier[r][i].src : i \in DOMAIN frontier[r]} : r \in Rank}
Locals  == UNION {UNION {{frontier[r][i].tgts[j].local : j \in DOMAIN frontier[r][i].tgts} :
                           i \in DOMAIN frontier[r]} : r \in Rank}

\* prepare, and the packets as the last level left them
FoldInit ==
  /\ frontier \in Frontiers
  /\ todo = [r \in Rank |-> DOMAIN frontier[r]]
  /\ packet = [r \in Rank |-> [h \in Thread |-> [t \in Rank |-> Empty]]]
  /\ stream = [r \in Rank |-> [t \in Rank |-> <<>>]]
  /\ lists = [r \in Rank |-> [t \in Rank |-> <<>>]]
  /\ heard = [r \in Rank |-> [e \in Sources \X Locals |-> 0]]
  /\ pc = [r \in Rank |-> "send"]
  /\ loop = [r \in Rank |-> 0]
  /\ packets = [r \in Rank |-> [t \in Rank |-> 0]]
  /\ lengths = [r \in Rank |-> [t \in Rank |-> <<>>]] /\ left = lengths
  /\ counts = [r \in Rank |-> [t \in Rank |-> 0]]
  /\ area = [r \in Rank |-> [t \in Rank |-> [words |-> 0, pieces |-> <<>>]]]
  /\ received = [r \in Rank |-> [s \in Rank |-> <<>>]]
-----------------------------------------------------------------------------
Word(kind, val) == [kind |-> kind, val |-> val]
SourceWords(s)  == <<Word("high", s), Word("low", s)>>

\* Mutant: the source of a packet that was sent is still taken for written.
SentKeepsSource(pk) == [pk EXCEPT !.words = <<>>]
Sent(pk) == Empty

\* top_down_send of one edge: acc holds the packets of the thread and the
\* streams of the rank
SendEdge(acc, src, tgt) ==
  LET d    == tgt.dest
      full == Len(acc.pk[d].words) > PacketLength - 3
      pk   == IF full THEN Sent(acc.pk[d]) ELSE acc.pk[d]
  IN [stream |-> IF full THEN [acc.stream EXCEPT ![d] = @ \o acc.pk[d].words] ELSE acc.stream,
      pk |-> [acc.pk EXCEPT ![d] =
                [src |-> src,
                 words |-> pk.words \o (IF pk.src # src THEN SourceWords(src) ELSE <<>>)
                                    \o <<Word("tgt", tgt.local)>>]]]

\* The edges of a row that go out as words: the first n
SendWords(acc, row, n) ==
  LET at[j \in 0 .. n] == IF j = 0 THEN acc ELSE SendEdge(at[j - 1], row.src, row.tgts[j])
  IN at[n]

\* top_down_send_large, the bisection of seq (positions from 0): one round
Halve(seq, d, s) ==
  LET beyond == seq[s.next + 1].dest > d
      lo     == IF beyond THEN s.lo ELSE s.next
      hi     == IF beyond THEN s.next ELSE s.hi
  IN [lo |-> lo, hi |-> hi, next |-> (lo + hi) \div 2]
\* Where the edges from position start on end that go to ranks 0 .. d (one
\* past). Each round after the first shortens the interval: n are enough.
EndOfTarget(seq, start, d) ==
  LET n == Len(seq)
      first == [lo |-> start, hi |-> n,
                next |-> Min({start + ((n - start) \div (NumRanks - d)) * 2, n - 1})]
      Again(s) == IF s.lo < s.next THEN Halve(seq, d, s) ELSE s
      at[k \in 0 .. n] == IF k = 0 THEN Halve(seq, d, first) ELSE Again(at[k - 1])
  IN at[n].hi

\* the pieces of a long row, one put_ptr for each target that occurs
PutPointers(acc, d, row) ==
  IF acc.start >= Len(row.tgts) \/ row.tgts[acc.start + 1].dest > d THEN acc
  ELSE LET end == EndOfTarget(row.tgts, acc.start, d)
       IN [start |-> end,
           lists |-> [acc.lists EXCEPT ![d] =
                       Append(@, [src |-> row.src, tgts |-> SubSeq(row.tgts, acc.start + 1, end)])]]

\* The lists of a rank after top_down_send_large, target by target
PutRow(old, row) ==
  LET acc[d \in 0 .. NumRanks] ==
        IF d = 0 THEN [start |-> 0, lists |-> old] ELSE PutPointers(acc[d - 1], d - 1, row)
  IN acc[NumRanks].lists

\* A thread sends one row: the isolated first edge, then the others, which
\* are sent as a list if they are many.
SendRow(r, h) == \E i \in todo[r] :
  LET row   == frontier[r][i]
      long  == Len(row.tgts) - 1 > LongRow
      all   == SendWords([pk |-> packet[r][h], stream |-> stream[r]], row,
                         IF long THEN 1 ELSE Len(row.tgts))
  IN
  /\ pc[r] = "send"
  /\ todo' = [todo EXCEPT ![r] = @ \ {i}]
  /\ packet' = [packet EXCEPT ![r][h] = all.pk]
  /\ stream' = [stream EXCEPT ![r] = all.stream]
  /\ lists' = IF long
               THEN [lists EXCEPT ![r] = PutRow(@, [src |-> row.src, tgts |-> Tail(row.tgts)])]
               ELSE lists
  /\ UNCHANGED <<alltoallVars, frontier, heard>>

\* "flush buffer": what the threads have left for a target, thread by thread
Flushed(words, pks, t) ==
  LET acc[h \in 0 .. NumThreads] == IF h = 0 THEN words ELSE acc[h - 1] \o pks[h][t].words
  IN acc[NumThreads]

\* After the rows; then run_with_ptr starts.
FlushPackets(r) ==
  /\ pc[r] = "send" /\ todo[r] = {}
  /\ stream' = [stream EXCEPT ![r] = [t \in Rank |-> Flushed(@[t], packet[r], t)]]
  /\ packet' = [packet EXCEPT ![r] = [h \in Thread |-> [t \in Rank |-> Sent(packet[r][h][t])]]]
  /\ packets' = [packets EXCEPT ![r] = [t \in Rank |-> Len(stream'[r][t])]]
  /\ lengths' = [lengths EXCEPT ![r] = [t \in Rank |->
                   [b \in DOMAIN lists[r][t] |-> Len(lists[r][t][b].tgts)]]]
  /\ left' = [left EXCEPT ![r] = lengths'[r]]
  /\ pc' = [pc EXCEPT ![r] = "count"]
  /\ UNCHANGED <<loop, counts, area, received, frontier, todo, lists, heard>>
-----------------------------------------------------------------------------
\* The words in the area of rank s for rank t in this round
ListWords(s, t, p) ==
  LET list == lists[s][t][p.list] IN
  <<Word("list", list.src), Word("low", list.src), Word("len", p.length)>>
    \o [j \in 1 .. p.length |-> Word("tgt", list.tgts[p.first + j].local)]
WordsFor(s, t) ==
  (IF loop[s] = 0 THEN stream[s][t] ELSE <<>>)
    \o FlattenSeq([k \in DOMAIN area[s][t].pieces |-> ListWords(s, t, area[s][t].pieces[k])])

\* top_down_receive: what a word means follows from its place, which the
\* flagged words before it determine; a complete list is heard now (edges) or
\* put aside if it is long (rows).
ListRead(acc) ==
  IF Len(acc.list) < acc.len THEN acc
  ELSE IF acc.len < Pending
  THEN [acc EXCEPT !.place = "first", !.list = <<>>,
                   !.edges = @ \o [j \in 1 .. acc.len |-> <<acc.src, acc.list[j]>>]]
  ELSE [acc EXCEPT !.place = "first", !.list = <<>>,
                   !.rows = Append(@, [src |-> acc.src, tgts |-> acc.list])]
ReadWord(acc, w) ==
  CASE acc.place = "first" /\ w.kind = "high" -> [acc EXCEPT !.src = w.val, !.place = "low"]
    [] acc.place = "first" /\ w.kind = "list" -> [acc EXCEPT !.src = w.val, !.place = "list low"]
    [] acc.place = "first" /\ w.kind \notin {"high", "list"} ->
         [acc EXCEPT !.edges = Append(@, <<acc.src, w.val>>)]
    [] acc.place = "low"      -> [acc EXCEPT !.place = "first"]
    [] acc.place = "list low" -> [acc EXCEPT !.place = "len"]
    [] acc.place = "len"      -> ListRead([acc EXCEPT !.len = w.val, !.place = "list"])
    [] acc.place = "list"     -> ListRead([acc EXCEPT !.list = Append(@, w.val)])
ReadAll(acc, words) ==
  LET at[k \in 0 .. Len(words)] == IF k = 0 THEN acc ELSE ReadWord(at[k - 1], words[k])
  IN at[Len(words)]
Parse(words) == ReadAll([place |-> "first", src |-> -1, len |-> 0, list |-> <<>>,
                         edges |-> <<>>, rows |-> <<>>], words)

ShareWidth(len) == (len + NumSplits - 1) \div NumSplits
\* top_down_row_receive (finish): the shares of the lists put aside
ReceiveRow(row) ==
  LET len == Len(row.tgts)
      w   == ShareWidth(len)
      Share(k) == LET b == Min({len, w * k})
                  IN SubSeq(row.tgts, b + 1, Min({len, b + w}))
      all == FlattenSeq([k \in 1 .. NumSplits |-> Share(k - 1)])
  IN [j \in DOMAIN all |-> <<row.src, all[j]>>]

\* The exchange with the reading of the streams, which ends before the next.
ExchangeAndReceive ==
  LET Edges(s, t) == LET p == Parse(WordsFor(s, t))
                     IN p.edges \o FlattenSeq([k \in DOMAIN p.rows |-> ReceiveRow(p.rows[k])])
      Heard(t) == FlattenSeq([s \in 1 .. NumRanks |-> Edges(s - 1, t)])
  IN
  /\ Exchange
  /\ heard' = [t \in Rank |-> LET all == Heard(t) IN
                 [e \in DOMAIN heard[t] |->
                    heard[t][e] + Cardinality({j \in DOMAIN all : all[j] = e})]]
  /\ UNCHANGED <<frontier, todo, packet, stream, lists>>

FoldNext ==
  \/ \E r \in Rank : (\E h \in Thread : SendRow(r, h)) \/ FlushPackets(r)
  \/ /\ Agree \/ \E r \in Rank : Count(r) \/ Fill(r)
     /\ UNCHANGED foldVars
  \/ ExchangeAndReceive
  \/ (\A r \in Rank : pc[r] = "done") /\ UNCHANGED allVars

FoldSpec == FoldInit /\ [][FoldNext]_allVars
-----------------------------------------------------------------------------
\* The edges of all rows that join source e[1] to local vertex e[2] of rank t.
EdgesTo(t, e) ==
  UNION {UNION {{<<r, i, j>> : j \in {q \in DOMAIN frontier[r][i].tgts :
                                        /\ frontier[r][i].src = e[1]
                                        /\ frontier[r][i].tgts[q] = [dest |-> t, local |-> e[2]]}} :
                  i \in DOMAIN frontier[r]} : r \in Rank}

\* When the fold ends, every vertex has heard of every source that a row joins
\* it to, from each row once, and of nothing else, whichever thread sent the
\* row, however full the packets were and wherever lists were cut.
EdgesDelivered ==
  (\A r \in Rank : pc[r] = "done") =>
    \A t \in Rank : \A e \in DOMAIN heard[t] : heard[t][e] = Cardinality(EdgesTo(t, e))
=============================================================================
