---------------------------- MODULE EdgeStorage ----------------------------
(***************************************************************************)
(* EdgeListStorage: the edge list of each rank, in memory or in a file,    *)
(* read in chunks. Every pass over it makes the same number of iterations  *)
(* on all ranks. redistribute_edge_2d writes the list while it reads it:   *)
(* edges that a rank receives replace those it has read, and what does not *)
(* fit below the read position waits in a buffer. A file is read ahead by  *)
(* one chunk, into one half of a double buffer.                            *)
(*                                                                         *)
(* Edges are numbered as they are generated; owner[e] stands for           *)
(* edge_owner(v0, v1), the rank the edge must end at. In file mode the     *)
(* list is kept in both places until a pass releases the memory; the two   *)
(* are the same sequence, so data stands for either.                       *)
(***************************************************************************)
EXTENDS Integers, Sequences, FiniteSets, SequencesExt

CONSTANTS
  NumRanks,   \* mpi.size_2d
  Chunk,      \* CHUNK_SIZE
  Totals      \* numbers of global edges to generate

ASSUME EdgeStorageAssumption ==
  /\ NumRanks \in Nat \ {0} /\ Chunk \in Nat \ {0}
  /\ Totals \subseteq Nat \ {0}

Rank == 0 .. NumRanks - 1

\* The passes of graph500_bfs: scatterAndScanEdges, scatterAndStore, then
\* redistribute_edge_2d, then a validation per root, of which two are kept.
Passes == <<"scan", "store", "redistribute", "validate", "validate">>
Releases(p) == Passes[p] \in {"store", "redistribute"}
Rewrites(p) == Passes[p] = "redistribute"
Checks(p)   == Passes[p] = "validate"

VARIABLES
  owner,     \* the rank of each edge, fixed by the graph
  inFile,    \* data_in_file_
  memory,    \* per rank: edge_memory_ is not NULL
  data,      \* per rank: the stored edges
  filled,    \* per rank: edge_filled_size_
  block,     \* per rank: read_block_index_
  request,   \* per rank: read_request_ and the read it stands for
  buffer,    \* per rank: the two halves of read_buffer_
  offset,    \* per rank: write_offset_
  over,      \* per rank: what write_buffer_ holds
  maxSize,   \* max_edge_size_among_all_procs_
  pass, loop, pc,  \* per rank: where it is
  recv,      \* per rank: edges received in the current iteration
  seen       \* per rank: edges that the current pass was given (history)

readVars  == <<block, request, buffer>>
writeVars == <<data, offset, over>>
progVars  == <<pass, loop, pc, recv, seen>>
vars == <<owner, inFile, memory, data, filled, maxSize,
          readVars, offset, over, progVars>>

Edge == DOMAIN owner
Least(a, b) == IF a < b THEN a ELSE b
LargestOf(S) == CHOOSE x \in S : \A y \in S : y <= x
NumLoops == (maxSize + Chunk - 1) \div Chunk
\* generate_graph deals whole chunks to the ranks in turn: the number of the
\* edge that rank r stores as its i-th, and all of n edges that it stores.
Dealt(r, i) == (((i - 1) \div Chunk) * NumRanks + r) * Chunk + ((i - 1) % Chunk) + 1
Generated(n, r) == [i \in {i \in 1 .. n : Dealt(r, i) <= n} |-> Dealt(r, i)]
-----------------------------------------------------------------------------
Unset == [state |-> "unset", from |-> 0, len |-> 0, half |-> 0]
Null  == [state |-> "null", from |-> 0, len |-> 0, half |-> 0]

Init ==
  /\ \E n \in Totals :
       /\ owner \in [1 .. n -> Rank]
       /\ data = [r \in Rank |-> Generated(n, r)]
  /\ inFile \in BOOLEAN
  /\ memory = [r \in Rank |-> TRUE]
  /\ filled = [r \in Rank |-> Len(data[r])]
  /\ maxSize = LargestOf({Len(data[r]) : r \in Rank})
  /\ block = [r \in Rank |-> 0]
  /\ request = [r \in Rank |-> Unset]
  /\ buffer = [r \in Rank |-> <<<<>>, <<>>>>]
  /\ offset = [r \in Rank |-> Len(data[r])]
  /\ over = [r \in Rank |-> <<>>]
  /\ pass = [r \in Rank |-> 1]
  /\ loop = [r \in Rank |-> 0]
  /\ pc = [r \in Rank |-> "begin"]
  /\ recv = [r \in Rank |-> <<>>]
  /\ seen = [r \in Rank |-> <<>>]

\* getReadBuffer: the half to read chunk k into; the user has the other one.
Half(k) == 1 + (k % 2)
\* MPI_File_iread_at for chunk k, if rank r has such a chunk
IRead(r, k) ==
  [state |-> "pending", from |-> k * Chunk,
   len |-> Least(filled[r] - k * Chunk, Chunk), half |-> Half(k)]

BeginRead(r) ==
  /\ pc[r] = "begin" /\ pass[r] <= Len(Passes)
  /\ memory' = [memory EXCEPT ![r] = @ /\ ~ (inFile /\ Releases(pass[r]))]
  /\ block' = [block EXCEPT ![r] = 0]
  /\ request' = IF ~ memory'[r] /\ filled[r] > 0
                THEN [request EXCEPT ![r] = IRead(r, 0)] ELSE request
  /\ IF Rewrites(pass[r])
     THEN offset' = [offset EXCEPT ![r] = 0] /\ over' = [over EXCEPT ![r] = <<>>]
     ELSE UNCHANGED <<offset, over>>
  /\ loop' = [loop EXCEPT ![r] = 0]
  /\ seen' = [seen EXCEPT ![r] = <<>>]
  /\ pc' = [pc EXCEPT ![r] = "read"]
  /\ UNCHANGED <<owner, inFile, data, filled, maxSize, buffer, pass, recv>>

\* The file system completes the outstanding read.
CompleteRead(r) ==
  LET q == request[r] IN
  /\ q.state = "pending"
  /\ buffer' = [buffer EXCEPT ![r][q.half] = SubSeq(data[r], q.from + 1, q.from + q.len)]
  /\ request' = [request EXCEPT ![r].state = "done"]
  /\ UNCHANGED <<owner, inFile, memory, data, filled, maxSize, block, offset,
                 over, progVars>>

ReadPosition(r) == block[r] * Chunk
Waited(q) == q.state \in {"done", "null"}

\* The chunk that the last read() returned; the scatter looks at it later.
HasChunk(r) == filled[r] > ReadPosition(r)
Given(r) == IF memory[r]
            THEN SubSeq(data[r], ReadPosition(r) - Chunk + 1,
                        Least(ReadPosition(r), filled[r]))
            ELSE buffer[r][Half(block[r] - 1)]

\* Mutant: a chunk is read ahead into the half that the user holds.
ReadSameHalf(r) ==
  /\ pc[r] = "read" /\ loop[r] < NumLoops
  /\ IF HasChunk(r)
     THEN /\ ~ memory[r] => Waited(request[r])
          /\ block' = [block EXCEPT ![r] = @ + 1]
          /\ request' =
               IF ~ memory[r]
               THEN [request EXCEPT ![r] =
                      IF filled[r] > (block[r] + 1) * Chunk
                      THEN [IRead(r, block[r] + 1) EXCEPT !.half = Half(block[r])]
                      ELSE Null]
               ELSE request
          /\ pc' = [pc EXCEPT ![r] = "given"]
     ELSE pc' = [pc EXCEPT ![r] = "empty"] /\ UNCHANGED <<block, request>>
  /\ UNCHANGED <<owner, inFile, memory, data, filled, maxSize, buffer, offset,
                 over, pass, loop, recv, seen>>
Read(r) ==
  /\ pc[r] = "read" /\ loop[r] < NumLoops
  /\ IF HasChunk(r)
     THEN /\ ~ memory[r] => Waited(request[r])
          /\ block' = [block EXCEPT ![r] = @ + 1]
          /\ request' =
               IF ~ memory[r]
               THEN [request EXCEPT ![r] =
                      IF filled[r] > (block[r] + 1) * Chunk
                      THEN IRead(r, block[r] + 1) ELSE Null]
               ELSE request
          /\ pc' = [pc EXCEPT ![r] = "given"]
     ELSE pc' = [pc EXCEPT ![r] = "empty"] /\ UNCHANGED <<block, request>>
  /\ UNCHANGED <<owner, inFile, memory, data, filled, maxSize, buffer, offset,
                 over, pass, loop, recv, seen>>

ChunkOf(r) == IF pc[r] = "given" THEN Given(r) ELSE <<>>

\* What the chunks of all ranks hold for rank r. The order, which the threads
\* of the senders determine, is of no concern.
Received(r) ==
  LET chunk == [s \in Rank |-> ChunkOf(s)]
      from  == UNION {{<<s, i>> : i \in {i \in DOMAIN chunk[s] : owner[chunk[s][i]] = r}}
                        : s \in Rank}
      order == SetToSeq(from)
  IN [k \in DOMAIN order |-> chunk[order[k][1]][order[k][2]]]

\* ScatterContext::scatter: every rank takes part in every iteration.
Scatter ==
  /\ \A r \in Rank : pc[r] \in {"given", "empty"} /\ ~ Checks(pass[r])
  /\ seen' = [r \in Rank |-> seen[r] \o ChunkOf(r)]
  /\ recv' = [r \in Rank |-> IF Rewrites(pass[r]) THEN Received(r) ELSE <<>>]
  /\ pc' = [r \in Rank |-> IF Rewrites(pass[r]) THEN "write" ELSE "read"]
  /\ loop' = [r \in Rank |-> IF Rewrites(pass[r]) THEN loop[r] ELSE loop[r] + 1]
  /\ UNCHANGED <<owner, inFile, memory, data, filled, maxSize, readVars,
                 offset, over, pass>>

\* A validation only looks at the edges, and does so chunk by chunk.
Look(r) ==
  /\ pc[r] \in {"given", "empty"} /\ Checks(pass[r])
  /\ seen' = [seen EXCEPT ![r] = @ \o ChunkOf(r)]
  /\ pc' = [pc EXCEPT ![r] = "read"]
  /\ loop' = [loop EXCEPT ![r] = @ + 1]
  /\ UNCHANGED <<owner, inFile, memory, data, filled, maxSize, readVars,
                 offset, over, pass, recv>>
-----------------------------------------------------------------------------
\* writeInternal: overwrite from position n on, extending the list if needed.
Stored(seq, n, new) ==
  SubSeq(seq, 1, n) \o new \o SubSeq(seq, n + Len(new) + 1, Len(seq))

\* Mutant: everything that arrives is written at once.
DirectAlways(r, n, count) == count
\* How much of count new edges goes straight to position n of the list.
Direct(r, n, count) ==
  IF n + count <= ReadPosition(r) THEN count
  ELSE IF n <= ReadPosition(r) THEN ReadPosition(r) - n
  ELSE 0
\* reduceWriteBuffer: one chunk of the buffer per write
Drain(r) == Least(Len(over[r]), Chunk)

Write(r) ==
  LET d     == Drain(r)
      first == offset[r] + d
      n     == Direct(r, first, Len(recv[r]))
      out   == SubSeq(over[r], 1, d) \o SubSeq(recv[r], 1, n)
  IN
  /\ pc[r] = "write"
  /\ data' = [data EXCEPT ![r] = Stored(@, offset[r], out)]
  /\ offset' = [offset EXCEPT ![r] = first + n]
  /\ over' = [over EXCEPT ![r] = SubSeq(@, d + 1, Len(@))
                                   \o SubSeq(recv[r], n + 1, Len(recv[r]))]
  /\ recv' = [recv EXCEPT ![r] = <<>>]
  /\ loop' = [loop EXCEPT ![r] = @ + 1]
  /\ pc' = [pc EXCEPT ![r] = "read"]
  /\ UNCHANGED <<owner, inFile, memory, filled, maxSize, readVars, pass, seen>>

Written(r) == offset[r] + Len(over[r])

FilledAfter(r) == IF over[r] = <<>> THEN offset[r] ELSE filled[r]
EndWrite ==
  /\ \A r \in Rank : pc[r] = "read" /\ loop[r] = NumLoops /\ Rewrites(pass[r])
  /\ filled' = [r \in Rank |-> FilledAfter(r)]
  /\ maxSize' = LargestOf({Written(r) : r \in Rank})
  /\ pc' = [r \in Rank |-> "end"]
  /\ UNCHANGED <<owner, inFile, memory, data, offset, over, readVars, pass,
                 loop, recv, seen>>

\* Mutant: a rank leaves as soon as it has read all its own edges.
LeaveWhenEmpty(r) ==
  /\ pc[r] = "read" /\ ~ Rewrites(pass[r])
  /\ loop[r] = NumLoops \/ Checks(pass[r]) \/ ~ HasChunk(r)
  /\ pc' = [pc EXCEPT ![r] = "end"]
  /\ UNCHANGED <<owner, inFile, memory, data, filled, maxSize, readVars,
                 offset, over, pass, loop, recv, seen>>
\* A pass without writing ends after its last iteration; a validation leaves
\* its loop at the first error it finds.
LeaveLoop(r) ==
  /\ pc[r] = "read" /\ ~ Rewrites(pass[r])
  /\ loop[r] = NumLoops \/ Checks(pass[r])
  /\ pc' = [pc EXCEPT ![r] = "end"]
  /\ UNCHANGED <<owner, inFile, memory, data, filled, maxSize, readVars,
                 offset, over, pass, loop, recv, seen>>

\* endRead waits for a chunk that was read ahead for nothing.
MustWait(r) == ~ memory[r] /\ HasChunk(r)
EndRead(r) ==
  /\ pc[r] = "end"
  /\ MustWait(r) => Waited(request[r])
  /\ request' = IF MustWait(r) THEN [request EXCEPT ![r] = Null] ELSE request
  /\ data' = [data EXCEPT ![r] = Stored(@, offset[r], over[r])]
  /\ offset' = [offset EXCEPT ![r] = @ + Len(over[r])]
  /\ over' = [over EXCEPT ![r] = <<>>]
  /\ filled' = IF over[r] # <<>> THEN [filled EXCEPT ![r] = offset'[r]] ELSE filled
  /\ pass' = [pass EXCEPT ![r] = @ + 1]
  /\ pc' = [pc EXCEPT ![r] = "begin"]
  /\ UNCHANGED <<owner, inFile, memory, maxSize, block, buffer, loop, recv, seen>>

Next ==
  \/ \E r \in Rank : \/ BeginRead(r) \/ CompleteRead(r) \/ Read(r) \/ Look(r)
                     \/ Write(r) \/ LeaveLoop(r) \/ EndRead(r)
  \/ Scatter
  \/ EndWrite

Spec == Init /\ [][Next]_vars
FairSpec == Spec /\ WF_vars(Next)
-----------------------------------------------------------------------------
Counted(r, e) == Cardinality({i \in DOMAIN seen[r] : seen[r][i] = e})
Ended(r) == pass[r] = Len(Passes) + 1

\* While redistribute_edge_2d rewrites the list it reads, no edge that was not
\* read yet is overwritten: neither the chunks ahead of the read position nor
\* the one that the file system may still be fetching.
UnreadIntact ==
  \A r \in Rank : pass[r] <= Len(Passes) /\ ~ Checks(pass[r]) /\ pc[r] \notin {"begin", "end"} =>
    LET all == Generated(Cardinality(Edge), r)
    IN \A i \in ReadPosition(r) + 1 .. filled[r] : data[r][i] = all[i]

\* A pass that makes all its iterations is given every edge of the rank once,
\* before the redistribution the generated ones, after it those the rank owns.
PassComplete ==
  \A r \in Rank : pass[r] <= Len(Passes) /\ pc[r] = "end" /\ loop[r] = NumLoops
                  /\ ~ Rewrites(pass[r]) =>
    \A e \in Edge :
      Counted(r, e) =
        IF IF Checks(pass[r]) THEN owner[e] = r
           ELSE ((e - 1) \div Chunk) % NumRanks = r
        THEN 1 ELSE 0

\* Every rank completes every pass: the ranks agree on the number of
\* collective iterations whatever the sizes of their parts are.
AllPassesEnd == <>(\A r \in Rank : Ended(r))
=============================================================================
