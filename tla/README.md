# A verification of the Graph500 hybrid breadth-first search

The repository is a Graph500 benchmark (`src/mpi`, C++ with MPI and OpenMP): it
generates a Kronecker graph, distributes it over an R x C grid of ranks, searches
it from a number of roots with a *hybrid* (direction-switching) breadth-first
search, validates every search and prints statistics. This directory holds TLA+
models of it, the TLC configurations that check them on small instances, and
proofs checked by TLAPS for every value of the constants.

Everything is modelled for the build that the makefile makes for CPUs: MPI and
OpenMP, no CUDA, no Fujitsu RDMA, `BOTTOM_UP_OVERLAP_PFS`, `TOP_DOWN_SEND_LB 2`,
`TOP_DOWN_RECV_LB 1`, `ENABLE_MY_ALLGATHER 1`, `INIT_PRED_ONCE 0`,
`VALIDATION_LEVEL 2`, and `NDEBUG`, so that assertions are statements of intent
and not checks.

Paths and line numbers below are of `src/`. `PROJECT.json` maps every definition
to the lines it models.

## 1. The system

### Components, their state and their operations

| Component | State | Operations | Hard behaviour |
|---|---|---|---|
| Edge storage (`graph_generator.hpp`) | the edge list of a rank in memory or in a file, read position, double buffer | `beginRead`, `read`, `endRead`, `write`, `redistribute_edge_2d` | written while it is read; every chunk is collective |
| Graph construction (`graph_constructor.hpp`) | row counts, order of the vertices, layout of the rows, compressed rows | `scatterAndScanEdges`, `constructFromWide`, `scatterAndStore`, `sortEdges`, ... | two passes that must count alike, three numberings of a vertex |
| Level loop and direction policy (`bfs.hpp`, `run_bfs`) | direction, format of the frontier, growing flag, level number, size of the last level, visited count | one iteration per level: search, reductions, decision, expansion | what the switches do to the data that the next level reads |
| Hybrid search (`bfs.hpp`, `bfs_cpu.hpp`) | parents with levels, two visited bitmaps whose roles swap, travelling copies, gathered bitmaps, lists, packets | `first_expand`, `top_down_*`, `bottom_up_*`, `*_expand`, `swap_visited_memory` | messages of all ranks in any order, stale bitmaps, memory that serves two purposes |
| Frontier lists (`top_down_make_nq_list`, `make_list_from_bitmap`) | buffers of the size of a bitmap | write a list, after every level without a bitmap | the length of the list is checked by assertions only |
| Top-down fold (`top_down_send*`, `top_down_receive`, `top_down_row_receive`) | a packet per thread and target, words in the send buffers, lists that are pointed to | write short rows, split long rows, flush, read the stream of words | words whose meaning depends on the words before them |
| Asynchronous send buffers (`abstract_comm.hpp`) | per target: reserved and filled size, current buffer, buffers handed over | `put`, `put_ptr`, `flush`, `run`, `run_with_ptr` | lock-free among threads; two passes that must agree |
| Spin barrier (`utils.hpp`) | arrival counter, step | `barrier` | reused at once by threads that race ahead |
| Bottom-up ring (`bottom_up_comm.hpp`) | receive slots with three counters, free list, requests, pending pair | `begin`, `recv`, `send_first`, `send`, `probe`, `finish` | non-blocking requests, polling, two directions, buffers in place |
| Bottom-up thread pipeline (`bottom_up_bmp_parallel_section`) | description of the slice in work, block counter | one loop body for all threads | plain shared variables between barriers |
| Validation (`validate.hpp`) | error counts, exchanges of vertices, edges that were visited | `validate` | errors of single ranks among collective operations |
| Benchmark driver and resume log (`main.cc`, `benchmark_helper.hpp`) | roots, result arrays, log file | choice of roots, run and validate each, log, resume, print | kills and restarts with other parameters |
| Fibers, pools, collectives, generator, GPU, Fujitsu | see section 5 | | |

### How they interact

`main.cc` starts the driver; the driver generates the edge list, has the graph built
from two passes over it, redistributes it for the validation, and calls `run_bfs`
and `validate` for every root. `run_bfs` runs levels on all ranks in step:
collectives separate them. A *top-down* level scans the frontier with all threads of
a rank (the fold); edges go through `put` and `put_ptr` into per-target buffers,
through one or more all-to-alls in the processor column, into the receivers that
write parents. A *bottom-up* level sends four slices of every rank's visited bitmap
once around the processor row (the ring), searches each with all threads of each
rank (the pipeline, with the spin barrier), and sends the parents found to the owners
(again by the buffers). Expansions gather the result in the row or column for the
next level.

### What makes each part correct

* edge storage: nothing is overwritten before it was read, a pass yields every edge
  once, at its owner after the redistribution, and all ranks make the same number of
  iterations;
* construction: each rank has exactly the rows of its part of the matrix, sorted and
  without duplicates, in the numbering of their owners, with the bits of the vertices
  that have an edge;
* search: the parent array is a tree of the graph with exact levels at every time,
  is written once per vertex, and every level is found completely, whatever the
  direction and whatever an earlier search left in the memory; the search ends;
* policy: a search that left bottom-up never returns to it; the counts it decides
  on are exact; the lists it lets through fit their buffers;
* fold: each edge of the frontier is heard of once at the owner of its target, with
  its own source, also when rows are split and lists are cut;
* send buffers: each put lands whole in one buffer, each buffer is handed over once,
  with no hole, by one thread; no thread waits for ever;
* ring and pipeline: each slice meets each rank once, owner first, with the tag that
  belongs to it, without running out of buffers, and is passed on only when all of it
  was searched;
* barrier: nobody leaves before all have arrived, nobody hangs;
* validation: all ranks give one answer, and it is "valid" for the breadth-first
  searches and for nothing else;
* driver: what is printed was searched and validated, root by root, also when it
  comes from the log of a killed process.

## 2. Modules

```
EdgeStorage                        the edge list that Construct and Validator read
Construct                          the rows that HybridBFS searches
LevelBFS     <- implemented by -   HybridBFS  - extends ->  Direction  <- extends - LevelControl
SliceVisits  <- implemented by -   BottomUpRing      (the visits that HybridBFS takes as steps)
Barrier      <- implemented by -   SpinBarrier  <- extends - BottomUpThreads
PutBatches   <- implemented by -   AsyncPut          (the puts that TopDownFold takes as steps)
PointerAlltoall <- extends - TopDownFold
Validator
BenchmarkDriver
```

`*_proofs` modules hold theorems; `MC*` modules hold values of constants only.
Definitions headed "Mutant" in a comment are plausible bugs: each is put in place of
the definition it follows, and the property it is meant for must then fail.

**EdgeStorage** has the passes of `graph500_bfs` over the list of each rank, chunk by
chunk: `scan` and `store` for the construction, `redistribute`, and two validations.
`BeginRead`, `Read` and `EndRead` are the functions of that name, for lists in memory
and in files (read ahead into a double buffer, and the memory that is released when the
file is complete). In the redistribution a chunk is exchanged in the step that reads it:
what fits below the read position is written over the list, the rest waits in `over`.
`Dealt` is the arithmetic by which `generate_graph` deals chunks to ranks; `Received` is
what the chunks of all ranks hold for one, in an arbitrary order, as the order in the code
is that of the senders' threads.
The exchange is one step because it is one collective operation of all ranks.

**Construct** is `GraphConstructor2DCSR` with one step per collective operation of a
processor row, column or all ranks: degrees of the vertices at their owners, the order
(`VERTEX_REORDERING` 0, the default, and 2), the layout of the wide rows, the second pass
with the numbers that two other ranks convert, sorting, merging and compression, the bit
of every vertex with an edge. What a rank computes between two such operations concerns
only its own part, so `place` and `loop` say which operation a rank has reached, and
ranks that share none may be apart. Where the code packs two numbers into one word there
is a record; that the low one fits its bits is then a property (`LocalsFit`, below).
`initializeParameters` (graph_constructor.hpp:627) takes the bits of a local number from
the quotient of a power of two and the number of ranks, rounded down. `RanksFit` says for
which numbers of ranks this loses no vertex: up to a unit (65536 or more in the code), or
any power of two. Beyond it the code is wrong: at SCALE 34 on 511 x 513 ranks vertex
2^34 - 1 has local number 65536, which `org_local_bits_` = 16 cannot hold.

**Direction** is the decision of `run_bfs` (bfs.hpp:2799-2829) as operators on the
three flags. `NextDirection` is what happens at the end of a level.

**HybridBFS** is the search on the grid. A vertex is owned by one rank; the disjoint
slices that ranks keep of a distributed structure are one set (`newVis`, `oldVis`,
`work`, `nq`, `pred`), copies are one set per rank (`shared`, `cq`).
`StartBfs` is `initialize_memory` with `first_expand`; `TopDownScan` a rank's share
of `top_down_parallel_section`; `TopDownReceive` one edge at the owner (fetch-and-or
on the bitmap while growing, compare-and-swap on the parent afterwards);
`BottomUpStep` one rank's search of one bitmap; `BitmapHome` the copy back into
`new_visited_`; `BottomUpReceive` the parent message at its owner;
`EndTopDown`/`EndBottomUp` everything from the reductions to the set-up of the
next level, with the memory exchange of `swap_visited_memory` and the differences
that the four `*_expand` functions take. Memory that serves two purposes is modelled
by `Junk`: after a top-down level with a list `old_visited_` holds the list that was
gathered there, and after a bottom-up level the frontier's memory holds working
bitmaps; a level that read them would read anything. `fold`/`dirty` are the packet
headers and `packet_buffer_is_dirty_`. The four slices of a rank's bitmap are one
bitmap here (they are apart in `BottomUpRing`), and the ranks of a row visit a bitmap
in any order with the owner first, which covers both directions of the ring.

**LevelBFS** is what the search promises: complete levels, one parent each from the
level before, and an end at the first empty level. `HybridBFS!Abs` maps to it the
levels that are complete.

**LevelControl** are the *sizes* the loop works with at the real constants
(alpha 2000, beta 8), for one rank, its row and the rest: list lengths against the
buffers of `allocate_memory` (one bit per vertex, 8 bytes per entry).

**TopDownFold** is the way of an edge in a top-down level: `top_down_send` for short
rows (a source word when the source changes or the packet is new, a word per target,
a full packet goes out), `top_down_send_large` for long ones (the bisection for the
targets of each rank, and `put_ptr`), the flush of what is left, and the two receivers:
a source word, its targets, or the header of a long list, which is read at once or in
splits after all streams. In between it runs **PointerAlltoall**, which is
`run_with_ptr`: counting pass, agreement (Allreduce), filling pass with the cutting of
lists, exchange. Both passes are recursive functions over the lists of a target. They assume that
packets leave room for a header and a word; the code does not check that.

**AsyncPut** takes `put` one atomic access at a time. `filled_size_` and
`reserved_size_` start at the buffer size with no buffer attached, as `prepare`
leaves them. **PutBatches** promises that puts are collected into batches as a whole.

**SpinBarrier** has one step per access to `step` and `cnt`; the step wraps around.
**Barrier** promises that a call returns when all have made it.

**BottomUpThreads** is the loop of `bottom_up_bmp_parallel_section` for all threads
of a rank. It extends `SpinBarrier`, so that a call of the barrier is the same sequence
of accesses as there, interleaved with the work of the other threads. Only the implicit
barrier of `omp for` is abstract. The barrier that ends the search of a slice is inside
`bottom_up_search_bitmap_process_step` (2034); after it every thread adds what that call
returned to `visited_count[data.tag.routed_count + ...]` (2260) and so reads the shared
description once more, while the main thread may be in `send_first` or have described the
next slice (2231-2241). `AddCount` is that read. It is a race that does no harm, as
`routed_count` is 0 in every description: the tag has room for it, but nothing counts it
up. `SliceStable` says how late the read can be, and `FindsCounted` that the finds are
counted in the right place in spite of it; its mutant counts the hops of a slice.

**BottomUpRing** is a processor row with the requests of MPI: `Buffered` (a send may
complete early) and `Deliver` are MPI's, everything else is the code's, with its
arithmetic on the slots of `recv_pair` and the order of the free list. The bitmap a
buffer holds is represented by the slice it belongs to and the ranks that searched
it. The tag of a message has 12 bits for the number of the slice
(`TagRegions`; bottom_up_comm.hpp:208-224), so that a row may have 4096 slices, which is
1024 ranks with `BU_SUBSTEP` 4; `TagAssumption` says so, and the code does not check it (a
comment at line 19 gives 1024 for the slices themselves). A larger number would spill into
`routed_count`. **SliceVisits** is what `HybridBFS` needs of it.

**Validator** is `validate`, rank by rank, with one step per collective operation: the sum of
the errors in the ranges, the parents and the depths, and for every chunk of edges the question,
the reply and the marks, each in a processor row and in a column. A rank that has left the loop
does not come to the next exchange, and the others wait. The counts of errors are numbers. The
code keeps them in 64 bits and reduces them in place as `MPI_INT` (517, 570, 581, 800): of the
counts of the ranks the low halves are added without a carry, and each rank keeps the high half
of its own (on a little-endian machine). `Failing` is the set of ranks that see a total other
than 0 then, with `IntValues` for 2^32. Errors in a multiple of that number are no errors for
the sum: with 2^32 connected vertices on several ranks, correct parents and depth 5 everywhere,
every check but that of the depths passes, and that one counts 2^32 errors, so that the result
is accepted. The runs have 65536 values, as any number above the errors that four vertices and
seven edges can have gives the same states; with `IntValues` 2 TLC finds `AcceptedIsSearch`
violated. What is proved of the answers is therefore under `ErrorsFit`.

An entry without parent is -1 as a whole, with depth 65535, as the search delivers it
(`ValidatorAssumption`). The validation is not defined for others: a parent -1 with
another depth is an error that it counts (938-941), but then it also asks the owner of vertex
-1 for an entry (963-970) and so uses `send_counts[-1]` (169).

**BenchmarkDriver** has processes one after the other that share a log file. A kill is
possible at any point, also between truncating and writing the log. `has_edge` lets
one vertex behind the bitmap pass (`>` at graph_constructor.hpp:104 where `>=` is
meant); the bit read there is a nondeterministic choice. Such a vertex (`Boundary`, one
per rank at most) may be drawn as a root by one process and not by the next, although it
has no edge. `PrintedResults` and `RootsChosen` are stated with that exception: a printed
result is of the root that this process has drawn unless one of the draws was such
a vertex, and a root has an edge or is such a vertex.

## 3. What TLC checks

| Run | Instance | Shows |
|---|---|---|
| `edge_storage` | 2 ranks, chunks of 2, 2 or 9 edges with any owners, memory and file | nothing unread is overwritten, each pass is complete, all passes end on all ranks |
| `construct` | 16 vertices on 2 x 2 ranks, chunks of 2, two edges of any kind among fixed ones, and a hub; orders 0 and 2 | rows exact, the two passes agree on all counts, bits exact, no deadlock |
| `hybrid_levels` | 8 vertices on 2 x 2 ranks, 4 graphs, two searches in a row | tree, packet headers, counts, the inductive invariant; parents written once, no return to bottom-up, refinement of `LevelBFS`, termination |
| `level_control` | 4 ranks x 65536 vertices, real alpha, beta and threshold | lists fit to the end of the bottom-up phase, and their bound after it |
| `level_control_tail` | one rank | **violation**: a list longer than its buffer after the return to top-down |
| `top_down_fold` | 3 ranks, 2 threads, areas of 16 words, packets of 6, rows of 1 to 25 targets | areas exactly full, rounds end together, each edge heard of once, no deadlock |
| `async_put` | 3 threads, 6 puts, buffers of 3 words | types, one swapper, whole buffers, refinement of `PutBatches`, all puts return and are sent |
| `bottom_up_threads` | 3 threads, 4 blocks, 3 slices searched, 2 copied, step modulo 2 | the barrier refines `Barrier`; shared variables stable while in use, finds counted once and in place, slices complete when sent, the section ends |
| `bottom_up_ring` | 4 ranks, 2 slices each, 4 buffers | no receive without message, no exchange without buffer, refinement of `SliceVisits`, all slices home, no deadlock |
| `validation` | 4 vertices on 2 x 2 ranks, 3 edge lists, results with any parents and depths, or none | one answer; accepted results are searches; searches are accepted; every result is answered if there is one chunk |
| `validation_hang` | the same, results with a proper root | **violation**: ranks that wait for one that has left the loop |
| `benchmark_driver` | 3 roots, 3 processes, 2 parameter sets | log and arrays in step, printed results real, roots proper, every process ends |

### Bounds, and why they suffice

* `edge_storage`: 9 edges are more than two chunks per rank, so that reading ahead,
  a last chunk that is not full, and an overflow into the write buffer happen; the
  owners are arbitrary, so that one rank may receive all edges. Two ranks give both
  a rank that gets more and one that gets less than it reads.
* `construct`: a row of the matrix is wide enough for two parts, so that row counts,
  offsets and bits of the second part matter; 2 x 2 keeps row and column apart. The two
  free edges make duplicates in both directions, self-loops, and empty rows; the hub's
  neighbours have different degrees, so that their order changes with the reordering.
* `hybrid_levels`: two vertices per rank give ranks whose slices are partly found;
  2 x 2 is the smallest grid where row and column differ. The four graphs cover the
  ways a search can go: back to top-down with a list, with a bitmap, an end inside
  the bottom-up phase, and no bottom-up phase. The second search starts from what any of
  them leaves behind; a third would find nothing else. Alpha and Beta are small so that
  8 vertices reach all of them. The proofs remove these bounds for safety.
* `level_control`: `Sizes` are values below, at and above alpha's, the threshold's
  and the buffer's limits; a search there has at most `MaxLevels` levels.
* `top_down_fold`: lists that end exactly at, before and behind the limits, alone
  and behind packets; any split of a long row over three targets; up to five rounds;
  a packet that fills up in the middle of a row; one source on two ranks.
* `async_put`: packets that fill a buffer exactly, cross its end and leave a gap;
  two waiting threads at once.
* `bottom_up_threads`: with two values, the step of the barrier wraps on every second
  call; search steps follow each other, and a copy step follows and precedes them. Three
  threads allow two that are behind the main thread in different places, one of them
  without a share of the copy; there are more blocks than threads.
* `bottom_up_ring`: with four ranks left and right differ and there is a rank that is
  no neighbour; one slice of each rank goes each way, and the four entries of `recv_pair`
  wrap around twice; 4 buffers are the fewest with which the ring works (the code has 64
  or more). Four slices of each of three ranks, as the code is configured, behave the same
  but take minutes; the proofs cover them. Polling is possible at every point where the
  code polls.
* `validation`: an entry is empty, or any parent with depth 0, 1, 2 or 65535 (the root's
  is the root, vertex 1 or none; vertex 3 may also have one that is out of range), so that
  errors of every kind come together, on ranks with one chunk and with two.
* `benchmark_driver`: three processes allow a kill, a resume, and a kill of that.

### Deadlock and fairness

Deadlock is checked where the absence of it is the point: `construct`,
`top_down_fold` and `bottom_up_ring` have no fairness at all. Every step there brings
some message, row or slice further, so that without deadlock they end; a final
state has a stuttering step. The other systems stop when their work is done
(`CHECK_DEADLOCK FALSE`), and that they do not stop before is what their liveness
properties say.

* `HybridBFS`, `EdgeStorage` and `Validator`: weak fairness of `Next`. Ranks always have
  a next step of their own or wait in a collective, and MPI completes what was
  posted; each step reduces the work of the level, pass or chunk, so that no
  stronger assumption is needed.
* `AsyncPut`, `BottomUpThreads`: weak fairness of each thread. The code busy-waits, with
  one thread per processor, and relies on exactly that.
* `BottomUpRing`: none; early completion of sends (`Buffered`), which MPI does not
  promise, is only possible.
* `BenchmarkDriver`: weak fairness of the process's own work, none of kills.

### Findings

`level_control_tail` (`ListFits`): `top_down_make_nq_list` asserts that a list fits
the buffer (bfs.hpp:616). After a return to top-down the policy never looks at the size
of the frontier again (2801-2823), and a frontier that grows again is still written as
a list. The run has levels of 60000, 10 and 2000 of 65536 vertices on one rank and a
list of 2000 entries where 1024 fit. With `NDEBUG` nothing stops it. `TailListBound`
says what does hold: such a list is below 1/beta of the graph.

`validation_hang` (`AlwaysAnswers`): `validate` "returns true if result is valid"
(validate.hpp:502), and collects the errors of all ranks for it at the end. But the
loop over the chunks of edges ends on a rank as soon as that rank has counted an error
(598), while the others go into the exchanges of the next chunk with it and wait there
for ever. The run has a result that reaches nothing but the root; the benchmark hangs
instead of reporting it. `OneChunkAnswers` says what does hold: a list that is one chunk
on every rank is always answered, unless the parent of the root is wrong, where the
owner of the root returns alone (537).

## 4. What TLAPS proves

All assumptions are the named ones of the modules: positive sizes, a symmetric graph
without loops, packets that fit a buffer, slices that fit the tag of a message. Some theorems
have a hypothesis as well, which says what the code relies on without a check: `RanksFit` in
the construction, `PacketsFit` and `PacketsLeaveRoom` in the fold, `ErrorsFit` in the
validation. They are explained where they are used.

**HybridBFS_proofs**. For every graph, grid, policy setting and number of searches, and
whatever is in memory that another purpose has overwritten:

* `Tree`: `[]TreeOK`. `WrittenOnce`: `PredWrittenOnce`. `StaysForward`: `NoReturn`.
  `Packets`: `[]PacketsClean`. `Counted`: `[]VisitedCount`. `TypeCorrect`: `[]TypeOK`.
* `Refinement`: `Spec => LevelByLevel`. The search on ranks, with messages in any order
  and switching directions, implements the level-by-level search of `LevelBFS`.

All follow from `Invariance`, `[]IInv`. `TreeOK` alone is not inductive: that a
bottom-up search may take *any* visited neighbour holds only because a neighbour of an
older level would have made the vertex known before (`LevelsClosed`). That in turn
needs to know that a level is complete when it ends. So `IInv` says what holds in the
middle of one: `ForwardOK`, that the frontier is the last level and each edge of a
scanned rank has arrived or is on its way; `BackwardOK`, that the snapshot is what was
visited before the level, that each bit set since has exactly one message or is
stored, and that a rank which a bitmap has passed has nothing for its zeros. The
argument goes action by action (`ScanIInv`, `ReceiveIInv`, `StepIInv`, ...); both
receivers rest on `Discovery`, both ends of a level on `FinishIInv`, for which
`TopDownLevel` and `BottomUpLevel` show that the level is closed. `Decision` collects
what the policy may do, and is all that is used of it. `Packets` needs a small
invariant of its own (`PacketsInv`).

**Validator_proofs**, for every edge list, result, grid and chunk size, as long as the errors
that are added up are fewer than 2^32 (`[]ErrorsFit`): each theorem has the form `Spec /\
[]ErrorsFit => ...`, and without that they are false (section 2). Where it holds, a sum is not 0
for any rank exactly if some rank has counted an error (`FailingAlike`). `OneVerdict` is
`[]SameVerdict`. `AcceptedIsBreadthFirst`: when a rank returns true, the depth of every vertex
is its distance from the root in the edge list, the parents form a tree of listed edges, and
exactly the vertices with a walk from the root are reached. The invariant (`IInv`) says what a
rank knows that has got to a collective operation: which checks all ranks have passed, which
chunks were compared, and which vertices were marked by an edge to their parent. That these
local facts make a breadth-first search is an argument about a least counterexample
(`LeastNatural`): a vertex of least depth without a walk has a parent of smaller depth, and the
first vertex of a walk that is not reached, or too deep, has an edge that a check would have
refused. `AcceptedIsTheSearch` (`[]AcceptedIsSearch`) is the property of the run itself, which
grows the component of the root level by level and counts the listed edges in it. Its sets are
shown to be the levels of the result (`WithinLevels`); no depth is passed over (`DepthsFilled`),
so that there are fewer levels than vertices and the growth that the property takes is all of
it. The count of the visited edges follows from an invariant of its own, `VisitsCounted`, by
which each rank has counted those of the chunks that it has gone through, and each collective
sum those of all ranks.

**TopDown_proofs** has what a top-down level relies on. Of the frontier lists:
`ListsFitUntilSwitch` and `TailListBounded`, for every number of
ranks with `64 * Ranks <= Alpha` (31 at alpha 2000) and threshold at most the
capacity. The first condition is real: a growing frontier may be all on one rank.
Of the fold, for every number of ranks and threads, any rows and all sizes of areas and
packets: `RoundsEndTogether` (`[]EndTogether`), `AreasAreWritten`, that the second pass of
`run_with_ptr` writes as many words for a target as the first counted, and `AreasAreExact`
(`[]AreasExact` under `[]PacketsFit`). `PacketsFit`, that packets do not exceed the share of
their target, is what the code relies on without a check; it holds in all states of the
run, and without it a count could be larger than the share. `AreaCounted` compares the
passes list by list: both have counted the same and are full at the same list, and a count
of 0 means that no list has anything left. `FoldInv` adds that a count still belongs to the
packets and lists that it was taken of when the ranks agree to stop. Its other half is the
type of all that is put before: a bisection ends within the row, so that the pieces of a
row are sequences with a length.

`EdgesAreDelivered` (`[]EdgesDelivered` under `[]PacketsLeaveRoom`) is about the content: what
the receivers count is, for each source and target, the number of frontier edges between
them. `PacketsLeaveRoom`, that the packets of a target leave room for a header where a list of
it has words left, is the assumption of `run_with_ptr` at abstract_comm.hpp:213, where a
shorter rest makes a length negative. Both it and `PacketsFit` hold in all states of the run,
with packets and cut lists in the same round, but depend on how many buffers fill up before
the exchange. `DeliveryInv` is what makes the property inductive, as the property itself only
speaks of the end:

* `RankShape`: stream, packets, lists and areas of a rank are words that can be read
  by themselves: a packet begins with its source and a piece with a header, so that they may
  be put one behind the other in any order (`PlainJoin`, `SoundSend`);
* `Accounted`: what a rank has put for another, in its stream, in the packets of its threads
  and in its lists, are the edges of the rows it has taken (`SendRowDelivery`,
  `FlushPacketsDelivery`), and stays so when packets are sent or flushed;
* `HeardRight`: what a rank has counted is what all ranks have sent to it so far: their
  streams and what their lists have given (`Done`), less what is in their areas and not
  yet received (`FilledExact`).

The lemmas below are about the two ends of a message. For the sender, the bisection of
`top_down_send_large` finds the end of the edges of one target wherever it starts
(`HalveExact`, `EndExact`), so that each target gets its edges of a row (`PutPointersExact`);
for the receiver, reading a stream is reading its parts one after the other (`ReadJoin`), and
a packet or a piece of a list gives its edges whatever was read before (`PieceRead`).

**BottomUpThreads_proofs** begins with the barrier itself, for every number of threads and
calls and every modulus of the step from 2 on: `Invariance`, `TypeCorrect`,
and `Refinement`, that the spin barrier implements `Barrier`. It then
proves for the pipeline that calls it, for every number of threads, blocks and steps:
`LevelImplementsBarrier`, `SliceIsStable`
(`[]SliceStable`), `SlicesAreComplete` (`[]StepsComplete`) and `FindsAreCounted`
(`[]FindsCounted`). `PlaceOK` reads off the
place of a thread in the loop how many barrier calls have returned to it; as these
differ by one at most between threads, a thread that works on a slice and the main
thread that overwrites its description cannot be at their places together; a thread that
still has to look up the index for its count is one step behind the description at most. For the
blocks: each block below the counter was drawn by one thread and was gone over, or is in
that thread's hand, so that nothing is open when all have passed the second barrier.
`CountsOK` adds that a block which was searched is with one thread, to be counted, or in one
cell of `visited_count`, and with no thread that has left the step.

**AsyncPut_proofs**, for every number of threads, packets and buffer size: `TypeCorrect`,
`Swapper` (`[]OneSwapper`), `Buffers` (`[]BuffersWhole`) and `PutsAreBatched` (the
refinement of `PutBatches`). `reserved_size_` grows with
each packet that finds the buffer full, so its range is not clear from the code:
`CounterInv` adds that it exceeds the buffer by at most one packet per thread that is
behind the end (`CounterBound`). A thread joins these once and leaves them only when the
counter is low again. For `Buffers`: the ranges that threads have reserved tile the
buffer (`Tiled`), and `filled_size_` is short of their end by exactly the positions of
threads that are still copying. When it equals the offset at which the swapper was
refused, nobody is copying, and what is handed over has no hole. For `PutsAreBatched`,
`BatchInv` adds that a word in a buffer is of a put that was committed there, or of the one
that its thread is copying, and that committed puts are there with all their words. Words of
different puts are at different positions, so that the puts of a batch need no more room
than it has (`BatchFits`, an injection of words into positions).

**Benchmark_proofs** has the construction of the graph first, for every edge list, every
grid, chunk size and size of parts, any order of the vertices that the sort may produce,
and however the collective operations of rows and columns interleave, for as many ranks as
`RanksFit` allows: `BuildInvariant`, `LocalsAlwaysFit` (`[]LocalsFit`), `CountsAlwaysAgree`
(`[]CountsAgree`), `HasEdgeAlwaysExact` (`[]HasEdgeExact`) and `RowsAlwaysExact`
(`[]RowsExact`). None of the three properties is inductive, as each compares what one
rank has with what the edge list says, and what a rank has came through two others.
`BuildInv` therefore says at every place what each rank has got of the edge list:

* `PhaseOK`: two ranks are at most one collective operation of their row or column apart
  (`Abreast`), so that what a rank is sent was not yet changed by its sender;
* `CountOK`: an owner has one entry for each end of an edge in the chunks so far, with a
  local number that has room, which is where `RanksFit` is needed;
* `OrderOK`: the order is a permutation, and every vertex with an edge is among the first
  `num_local_verts_`, although that is a maximum over ranks with different vertices;
* `LayoutOK` and `FillOK`: a rank has the layout that its row computed; the edges it
  received are those of the iteration, converted as far as its place says; and a wide row
  is as far ahead of its start as edges of the iterations so far belong to it (`RowGrows`).
  What the first pass counted at the owners of the sources is the number of these edges
  over all iterations, which gives `CountsAgree`;
* `BitsOK`: after the reduction an owner has the numbers of its vertices with an edge,
  and the sum is the number of all of them;
* `ArrayOK`: the filled part of a wide row consists of the entries of the edges that it
  stands for. `Position` puts the edges of an iteration to the free places one by one
  (`Positions`), behind what is there and before the next wide row (`StoreRoom`);
* `RowsFormed`: when the rows are formed, bit, first edge and offsets of a rank read back as
  the edges that it stores, each once.

The last step to `RowsExact` is the argument about `FormRows`: the merge lists each wide row
by `SortKey`, which differs for different ends, so that duplicates go and nothing else;
the rows put one behind the other have every entry at one position (`JointExact`); the
starts computed from the bits divide these positions by source (`RowStartsExact`); taking the
first edges out and moving the others by one place per row loses none (`CutExact`,
`RowsCut`); and the names that were gathered row by row are those of the owners
(`NamesExact`), so that a pair read from the rows is a pair of the list.

Of the driver it has, for every number of roots, every sequence of random numbers and however
often processes are killed and started, with the exception for vertices behind the bitmap of
section 2 (`Boundary`): `LogFollowsLoop` (`[]LogInStep`), `PrintedIsReal` (`[]PrintedResults`)
and `RootsAreChosen` (`[]RootsChosen`). `DriverInv` says that each result in the arrays, in the
log and in the file is one of a valid search from a root that the random numbers of its
parameters give (`RootAt`). Since they give the same roots to every process unless such a vertex
is among them (`SameTrace`, `TraceGrows`), a result from the log of a killed process is one for
the root that the present one has drawn.

**BottomUpRing_proofs**, for all numbers of ranks and of buffers that the code can be configured
with (`RingAssumption`: two or four slices, as `recv_pair` has four entries, and two buffers
more than slices) and whose slices the tag can tell apart (`TagAssumption`: `Size * Substeps <=
4096`; `TagKeeps` is that a slice arrives under its own number then): `NeverRunsOut`
(`[]NeverFails`). `RingInv` says that the counters of a rank follow from its step (`Ledger`),
that the tags in `recv_pair`, `send_pair` and `status` are those of the steps in which the
slices are due (`TagOK`), and which messages are between two neighbours: with three ranks or
more those of one direction (`ManyOK`), with one or two those of both in turns (`FewOK`), in the
order in which the receives are posted. A message that is delivered then has the tag that the
receiver expects (`HeadTag`), and a rank that asks for a slice has sent what was due before.
`SlicesHome` (`[]AllHome`) and `RingVisits` (the refinement of `SliceVisits`) need the content
as well. `DataInv` says that the own, pending, sent, received and free buffers of a rank are
apart (`Apart`), that each holds its slice as the rank before left it (`Content`), and that a
message is such a slice too, in its buffer until MPI has copied it (`SendsOK`). `HistInv`
relates that to the history: a slice has gone along its way (`Road`) as far as the steps of the
ranks say (`WayOK`), and is home once its owner has gone through the step that copies it
(`HomeOK`). A rank cannot be ahead of the one that sends to it (`Causal`).

**EdgeStorage_proofs**, for every number of ranks and edges, every chunk size and owner of each
edge, in memory and in files: `ReadsUnread` (`[]UnreadIntact`) and `PassesComplete`
(`[]PassComplete`). `Local` says of one rank how its read position, the chunk that was asked
for, the halves of the double buffer and the write position go together: the buffer holds what
the list held when it was asked for, and in the redistribution nothing is written at or above
what was read (`Behind`). It is not enough that each rank keeps to that: `scatter` is
collective, and `InStep` says that all ranks have taken part in the same number of them until
the redistribution is over, whatever passes they are in. `Conserved` says that an edge that was
scattered is in the list, the write buffer or the received chunk of its owner once, and nowhere
else; that the chunks of `generate_graph` hold each edge once is `DealtOnce` and `DealtHome`.
When all have read their lists, each list therefore holds the edges of its owner, and a later
pass, which is given a prefix of it at every time, ends with all of them.

**Only model-checked**: liveness everywhere (termination of the search, of puts, of the
pipeline, of passes, validations and the driver) and freedom from deadlock, as they
depend on fairness and ENABLED. Every invariant of a passing run is stated by a theorem,
two of them under the named reliance of the fold on the room that packets leave, and
those of the validation under `ErrorsFit`. Facts
about a fold need induction over data, which the prover cannot do with an operator as a
parameter; where the proofs above speak of lengths, counts and sums of sequences they
argue about a least counterexample in a set of numbers instead (`LeastNatural`, `UpTo`,
and `Recursion` for the solution of a recursive definition),
which takes a chain of lemmas for each operator.

## 5. What is not modelled, and the plan

Left out for good: the GPU search and the Fujitsu back end (not compiled), the
random numbers of the generator with their tables (pure arithmetic), prefix sums,
sorting and bit primitives, the communication test, scripts, timing and printing.
`bottom_up_search_list` cannot be reached: `run_bfs` sets the bitmap flag of every
bottom-up level (2828). With them goes most of the source: the tables of
`mrg_transitions.c`, the GPU and Fujitsu files and the unreachable branches are more
than two fifths of its lines, so that the mapped share stays low although the search itself,
the construction and the validation are covered.

Modelled in part: weights of edges and the split of loops over threads in the
construction; `num_global_edges_`, which only rank 0 has; the gathers and scatters of
`utils.hpp`, which are one collective step each.

Could be added:

1. *Own allgather* (`my_allgatherv`): the ring behind the gathers of bitmaps and lists.
2. *Send buffer pool* (`CommBufferPool`): several targets with a limited pool, so
   that running out (bfs.hpp:301) and the room left by packets (abstract_comm.hpp:213)
   can be stated; the theorem about delivery assumes the second (`PacketsLeaveRoom`).
3. *Fiber manager* and *memory pools*: task queue with sleepers, chunk lists.
