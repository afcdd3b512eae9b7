-------------------------- MODULE BottomUpThreads --------------------------
(***************************************************************************)
(* The threads of one rank in a bottom-up level: the main thread takes the *)
(* slice of the step and passes it on, all threads search it in blocks     *)
(* that they draw from a shared counter, with barriers in between. A slice *)
(* that came home is copied, each thread its share.                        *)
(*                                                                         *)
(* The barriers are those of SpinBarrier, access by access; only the one   *)
(* that ends an omp for is the abstract Barrier. Since step is a member of *)
(* the spin barrier, the loop counter step of a thread is turn here. How   *)
(* slices come and go is module BottomUpRing.                              *)
(***************************************************************************)
EXTENDS SpinBarrier, Sequences

CONSTANTS
  Main,       \* thread 0
  Blocks,     \* blocks of a slice (40 or less in the code)
  Steps,      \* total_steps
  HomeSteps,  \* steps whose slice came home
  Share       \* Share[t] are the blocks that omp for gives thread t

ASSUME ThreadsAssumption ==
  /\ Main \in Thread
  /\ Blocks \in Nat /\ Steps \in Nat
  /\ HomeSteps \subseteq 0 .. Steps - 1
  /\ Share \in [Thread -> SUBSET (0 .. Blocks - 1)]
  /\ \A b \in 0 .. Blocks - 1 : Cardinality({t \in Thread : b \in Share[t]}) = 1
  /\ Calls = 2 * Steps + 1

Step  == 0 .. Steps - 1
Block == 0 .. Blocks - 1

VARIABLES
  at,       \* where each thread is in the step
  turn,     \* its loop counter
  data,     \* data: the step whose slice it describes
  counter,  \* process_counter, in blocks
  off,      \* off_start of each thread
  passes,   \* how often each block of each step's slice was gone over
  mine,     \* blocks whose finds are in the local visited_count of a thread
  cells,    \* indices of visited_count that got the finds of each block
  sent,     \* steps whose slice was passed on
  ompEntered, ompLeft  \* calls of the barrier behind omp for

syncVars == <<vars, ompEntered, ompLeft>>
bmpVars  == <<syncVars, at, turn, data, counter, off, passes, mine, cells, sent>>

OmpBarrier == INSTANCE Barrier WITH entered <- ompEntered, left <- ompLeft

BmpInit ==
  /\ Init /\ OmpBarrier!Init
  /\ at = [t \in Thread |-> "begin"]
  /\ turn = [t \in Thread |-> 0]
  /\ data = 0
  /\ counter = 0
  /\ off = [t \in Thread |-> 0]
  /\ passes = [s \in Step |-> [b \in Block |-> 0]]
  /\ mine = [t \in Thread |-> {}]
  /\ cells = [s \in Step |-> [b \in Block |-> <<>>]]
  /\ sent = {}

GoTo(t, label) == at' = [at EXCEPT ![t] = label]

\* The main thread describes the slice of the step: an own one or recv().
Publish ==
  /\ at[Main] = "begin" /\ turn[Main] < Steps
  /\ data' = turn[Main]
  /\ GoTo(Main, "reset")
  /\ UNCHANGED <<syncVars, turn, counter, off, passes, mine, cells, sent>>

\* Mutant: the counter goes on from the step before.
ResetCounterNot ==
  /\ at[Main] = "reset"
  /\ GoTo(Main, "gate")
  /\ UNCHANGED <<syncVars, turn, data, counter, off, passes, mine, cells, sent>>

\* process_counter = 0
ResetCounter ==
  /\ at[Main] = "reset"
  /\ counter' = 0
  /\ GoTo(Main, "gate")
  /\ UNCHANGED <<syncVars, turn, data, off, passes, mine, cells, sent>>

\* The other threads go straight to the barrier.
SkipPublish(t) ==
  /\ t # Main /\ at[t] = "begin" /\ turn[t] < Steps
  /\ GoTo(t, "gate")
  /\ UNCHANGED <<syncVars, turn, data, counter, off, passes, mine, cells, sent>>

\* An access in thread_sync_.barrier(), called at a label; when the call
\* returns, the thread goes on to label next.
Sync(t, label, next) ==
  /\ at[t] = label
  /\ BarrierStep(t)
  /\ at' = IF pc'[t] = "out" THEN [at EXCEPT ![t] = next] ELSE at
  /\ UNCHANGED <<ompEntered, ompLeft, turn, data, counter, off, passes, mine, cells, sent>>

\* Before the work of a step: everybody sees the slice and the counter.
Gate(t) == Sync(t, "gate", IF data \in HomeSteps THEN "copy" ELSE "draw")

\* off_start = fetch_and_add(process_counter, block_width)
Draw(t) ==
  /\ at[t] = "draw"
  /\ off' = [off EXCEPT ![t] = counter]
  /\ counter' = counter + 1
  /\ GoTo(t, IF counter < Blocks THEN "block" ELSE "close")
  /\ UNCHANGED <<syncVars, turn, data, passes, mine, cells, sent>>

\* bottom_up_search_bitmap_process_block, in place; what it finds is added to
\* the local visited_count of the call.
SearchBlock(t) ==
  /\ at[t] = "block"
  /\ passes' = [passes EXCEPT ![data][off[t]] = @ + 1]
  /\ mine' = [mine EXCEPT ![t] = @ \cup {off[t]}]
  /\ GoTo(t, "draw")
  /\ UNCHANGED <<syncVars, turn, data, counter, off, cells, sent>>

\* The slice came home: omp for divides the copy, and ends in a barrier.
CopyShare(t) ==
  /\ at[t] = "copy"
  /\ passes' = [passes EXCEPT ![data] = [b \in Block |->
                   IF b \in Share[t] THEN @[b] + 1 ELSE @[b]]]
  /\ GoTo(t, "copied")
  /\ UNCHANGED <<syncVars, turn, data, counter, off, mine, cells, sent>>
OmpForEnd(t) ==
  /\ at[t] = "copied"
  /\ \/ OmpBarrier!Enter(t) /\ UNCHANGED at
     \/ OmpBarrier!Leave(t) /\ GoTo(t, "shut")
  /\ UNCHANGED <<vars, turn, data, counter, off, passes, mine, cells, sent>>

\* The barrier behind the copy.
CopyClose(t) == Sync(t, "shut", "end")

\* Mutant: the threads do not wait for each other before the slice is sent.
CloseOpen(t) ==
  /\ at[t] = "close"
  /\ GoTo(t, "add")
  /\ UNCHANGED <<syncVars, turn, data, counter, off, passes, mine, cells, sent>>

\* The barrier at the end of bottom_up_search_bitmap_process_step.
Close(t) == Sync(t, "close", "add")

\* Mutant: the hops of a slice are counted, as the tag has room for.
RoutedHops(s) == s
\* data.tag.routed_count of the slice of a step: nothing ever counts it up.
RoutedCount(s) == 0

\* visited_count[data.tag.routed_count + tid * comm_size] += ... : the thread
\* looks the index up in the shared description, and this may be after the
\* barrier above, when the main thread is ahead of it.
AddCount(t) ==
  /\ at[t] = "add"
  /\ cells' = [cells EXCEPT ![turn[t]] = [b \in Block |->
                  IF b \in mine[t] THEN Append(@[b], RoutedCount(data)) ELSE @[b]]]
  /\ mine' = [mine EXCEPT ![t] = {}]
  /\ GoTo(t, "end")
  /\ UNCHANGED <<syncVars, turn, data, counter, off, passes, sent>>

\* send_first or send by the main thread, and the next step.
EndStep(t) ==
  /\ at[t] = "end"
  /\ sent' = IF t = Main /\ data \notin HomeSteps THEN sent \cup {data} ELSE sent
  /\ turn' = [turn EXCEPT ![t] = @ + 1]
  /\ GoTo(t, "begin")
  /\ UNCHANGED <<syncVars, data, counter, off, passes, mine, cells>>

\* finish() and the barrier at the end of the parallel section.
Finish(t) == turn[t] = Steps /\ Sync(t, "begin", "done")

ThreadStep(t) ==
  \/ t = Main /\ (Publish \/ ResetCounter)
  \/ SkipPublish(t) \/ Gate(t)
  \/ Draw(t) \/ SearchBlock(t) \/ CopyShare(t) \/ OmpForEnd(t)
  \/ CopyClose(t) \/ Close(t) \/ AddCount(t) \/ EndStep(t) \/ Finish(t)

BmpNext == \E t \in Thread : ThreadStep(t)

BmpSpec == BmpInit /\ [][BmpNext]_bmpVars

\* Every thread runs on a processor of its own.
FairBmpSpec == BmpSpec /\ \A t \in Thread : WF_bmpVars(ThreadStep(t))
-----------------------------------------------------------------------------
(* Properties *)

Working == {"draw", "block", "copy", "copied"}

\* The description of the slice and the counter are plain shared variables
\* that the main thread overwrites: it never does while a thread works on the
\* slice they describe. The one access behind the work, the look-up of the
\* index to count at, may find the slice of the next step, but no later one.
SliceStable ==
  /\ \A t \in Thread : at[t] \in Working => data = turn[t]
  /\ at[Main] = "reset" => \A t \in Thread : at[t] \notin Working
  /\ \A t \in Thread : at[t] = "add" => data \in {turn[t], turn[t] + 1}

\* What is found in a block of a searched slice is counted once, under the
\* index of that slice, before the last thread leaves the step: although a slow
\* thread looks the index up when the description is the next slice's.
FindsCounted ==
  \A s \in Step \ HomeSteps : \A b \in Block :
    /\ cells[s][b] \in {<<>>, <<RoutedCount(s)>>}
    /\ (\A t \in Thread : turn[t] > s) => cells[s][b] # <<>>

\* A slice that is passed on was searched in every block, once, by then and for
\* good; a step that all threads have left behind was passed on if it was a
\* search step, and copied completely if not.
StepsComplete ==
  /\ \A s \in sent : \A b \in Block : passes[s][b] = 1
  /\ \A s \in Step : (\A t \in Thread : turn[t] > s) =>
       /\ s \in sent <=> s \notin HomeSteps
       /\ \A b \in Block : passes[s][b] = 1

\* The level ends on every thread: all threads take the same branches around
\* the barriers, and no call of a barrier fails to return.
AllDone == <>(\A t \in Thread : at[t] = "done")
=============================================================================
