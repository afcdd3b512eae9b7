----------------------------- MODULE HybridBFS -----------------------------
(***************************************************************************)
(* BfsBase::run_bfs: a level-synchronous breadth-first search on a graph   *)
(* that is partitioned in two dimensions over the ranks of an R x C grid.  *)
(* A level is searched top-down (the frontier sends its edges to the       *)
(* owners of the targets) or bottom-up (bitmaps of unvisited vertices      *)
(* travel along the processor row and look for a visited neighbour).       *)
(*                                                                         *)
(* Vertex v belongs to rank <<v % R, (v / R) % C>>; the edge <<a, b>>,     *)
(* stored in both directions, belongs to rank <<row of a, column of b>>.   *)
(* The slices that the ranks keep of a distributed bitmap or queue are     *)
(* disjoint, so one set stands for all of them; a set per rank is kept     *)
(* where ranks hold copies (shared_visited_, cq_list_).                    *)
(***************************************************************************)
EXTENDS Direction, FiniteSets

CONSTANTS
  NumVerts,    \* vertices are 0 .. NumVerts - 1
  R, C,        \* mpi.size_2dr, mpi.size_2dc
  Graphs,      \* the edge sets to search
  NumRoots,    \* searches in a row (num_bfs_roots)
  Junk,        \* what memory used for something else reads as, as a bitmap
  None         \* pred_ == -1

Vertex == 0 .. NumVerts - 1
Row    == 0 .. R - 1
Col    == 0 .. C - 1
Rank   == Row \X Col

IsGraph(G) ==
  /\ G \subseteq Vertex \X Vertex
  /\ \A e \in G : e[1] # e[2] /\ <<e[2], e[1]>> \in G

ASSUME HybridAssumption ==
  /\ NumVerts \in Nat /\ R \in Nat \ {0} /\ C \in Nat \ {0}
  /\ \A G \in Graphs : IsGraph(G)
  /\ NumRoots \in Nat
  /\ None \notin Vertex

ASSUME JunkAssumption == Junk # {} /\ Junk \subseteq SUBSET Vertex

RowOf(v) == v % R
ColOf(v) == (v \div R) % C
Owner(v) == <<RowOf(v), ColOf(v)>>

VARIABLES
  graph,      \* the partitioned graph, fixed by construct()
  roots,      \* roots searched so far
  phase,      \* "idle", "td" (forward level), "bu" (backward level), "done"
  dir,        \* direction flags of the current level
  level,      \* current_level_
  gnq,        \* global_nq_size_ of the previous level
  visitedCnt, \* global_visited_vertices
  pred,       \* parent field of pred_
  depth,      \* level field of pred_ (bits 48 and up)
  newVis,     \* new_visited_
  oldVis,     \* old_visited_; also the list that a rank gives to its row
  work,       \* work_buf_, the travelling bitmaps; also the memory of cq_list_
  shared,     \* shared_visited_ of each rank
  cq,         \* cq_list_ of each rank
  nq,         \* nq_, the vertices discovered by a forward level
  msgs,       \* <<parent, target>> on its way to the owner of target
  scanned,    \* ranks that extracted the edges of their frontier
  passed,     \* columns that processed the bitmap of each rank
  home,       \* ranks whose bitmap came back
  dirty,      \* packet_buffer_is_dirty_ of each rank
  fold        \* what the fold_packet headers of each rank hold

searchVars == <<pred, depth, newVis, oldVis, work, shared, cq, nq, msgs>>
progVars   == <<scanned, passed, home, dirty, fold>>
vars == <<graph, roots, phase, dir, level, gnq, visitedCnt,
          searchVars, progVars>>

Slice(q)    == {v \in Vertex : Owner(v) = q}
HasEdge(v)  == \E u \in Vertex : <<v, u>> \in graph
Isolated    == {v \in Vertex : ~ HasEdge(v)}
NumGlobalVerts == Cardinality(Vertex \ Isolated)
\* edges <<a, b>> in the CSR of rank q: a is a row, b the adjacent vertex
Stored(q)   == {e \in graph : RowOf(e[1]) = q[1] /\ ColOf(e[2]) = q[2]}
\* Mutant: a rank is left with its own slice only.
RowGatherOwn(S) == [q \in Rank |-> {v \in S : Owner(v) = q}]
\* what an allgather within a processor row, or column, of the grid leaves
RowGather(S) == [q \in Rank |-> {v \in S : RowOf(v) = q[1]}]
ColGather(S) == [q \in Rank |-> {v \in S : ColOf(v) = q[2]}]
-----------------------------------------------------------------------------
Init ==
  /\ graph \in Graphs
  /\ roots = {}
  /\ phase = "idle"
  /\ dir = FirstDirection
  /\ level = 0
  /\ gnq = 0
  /\ visitedCnt = 0
  /\ pred = [v \in Vertex |-> None]
  /\ depth = [v \in Vertex |-> -1]
  /\ newVis \in Junk /\ oldVis \in Junk /\ work \in Junk
  /\ nq = {} /\ msgs = {}
  /\ shared = [q \in Rank |-> {}]
  /\ cq = [q \in Rank |-> {}]
  /\ scanned = {} /\ home = {}
  /\ passed = [q \in Rank |-> {}]
  /\ dirty = [q \in Rank |-> TRUE]
  /\ fold = [q \in Rank |-> "stale"]

\* Mutant: the parents are initialized only once, before the first search.
StartOnParents(root) ==
  /\ phase \in {"idle", "done"}
  /\ Cardinality(roots) < NumRoots
  /\ root \notin roots /\ HasEdge(root)
  /\ roots' = roots \cup {root}
  /\ phase' = "td"
  /\ dir' = FirstDirection
  /\ level' = 1
  /\ gnq' = 0
  /\ visitedCnt' = 1
  /\ pred' = [pred EXCEPT ![root] = root]
  /\ depth' = [depth EXCEPT ![root] = 0]
  /\ newVis' = Isolated \cup {root}
  /\ shared' = [q \in Rank |-> {}]
  /\ cq' = RowGather({root}) /\ work' \in Junk
  /\ nq' = {} /\ msgs' = {} /\ scanned' = {} /\ home' = {}
  /\ passed' = [q \in Rank |-> {}]
  /\ UNCHANGED <<graph, oldVis, dirty, fold>>

\* initialize_memory and first_expand: forget the previous search, mark the
\* isolated vertices and the root visited, give the root to its row.
StartBfs(root) ==
  /\ phase \in {"idle", "done"}
  /\ Cardinality(roots) < NumRoots
  /\ root \notin roots /\ HasEdge(root)
  /\ roots' = roots \cup {root}
  /\ phase' = "td"
  /\ dir' = FirstDirection
  /\ level' = 1
  /\ gnq' = 0
  /\ visitedCnt' = 1
  /\ pred' = [v \in Vertex |-> IF v = root THEN root ELSE None]
  /\ depth' = [v \in Vertex |-> IF v = root THEN 0 ELSE -1]
  /\ newVis' = Isolated \cup {root}
  /\ shared' = [q \in Rank |-> {}]
  /\ cq' = RowGather({root}) /\ work' \in Junk
  /\ nq' = {} /\ msgs' = {} /\ scanned' = {} /\ home' = {}
  /\ passed' = [q \in Rank |-> {}]
  /\ UNCHANGED <<graph, oldVis, dirty, fold>>

-----------------------------------------------------------------------------
\* The current queue of rank q, in the format of this level.
Frontier(q) == IF dir.bitmap THEN shared[q] ELSE cq[q]

\* top_down_parallel_section: rank q cleans its packet headers if they may be
\* dirty and sends every edge of its frontier to the owner of the target.
TopDownScan(q) ==
  /\ phase = "td"
  /\ q \notin scanned
  /\ scanned' = scanned \cup {q}
  /\ msgs' = msgs \cup {e \in Stored(q) : e[1] \in Frontier(q)}
  /\ fold' = [fold EXCEPT ![q] = IF dirty[q] THEN "clean" ELSE @]
  /\ dirty' = [dirty EXCEPT ![q] = FALSE]
  /\ UNCHANGED <<graph, roots, phase, dir, level, gnq, visitedCnt, pred, depth,
                 newVis, oldVis, work, shared, cq, nq, passed, home>>

\* Mutant: the visited bitmap is trusted after the bottom-up phase too.
UndiscoveredByBitmap(v) == v \notin newVis

\* The first discovery wins: by fetch-and-or on the visited bitmap while the
\* frontier grows, by compare-and-swap on pred_ once the bitmap is stale.
Undiscovered(v) == IF dir.growing THEN v \notin newVis ELSE pred[v] = None

\* top_down_receive and top_down_row_receive, for one edge; the all-to-all
\* of a processor column completes when all its ranks have joined it.
TopDownReceive(m) ==
  LET v == m[2] IN
  /\ phase = "td"
  /\ \A q \in Rank : q[2] = ColOf(v) => q \in scanned
  /\ msgs' = msgs \ {m}
  /\ IF Undiscovered(v)
       THEN /\ pred' = [pred EXCEPT ![v] = m[1]]
            /\ depth' = [depth EXCEPT ![v] = level]
            /\ nq' = nq \cup {v}
            /\ newVis' = IF dir.growing THEN newVis \cup {v} ELSE newVis
       ELSE UNCHANGED <<pred, depth, nq, newVis>>
  /\ UNCHANGED <<graph, roots, phase, dir, level, gnq, visitedCnt, oldVis, work,
                 shared, cq, progVars>>

-----------------------------------------------------------------------------
\* Mutant: parents are looked up in the bitmap that the level is updating.
CandidatesLive(v, q) == {u \in work : <<v, u>> \in Stored(q)}

\* Neighbours of v that rank q stores and believes to be visited.
Candidates(v, q) == {u \in shared[q] : <<v, u>> \in Stored(q)}

\* bottom_up_search_bitmap_process_step: the ranks of the processor row
\* handle the bitmap of rank q one after the other, its owner first. Every
\* unvisited vertex with a visited neighbour stored here takes one of them.
BottomUpStep(q, d) ==
  LET here  == <<q[1], d>>
      found == {v \in Slice(q) \ work : Candidates(v, here) # {}}
  IN
  /\ phase = "bu"
  /\ d \notin passed[q]
  /\ passed[q] = {} => d = q[2]
  /\ \E parent \in [found -> Vertex] :
       /\ \A v \in found : parent[v] \in Candidates(v, here)
       /\ msgs' = msgs \cup {<<parent[v], v>> : v \in found}
  /\ work' = work \cup found
  /\ passed' = [passed EXCEPT ![q] = @ \cup {d}]
  /\ fold' = [fold EXCEPT ![here] = "stale"]
  /\ UNCHANGED <<graph, roots, phase, dir, level, gnq, visitedCnt, pred, depth,
                 newVis, oldVis, shared, cq, nq, scanned, home, dirty>>

\* Mutant: the owner waits for one hop more than the row has columns.
BitmapHomeLate(q) ==
  /\ phase = "bu"
  /\ passed[q] = Col \cup {C}
  /\ q \notin home
  /\ home' = home \cup {q}
  /\ newVis' = (newVis \ Slice(q)) \cup (work \cap Slice(q))
  /\ UNCHANGED <<graph, roots, phase, dir, level, gnq, visitedCnt, pred, depth,
                 oldVis, work, shared, cq, nq, msgs, scanned, passed, dirty,
                 fold>>

\* The bitmap of rank q went round its row and is copied into new_visited_.
BitmapHome(q) ==
  /\ phase = "bu"
  /\ passed[q] = Col
  /\ q \notin home
  /\ home' = home \cup {q}
  /\ newVis' = (newVis \ Slice(q)) \cup (work \cap Slice(q))
  /\ UNCHANGED <<graph, roots, phase, dir, level, gnq, visitedCnt, pred, depth,
                 oldVis, work, shared, cq, nq, msgs, scanned, passed, dirty,
                 fold>>

\* BottomUpReceiver: the owner stores the parent without looking at pred_.
BottomUpReceive(m) ==
  /\ phase = "bu"
  /\ \A q \in Rank : q[1] = RowOf(m[2]) => q \in home
  /\ msgs' = msgs \ {m}
  /\ pred' = [pred EXCEPT ![m[2]] = m[1]]
  /\ depth' = [depth EXCEPT ![m[2]] = level]
  /\ UNCHANGED <<graph, roots, phase, dir, level, gnq, visitedCnt, newVis,
                 oldVis, work, shared, cq, nq, progVars>>
-----------------------------------------------------------------------------
\* Mutant: the switch to bottom-up forgets that packet headers go stale.
PacketsDirtyNever(q, d) == dirty[q]

\* packet_buffer_is_dirty_ is raised by the switch to the bottom-up search,
\* which uses the memory of fold_packet for its own output.
PacketsDirty(q, d) == dirty[q] \/ (dir.forward /\ ~ d.forward)

\* top_down_expand: the list is written to the memory of old_visited_ and
\* received by the row in that of the travelling bitmaps.
TopDownExpand(found) ==
  /\ cq' = RowGather(found)
  /\ oldVis' \in Junk /\ work' \in Junk
  /\ UNCHANGED <<newVis, shared>>

\* NQBitmapCombiner, with or without the list that is made of it.
NQBitmap == newVis \ oldVis

\* bottom_up_switch_expand: the frontier is what this level added; as a bitmap
\* it replaces the visited bitmap, as a list it goes through visited_buffer_.
BottomUpSwitchExpand(bitmap) ==
  /\ UNCHANGED oldVis
  /\ \/ /\ bitmap
        /\ newVis' = NQBitmap
        /\ shared' = RowGather(newVis')
        /\ UNCHANGED <<work, cq>>
     \/ /\ ~ bitmap
        /\ cq' = RowGather(NQBitmap) /\ work' \in Junk
        /\ UNCHANGED <<newVis, shared>>

\* swap_visited_memory: the visited bitmap is copied to where it travels, over
\* the current queue, and kept as the old one; the new one is whatever the
\* other memory holds until the travelling bitmaps come home.
SwapVisitedMemory ==
  /\ work' = newVis /\ oldVis' = newVis /\ newVis' = oldVis
  /\ cq' \in [Rank -> Junk]

\* Sets up the next level, searched in direction d, with the frontier found.
\* Before a backward level the column gathers the visited bitmap, in
\* top_down_switch_expand as in bottom_up_expand.
Expand(d, found) ==
  /\ dir' = d
  /\ level' = level + 1
  /\ phase' = IF d.forward THEN "td" ELSE "bu"
  /\ dirty' = [q \in Rank |-> PacketsDirty(q, d)]
  /\ \/ dir.forward /\ d.forward /\ TopDownExpand(found)
     \/ ~ dir.forward /\ d.forward /\ BottomUpSwitchExpand(d.bitmap)
     \/ ~ d.forward /\ shared' = ColGather(newVis) /\ SwapVisitedMemory
  /\ nq' = {} /\ scanned' = {} /\ home' = {}
  /\ passed' = [q \in Rank |-> {}]
  /\ UNCHANGED <<graph, roots, pred, depth, msgs, fold>>

\* What follows the reductions at the end of a level: count, stop on an empty
\* frontier, or choose the direction of the next level and set it up.
FinishLevel(found, nqSize) ==
  LET n     == Cardinality(found)
      total == visitedCnt + n
  IN
  /\ gnq' = n
  /\ visitedCnt' = total
  /\ IF n = 0
       THEN /\ phase' = "done"
            /\ UNCHANGED <<graph, roots, dir, level, searchVars, progVars>>
       ELSE Expand(NextDirection(dir, n, gnq, total, NumGlobalVerts, nqSize),
                   found)

EndTopDown ==
  /\ phase = "td"
  /\ scanned = Rank /\ msgs = {}
  /\ FinishLevel(nq, [q \in Rank |-> Cardinality(nq \cap Slice(q))])

\* bottom_up_gather_nq_size: the hop count of the bitmaps is never advanced,
\* so the reduce-scatter gives the whole row's count to its first rank.
BottomUpNqSize(found) ==
  [q \in Rank |-> IF q[2] = 0 THEN Cardinality({v \in found : RowOf(v) = q[1]})
                              ELSE 0]

\* Mutant: the count of the level includes what was visited before it.
EndBottomUpAll ==
  /\ phase = "bu"
  /\ home = Rank /\ msgs = {}
  /\ FinishLevel(newVis, BottomUpNqSize(newVis))

EndBottomUp ==
  /\ phase = "bu"
  /\ home = Rank /\ msgs = {}
  /\ FinishLevel(newVis \ oldVis, BottomUpNqSize(newVis \ oldVis))

Next ==
  \/ \E root \in Vertex : StartBfs(root)
  \/ \E q \in Rank : TopDownScan(q)
  \/ \E m \in msgs : TopDownReceive(m)
  \/ \E q \in Rank, d \in Col : BottomUpStep(q, d)
  \/ \E q \in Rank : BitmapHome(q)
  \/ \E m \in msgs : BottomUpReceive(m)
  \/ EndTopDown
  \/ EndBottomUp

Spec == Init /\ [][Next]_vars

\* Every rank keeps running its part of the level and MPI delivers.
FairSpec == Spec /\ WF_vars(Next)

-----------------------------------------------------------------------------
(* Properties *)

\* Type invariant of run_bfs's state.
TypeOK ==
  /\ graph \in Graphs
  /\ roots \subseteq Vertex
  /\ phase \in {"idle", "td", "bu", "done"}
  /\ dir \in DirType
  /\ level \in Nat /\ gnq \in Nat /\ visitedCnt \in Nat
  /\ pred \in [Vertex -> Vertex \cup {None}]
  /\ depth \in [Vertex -> Nat \cup {-1}]
  /\ newVis \subseteq Vertex /\ oldVis \subseteq Vertex
  /\ work \subseteq Vertex /\ nq \subseteq Vertex
  /\ msgs \subseteq Vertex \X Vertex
  /\ shared \in [Rank -> SUBSET Vertex]
  /\ cq \in [Rank -> SUBSET Vertex]
  /\ scanned \subseteq Rank /\ home \subseteq Rank
  /\ passed \in [Rank -> SUBSET Col]
  /\ dirty \in [Rank -> BOOLEAN]
  /\ fold \in [Rank -> {"clean", "stale"}]

\* pred_ always holds a tree of the graph rooted at the root, in which every
\* parent lies one level above its child: although the bottom-up search takes
\* any visited neighbour as parent, and although the top-down search after a
\* bottom-up phase works with a stale visited bitmap.
TreeOK ==
  \A v \in Vertex : pred[v] # None =>
    \/ pred[v] = v /\ depth[v] = 0 /\ v \in roots
    \/ /\ <<pred[v], v>> \in graph
       /\ pred[pred[v]] # None
       /\ depth[v] = depth[pred[v]] + 1

\* The inductive invariant behind TreeOK and PredWrittenOnce, in parts. The
\* level number of a vertex is known with its parent and never ahead of the
\* search.
Known(v) == depth[v] >= 0
Searching == phase \in {"td", "bu"}
DepthOK ==
  /\ \A v \in Vertex : pred[v] = None <=> depth[v] = -1
  /\ Searching => level >= 1 /\ \A v \in Vertex : depth[v] <= level

\* What a bottom-up level relies on when it takes any visited neighbour: the
\* neighbours of all but the last complete level are known.
LevelsClosed ==
  Searching => \A e \in graph : Known(e[1]) /\ depth[e[1]] < level - 1
                                  => Known(e[2]) /\ depth[e[2]] < level

\* The flags go with the phase.
DirOK ==
  /\ phase = "td" => dir.forward
  /\ phase = "bu" => ~ dir.forward /\ dir.growing

\* A forward level: the frontier is the last level, gathered by rows; what the
\* scanned ranks stored of its edges is on the way or has arrived.
ForwardOK ==
  phase = "td" =>
    /\ \A q \in Rank : Frontier(q) = {v \in Vertex : depth[v] = level - 1 /\ RowOf(v) = q[1]}
    /\ nq = {v \in Vertex : depth[v] = level}
    /\ dir.growing => newVis = Isolated \cup {v \in Vertex : Known(v)}
    /\ \A m \in msgs : m \in graph /\ depth[m[1]] = level - 1
    /\ \A q \in scanned : \A e \in Stored(q) :
         depth[e[1]] = level - 1 => e \in msgs \/ Known(e[2])

\* A backward level: the snapshot is what was visited before the level, each
\* bit set since then stands for a vertex whose parent is on the way or has
\* arrived, and a rank that a bitmap has passed had nothing for its zeros.
BackwardOK ==
  phase = "bu" =>
    /\ oldVis = Isolated \cup {v \in Vertex : Known(v) /\ depth[v] < level}
    /\ shared = ColGather(oldVis)
    /\ oldVis \subseteq work
    /\ \A v \in Vertex : v \in work \ oldVis <=> depth[v] = level \/ \E m \in msgs : m[2] = v
    /\ \A m \in msgs : m \in graph /\ depth[m[1]] = level - 1 /\ ~ Known(m[2])
    /\ \A m, n \in msgs : m[2] = n[2] => m = n
    /\ \A q \in Rank : \A d \in passed[q] : \A v \in Slice(q) \ work :
         Candidates(v, <<q[1], d>>) = {}
    /\ \A q \in home : passed[q] = Col /\ newVis \cap Slice(q) = work \cap Slice(q)

IInv == TypeOK /\ TreeOK /\ DepthOK /\ LevelsClosed /\ DirOK /\ ForwardOK /\ BackwardOK

\* A vertex gets its parent once in a search. The receiving side asserts
\* pred[tgt] == -1 in the growing top-down search and in the bottom-up search.
PredWrittenOnce ==
  [][\A v \in Vertex : pred[v] # None /\ roots' = roots
        => pred'[v] = pred[v] /\ depth'[v] = depth[v]]_vars

\* No rank appends edges behind packet headers that a bottom-up search
\* overwrote: the memory of fold_packet is shared by the two searches.
PacketsClean ==
  phase = "td" => \A q \in scanned : fold[q] = "clean"

\* global_visited_vertices, on which the switch back depends, counts exactly
\* the vertices of the completed levels.
VisitedCount ==
  phase # "idle" =>
    visitedCnt = Cardinality({v \in Vertex : depth[v] >= 0
                                /\ (phase = "done" \/ depth[v] < level)})

\* Once the search is back to top-down it stays there: the visited bitmap was
\* overwritten by the frontier, so a bottom-up level could not be run.
NoReturn ==
  [][roots' = roots /\ ~ dir.growing => ~ dir'.growing /\ phase' # "bu"]_vars

\* The levels that are complete, seen as the abstract search: a search on
\* ranks with direction switches discovers exactly the levels of the graph.
Complete(v) == depth[v] < level
Abs == INSTANCE LevelBFS WITH
         parent <- [v \in Vertex |-> IF Complete(v) THEN pred[v] ELSE None],
         dist   <- [v \in Vertex |-> IF Complete(v) THEN depth[v] ELSE -1],
         last   <- level - 1,
         active <- phase \in {"td", "bu"}
LevelByLevel == Abs!Spec

\* Every search ends.
Terminates == phase \in {"td", "bu"} ~> phase = "done"
=============================================================================
