----------------------------- MODULE Validator -----------------------------
(***************************************************************************)
(* BfsValidation::validate: the ranks check a parent array with depths     *)
(* against the edge list, in steps that are separated by collective        *)
(* operations: sums of the error counts over all ranks, and exchanges of   *)
(* vertices within a processor row or column for every chunk of edges.     *)
(*                                                                         *)
(* What a rank computes between two collective operations concerns only    *)
(* its own part, so a step of this module is one collective operation with *)
(* what its members do before they reach the next. A rank that does not    *)
(* reach it keeps the others waiting. A rank that returned FALSE leaves    *)
(* the loop over the roots in graph500_bfs and never comes back.           *)
(***************************************************************************)
EXTENDS Integers, Sequences, FiniteSets, SequencesExt

CONSTANTS
  NumVerts,   \* nglobalverts: vertices are 0 .. NumVerts - 1
  R, C,       \* mpi.size_2dr, mpi.size_2dc
  Chunk,      \* CHUNK_SIZE of the edge list
  EdgeLists,  \* edge lists to validate against, as redistributed to the ranks
  Results,    \* parent arrays with depths to validate
  Root,       \* the root of the search
  IntValues   \* values of an MPI_INT: 2^32

Vertex == 0 .. NumVerts - 1
Size   == R * C
Rank   == 0 .. Size - 1
Max16  == 65535  \* UINT16_MAX, the depth of an unvisited vertex

\* An entry of pred: the parent in the low 48 bits, the depth in the high 16.
Entry == [parent : Int, depth : 0 .. Max16]

ASSUME ValidatorAssumption ==
  /\ NumVerts \in Nat /\ R \in Nat \ {0} /\ C \in Nat \ {0}
  /\ Chunk \in Nat \ {0}
  /\ EdgeLists \subseteq [Rank -> Seq(Vertex \X Vertex)]
  /\ Results \subseteq [Vertex -> Entry]
  \* An entry without a parent is -1 as a whole, as prepare_bfs leaves it: for
  \* any other the code indexes send_counts with the owner of -1.
  /\ \A p \in Results : \A v \in Vertex : p[v].parent = -1 => p[v].depth = Max16
  /\ Root \in Vertex
  /\ IntValues \in Nat \ {0}

VARIABLES
  edges,   \* per rank: its part of the edge list
  pred,    \* the result under validation
  pc,      \* per rank: the collective operation it has entered
  loop,    \* per rank: chunks it has checked
  errors,  \* per rank: error_counts
  valid,   \* pred_valid: vertices whose edge to the parent was seen
  visits,  \* per rank: edge_visit_count
  verdict  \* per rank: what validate returned

vars == <<edges, pred, pc, loop, errors, valid, visits, verdict>>

Owner(v)    == v % Size
RowOf(r)    == {s \in Rank : s % R = r % R}
ColumnOf(r) == {s \in Rank : s \div R = r \div R}
LocalVerts(r) == {v \in Vertex : Owner(v) = r}
\* beginRead: the chunks of the rank with most edges
Longest  == CHOOSE n \in {Len(edges[r]) : r \in Rank} :
              \A r \in Rank : Len(edges[r]) <= n
NumLoops == (Longest + Chunk - 1) \div Chunk
ChunkIndices(r) == {i \in DOMAIN edges[r] : (i - 1) \div Chunk = loop[r]}

Parent(v)  == pred[v].parent
Depth(v)   == pred[v].depth
Reached(v) == Depth(v) # Max16
-----------------------------------------------------------------------------
\* The errors that a rank counts in the entries it owns: check_value_ranges,
RangeErrors(r) == Cardinality({v \in LocalVerts(r) : Parent(v) \notin -1 .. NumVerts - 1})
\* those of the root and of vertices that are their own parents,
RootMoved(r)    == Owner(Root) = r /\ Parent(Root) # Root
ParentErrors(r) == (IF RootMoved(r) THEN 1 ELSE 0)
                     + Cardinality({v \in LocalVerts(r) \ {Root} : Parent(v) = v})
\* check_bfs_depth_map_using_predecessors, with the entries of the parents
\* gathered from their owners,
DepthErrors(r) ==
  LET Child == {v \in LocalVerts(r) \ {Root} : Parent(v) # -1}
  IN (IF Owner(Root) = r /\ Depth(Root) # 0 THEN 1 ELSE 0)
       + Cardinality({v \in LocalVerts(r) : (Parent(v) = -1) # (Depth(v) = Max16)})
       + Cardinality({v \in Child : Depth(Parent(v)) = Max16})
       + Cardinality({v \in Child : Depth(v) # Depth(Parent(v)) + 1})
\* and the vertices whose edge to the parent nobody has seen.
TreeErrors(r) ==
  Cardinality({v \in LocalVerts(r) \ {Root} : Parent(v) # -1 /\ v \notin valid})

\* Mutant: an edge that leaves the tree is let through.
EdgeErrorInside(e) ==
  Reached(e[1]) /\ Reached(e[2]) /\ Depth(e[1]) - Depth(e[2]) \notin -1 .. 1
EdgeError(e) ==
  \/ Reached(e[1]) # Reached(e[2])
  \/ Depth(e[1]) - Depth(e[2]) \notin -1 .. 1

\* The sum of the counts of all ranks.
Total(e) ==
  LET sum[k \in 0 .. Size] == IF k = 0 THEN 0 ELSE sum[k - 1] + e[k - 1] IN sum[Size]
\* Mutant: the errors of the others are not added.
FailingOwn(e) == {r \in Rank : e[r] # 0}
\* The ranks whose error_counts is not 0 after MPI_Allreduce in place, which
\* takes the 64 bit counts for MPI_INT: their low halves are added without a
\* carry, and every rank keeps the high half of its own.
Failing(e) ==
  IF Total([r \in Rank |-> e[r] % IntValues]) % IntValues # 0
  THEN Rank ELSE {r \in Rank : e[r] >= IntValues}

Init ==
  /\ edges \in EdgeLists /\ pred \in Results
  /\ pc = [r \in Rank |-> "ranges"]
  /\ loop = [r \in Rank |-> 0]
  /\ errors = [r \in Rank |-> RangeErrors(r)]
  /\ valid = {}
  /\ visits = [r \in Rank |-> 0]
  /\ verdict = [r \in Rank |-> "none"]

AllAt(G, place) == \A r \in G : pc[r] = place
\* The ranks in Out return FALSE, the others go on to the next operation.
GoOn(Out, next) ==
  /\ pc' = [r \in Rank |-> IF r \in Out THEN "returned" ELSE next]
  /\ verdict' = [r \in Rank |-> IF r \in Out THEN "false" ELSE "none"]

\* Mutant: so does a rank that finds another vertex to be its own parent.
LeavesEarlyOnAny(r) == ParentErrors(r) # 0
\* "if (error_counts) return false" without a sum over the ranks before it
LeavesEarly(r) == RootMoved(r)

\* Allreduce #1. Then the owner of the root checks its parent and returns at
\* once if it is wrong; the others check their own vertices and go on to #2.
SumRanges ==
  /\ AllAt(Rank, "ranges")
  /\ GoOn(Failing(errors) \cup {r \in Rank : LeavesEarly(r)}, "parents")
  /\ errors' = [r \in Rank |-> ParentErrors(r)]
  /\ UNCHANGED <<edges, pred, loop, valid, visits>>

\* Allreduce #2, then the gather of the parents' entries.
SumParents ==
  /\ AllAt(Rank, "parents")
  /\ GoOn(Failing(errors), "depths")
  /\ errors' = [r \in Rank |-> DepthErrors(r)]
  /\ UNCHANGED <<edges, pred, loop, valid, visits>>

\* A rank reads another chunk unless it has found an error itself.
AtLoopHead(k, e) == IF k < NumLoops /\ e = 0 THEN "ask row" ELSE "visits"

\* Allreduce #3
SumDepths ==
  /\ AllAt(Rank, "depths")
  /\ GoOn(Failing(errors), AtLoopHead(0, 0))
  /\ errors' = [r \in Rank |-> 0]
  /\ UNCHANGED <<edges, pred, loop, valid, visits>>

\* The exchanges of one chunk: the ends of the edges are sent to their owners
\* in the processor row (first ends) and column (second ends), and their
\* entries come back.
Ask(r) ==
  \/ /\ AllAt(RowOf(r), "ask row")
     /\ pc' = [s \in Rank |-> IF s \in RowOf(r) THEN "ask column" ELSE pc[s]]
     /\ UNCHANGED <<edges, pred, loop, errors, valid, visits, verdict>>
  \/ /\ AllAt(ColumnOf(r), "ask column")
     /\ pc' = [s \in Rank |-> IF s \in ColumnOf(r) THEN "reply row" ELSE pc[s]]
     /\ UNCHANGED <<edges, pred, loop, errors, valid, visits, verdict>>
  \/ /\ AllAt(RowOf(r), "reply row")
     /\ pc' = [s \in Rank |-> IF s \in RowOf(r) THEN "reply column" ELSE pc[s]]
     /\ UNCHANGED <<edges, pred, loop, errors, valid, visits, verdict>>

\* The replies are complete: the ranks of the column check their edges.
CheckEdges(r) ==
  LET Visited(s)  == {i \in ChunkIndices(s) : ~ EdgeError(edges[s][i])
                                              /\ Reached(edges[s][i][1])}
      Wrong(s)    == {i \in ChunkIndices(s) : EdgeError(edges[s][i])}
      G == ColumnOf(r)
  IN
  /\ AllAt(G, "reply column")
  /\ errors' = [s \in Rank |-> IF s \in G THEN errors[s] + Cardinality(Wrong(s))
                                          ELSE errors[s]]
  /\ visits' = [s \in Rank |-> IF s \in G THEN visits[s] + Cardinality(Visited(s))
                                          ELSE visits[s]]
  /\ pc' = [s \in Rank |-> IF s \in G THEN "mark row" ELSE pc[s]]
  /\ UNCHANGED <<edges, pred, loop, valid, verdict>>

\* Vertices whose tree edge a rank of G holds in its chunk, at end k of it.
\* Mutant: only edges listed from the child to the parent count.
MarkedFirst(G, k) ==
  UNION {{edges[s][i][1] : i \in {i \in ChunkIndices(s) :
            Parent(edges[s][i][1]) = edges[s][i][2]}} : s \in G}
Marked(G, k) ==
  UNION {{edges[s][i][k] : i \in {i \in ChunkIndices(s) :
            Parent(edges[s][i][k]) = edges[s][i][3 - k]}} : s \in G}

MarkRow(r) ==
  /\ AllAt(RowOf(r), "mark row")
  /\ valid' = valid \cup Marked(RowOf(r), 1)
  /\ pc' = [s \in Rank |-> IF s \in RowOf(r) THEN "mark column" ELSE pc[s]]
  /\ UNCHANGED <<edges, pred, loop, errors, visits, verdict>>

MarkColumn(r) ==
  LET G == ColumnOf(r) IN
  /\ AllAt(G, "mark column")
  /\ valid' = valid \cup Marked(G, 2)
  /\ loop' = [s \in Rank |-> IF s \in G THEN loop[s] + 1 ELSE loop[s]]
  /\ pc' = [s \in Rank |-> IF s \in G THEN AtLoopHead(loop[s] + 1, errors[s])
                                      ELSE pc[s]]
  /\ UNCHANGED <<edges, pred, errors, visits, verdict>>

\* The ranks look for their vertices without a tree edge; then the sum of the
\* visited edges and Allreduce #4.
Collect ==
  /\ AllAt(Rank, "visits")
  /\ errors' = [r \in Rank |-> errors[r] + TreeErrors(r)]
  /\ LET Out == Failing(errors')
     IN verdict' = [r \in Rank |-> IF r \in Out THEN "false" ELSE "true"]
  /\ visits' = [r \in Rank |-> SumFunction(visits)]
  /\ pc' = [r \in Rank |-> "returned"]
  /\ UNCHANGED <<edges, pred, loop, valid>>

Next ==
  \/ SumRanges \/ SumParents \/ SumDepths
  \/ \E r \in Rank : Ask(r) \/ CheckEdges(r) \/ MarkRow(r) \/ MarkColumn(r)
  \/ Collect

Spec == Init /\ [][Next]_vars
FairSpec == Spec /\ WF_vars(Next)
-----------------------------------------------------------------------------
\* The breadth-first search of the edge list, taken as a graph.
Joins == UNION {{<<e[1], e[2]>>, <<e[2], e[1]>>} :
                  e \in UNION {ToSet(edges[r]) : r \in Rank}}
\* the vertices at distance k or less from the root
Within(J) == LET w[k \in 0 .. NumVerts] ==
                   IF k = 0 THEN {Root}
                   ELSE LET near == w[k - 1]
                        IN near \cup {e[2] : e \in {e \in J : e[1] \in near}}
             IN w
\* pred holds shortest distances and, in a tree of the graph, the parents.
IsSearch ==
  LET J == Joins
      W == Within(J)
  IN \A v \in Vertex :
       IF v \in W[NumVerts]
       THEN /\ Depth(v) \in 0 .. NumVerts /\ v \in W[Depth(v)]
            /\ Depth(v) > 0 => v \notin W[Depth(v) - 1]
            /\ IF v = Root THEN Parent(v) = v
               ELSE <<Parent(v), v>> \in J /\ Depth(v) = Depth(Parent(v)) + 1
       ELSE Parent(v) = -1 /\ Depth(v) = Max16

\* edges of the component of the root, duplicates and self-loops included
TraversedEdges ==
  LET K == Within(Joins)[NumVerts]
  IN SumFunction([r \in Rank |-> Cardinality({i \in DOMAIN edges[r] : edges[r][i][1] \in K})])

\* A rank returns TRUE only for the parents and distances of a breadth-first
\* search of the listed edges, and then with the number of listed edges in the
\* component of the root, duplicates and self-loops included.
AcceptedIsSearch ==
  \A r \in Rank : verdict[r] = "true" => IsSearch /\ visits[r] = TraversedEdges

\* Ranks that return from the validation return the same.
SameVerdict ==
  \A r, s \in Rank : verdict[r] = "none" \/ verdict[s] = "none"
                     \/ verdict[r] = verdict[s]

\* The result of a breadth-first search is accepted by every rank.
SearchIsAccepted == IsSearch => <>(\A r \in Rank : verdict[r] = "true")

\* A wrong result is rejected on every rank, if the root is its own parent and
\* the edges of every rank fit into one chunk.
OneChunkAnswers ==
  Parent(Root) = Root /\ NumLoops <= 1 => <>(\A r \in Rank : verdict[r] # "none")

\* "Returns true if result is valid" (validate.hpp:502), and "Collect the
\* global validation result": the validation returns on every rank.
AlwaysAnswers == <>(\A r \in Rank : verdict[r] # "none")
=============================================================================
