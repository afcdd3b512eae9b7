----------------------------- MODULE Construct -----------------------------
(***************************************************************************)
(* GraphConstructor2DCSR: the ranks build their rows of the adjacency      *)
(* matrix from the distributed edge list. A first pass counts the degrees  *)
(* at the owners of the vertices, which choose the order of their          *)
(* vertices, lay out the rows for the ranks that will store them and send  *)
(* them the layout. A second pass stores the edges at these ranks, with    *)
(* vertex numbers converted by their owners. Then every rank sorts, merges *)
(* and compresses what it has.                                             *)
(*                                                                         *)
(* What a rank computes between two collective operations concerns only    *)
(* its own part, so a step is one collective operation with what its       *)
(* members do before they reach the next. A number packed from two parts   *)
(* (SeparatedId) is a pair or a record here, a bitmap with its prefix sums *)
(* the set of its bits, and the rank of a bit its number in that set.      *)
(***************************************************************************)
EXTENDS Integers, Sequences, FiniteSets, SequencesExt

CONSTANTS
  R, C,         \* mpi.size_2dr, mpi.size_2dc
  Chunk,        \* CHUNK_SIZE of the edge list
  Part,         \* EDGE_PART_SIZE: source vertices of a wide row
  Unit,         \* 1 << log_local_verts_unit_, EDGE_PART_SIZE or more
  Reorderings,  \* values of VERTEX_REORDERING
  EdgeLists(_)  \* edge lists to build from, one sequence per rank

Size == R * C
Rank == 0 .. Size - 1

ASSUME ConstructAssumption ==
  /\ R \in Nat \ {0} /\ C \in Nat \ {0} /\ Chunk \in Nat \ {0}
  /\ Part \in Nat \ {0} /\ Unit \in Nat \ {0} /\ Unit % Part = 0
  /\ Reorderings \subseteq 0 .. 2

RoundUp(n, u) == ((n + u - 1) \div u) * u
Power[b \in Nat] == IF b = 0 THEN 1 ELSE 2 * Power[b - 1]
\* get_msb_index(n) + 1
BitsOf(n) == CHOOSE b \in 0 .. n : n < Power[b] /\ \A a \in 0 .. b - 1 : Power[a] <= n

\* With too few vertices for the ranks the construction gives up ("BLOCK_SIZE
\* is too large"): some edge has a vertex for every rank below its power of two.
ASSUME EdgeListsAssumption ==
  \A k \in Reorderings : \A list \in EdgeLists(k) :
    /\ list \in [Rank -> Seq(Nat \X Nat)]
    /\ \E r \in Rank : \E i \in DOMAIN list[r], d \in {1, 2} :
         Power[BitsOf(list[r][i][d])] >= Size

\* With these numbers of ranks every vertex has a local number below
\* num_orig_local_verts(), although num_global_verts / mpi.size_2d rounds down.
\* A unit is at least 65536 in the code.
RanksFit == Size <= Unit \/ \E k \in 0 .. Size : Size = Power[k]

VARIABLES
  edges,      \* per rank: its part of the edge list
  reordering, \* VERTEX_REORDERING of this build
  place, loop, \* per rank: the collective operation it reaches, chunks done
  numOrig,    \* num_orig_local_verts()
  rows,       \* per rank: dwide_row_data_, edges of its vertices
  vertexes,   \* per rank: vertexes_, later invert_map_
  numLocal,   \* num_local_verts_, a maximum over the ranks
  wide,       \* per rank: wide_row_starts_
  counted,    \* per rank: row_starts_sup_, the copy of wide for debugging
  bitmap,     \* per rank: the rows set in row_bitmap_
  orig,       \* per rank: orig_vertexes_
  recv,       \* per rank: edges received in the current iteration
  array,      \* per rank: src_vertexes_ and edge_array_
  rowStarts,  \* per rank: row_starts_
  isolated,   \* per rank: isolated_edges_
  hasEdge,    \* per rank: the bits of has_edge_bitmap_
  numGlobal   \* num_global_verts_

degreeVars == <<numOrig, rows>>
layoutVars == <<vertexes, numLocal, counted, bitmap, orig>>
csrVars    == <<rowStarts, isolated>>
countVars  == <<hasEdge, numGlobal>>
buildVars == <<edges, reordering, place, loop, degreeVars, layoutVars, wide,
               recv, array, csrVars, countVars>>

OwnerR(v)   == v % R
OwnerC(v)   == (v \div R) % C
Owner(v)    == v % Size
Local(v)    == v \div Size
EdgeOwner(v0, v1) == OwnerR(v0) + OwnerC(v1) * R
Row(r)      == r % R    \* rank_2dr: ranks that share it are in one comm_2dr
Column(r)   == r \div R
Across(r)   == {s \in Rank : Row(s) = Row(r)}     \* comm_2dr
Along(r)    == {s \in Rank : Column(s) = Column(r)}  \* comm_2dc
RankAt(r, c) == c * R + r

\* What a group of ranks has after a collective operation, the others still.
Within(G, new, old) == [r \in Rank |-> IF r \in G THEN new[r] ELSE old[r]]
AllAt(G, p) == \A r \in G : place[r] = p

\* n + 1 offsets of n consecutive areas of lengths len[0 .. n - 1]
Offsets(len, n) ==
  LET off[i \in 0 .. n] == IF i = 0 THEN 0 ELSE off[i - 1] + len[i - 1] IN off
\* where each of n sequences begins when they are put one behind the other, and
\* the result, numbered from 0
Begins(seqs, n) == Offsets([h \in 0 .. n - 1 |-> Len(seqs[h])], n)
Joint(seqs, n) ==
  LET w == Begins(seqs, n) IN
  [p \in 0 .. w[n] - 1 |->
     LET h == CHOOSE h \in 0 .. n - 1 : w[h] <= p /\ p < w[h + 1] IN seqs[h][p - w[h] + 1]]
\* the members of a set of numbers in ascending order
Ascending(S) == [k \in 1 .. Cardinality(S) |->
                   CHOOSE x \in S : Cardinality({y \in S : y < x}) = k - 1]

\* What is sent for edge i of rank s, seen from its end d: both directions, of
\* a self-loop none.
MaxEdges == Max({Len(edges[r]) : r \in Rank})
From(x)  == edges[x[1]][x[2]][x[3]]
To(x)    == edges[x[1]][x[2]][3 - x[3]]
Sends == {x \in Rank \X (1 .. MaxEdges) \X {1, 2} : x[2] <= Len(edges[x[1]]) /\ From(x) # To(x)}
\* the numbers in the edge list
Vertexes == UNION {{edges[r][i][d] : i \in DOMAIN edges[r], d \in {1, 2}} : r \in Rank}
NumLoops == (MaxEdges + Chunk - 1) \div Chunk
\* in the current iteration: from chunk number loop of the sender
SentNow == {x \in Sends : (x[2] - 1) \div Chunk = loop[x[1]]}
-----------------------------------------------------------------------------
BuildInit ==
  /\ reordering \in Reorderings
  /\ edges \in EdgeLists(reordering)
  /\ place = [r \in Rank |-> "max"] /\ loop = [r \in Rank |-> 0]
  /\ numOrig = 0 /\ rows = [r \in Rank |-> {}]
  /\ vertexes = [r \in Rank |-> <<>>] /\ numLocal = 0
  /\ wide = [r \in Rank |-> <<>>] /\ counted = wide
  /\ bitmap = [r \in Rank |-> {}] /\ orig = [r \in Rank |-> <<>>]
  /\ recv = [r \in Rank |-> {}] /\ array = [r \in Rank |-> <<>>]
  /\ rowStarts = [r \in Rank |-> <<>>] /\ isolated = rowStarts
  /\ hasEdge = [r \in Rank |-> {}] /\ numGlobal = 0

\* initializeParameters: the least power of two above the largest number of a
\* vertex, divided among the ranks, and the local numbers of as many bits as the
\* last of them has
OrigLocalVerts(top) == Power[BitsOf(RoundUp(Power[BitsOf(top)] \div Size, Unit) - 1)]

\* searchMaxVertex
SearchMaxVertex ==
  /\ AllAt(Rank, "max")
  /\ numOrig' = OrigLocalVerts(Max(Vertexes))
  /\ place' = [r \in Rank |-> "scan"]
  /\ UNCHANGED <<edges, reordering, loop, rows, layoutVars, wide, recv, array,
                 csrVars, countVars>>

\* Mutant: the edge is counted for the rank of its other direction.
DegreeEntryRow(x) == [id |-> x, v |-> Local(From(x)), c |-> OwnerC(From(x))]
\* "high: v1's c, low: v0's vertex_local"
DegreeEntry(x) == [id |-> x, v |-> Local(From(x)), c |-> OwnerC(To(x))]

\* scatterAndScanEdges: an iteration is one scatter to the owners.
ScanEdges ==
  /\ AllAt(Rank, "scan") /\ \A r \in Rank : loop[r] < NumLoops
  /\ rows' = [r \in Rank |->
       rows[r] \cup {DegreeEntry(x) : x \in {x \in SentNow : Owner(From(x)) = r}}]
  /\ loop' = [r \in Rank |-> loop[r] + 1]
  /\ UNCHANGED <<edges, reordering, place, numOrig, layoutVars, wide, recv, array,
                 csrVars, countVars>>

Locals == 0 .. numOrig - 1
Degree(r) == [v \in Locals |-> Cardinality({e \in rows[r] : e.v = v})]
\* the orders that the sort may produce
IsOrder(f, r) ==
  LET d == Degree(r) IN
  /\ \A i, j \in Locals : f[i] = f[j] => i = j
  /\ \A i, j \in Locals : i < j =>
       CASE reordering = 0 -> f[i] < f[j]
         [] reordering = 1 -> d[f[i]] # 0 \/ d[f[j]] = 0
         [] reordering = 2 -> d[f[i]] >= d[f[j]]
Orders(r) == {f \in [Locals -> Locals] : IsOrder(f, r)}
\* vertices up to the last one with an edge, in units
UsedLocals(r, f) ==
  LET used == {i \in Locals : Degree(r)[f[i]] # 0}
  IN RoundUp(Cardinality({i \in Locals : \E j \in used : i <= j}), Unit)

\* calc_degree: sort, maximum of the ranges in use over all ranks
ChooseOrder ==
  /\ AllAt(Rank, "scan") /\ \A r \in Rank : loop[r] = NumLoops
  /\ vertexes' \in {f \in [Rank -> UNION {Orders(r) : r \in Rank}] :
                      \A r \in Rank : f[r] \in Orders(r)}
  /\ numLocal' = Max({UsedLocals(r, vertexes'[r]) : r \in Rank})
  /\ place' = [r \in Rank |-> "layout"]
  /\ UNCHANGED <<edges, reordering, loop, degreeVars, counted, bitmap, orig,
                 wide, recv, array, csrVars, countVars>>

Reordered(r, v) == CHOOSE i \in Locals : vertexes[r][i] = v  \* reorder_map_
WideRows  == numLocal \div Part  \* local_wide_row_size()
NumWide   == WideRows * C        \* num_wide_rows_
\* The rows of the vertices of rank r that have an edge in processor column c
RowsFor(r, c) == {Reordered(r, e.v) : e \in {e \in rows[r] : e.c = c}}
RowLength(r, c, p) ==
  Cardinality({e \in rows[r] : e.c = c /\ Reordered(r, e.v) \div Part = p})

\* and their original numbers
NamesFor(r, c) == LET order == Ascending(RowsFor(r, c))
                  IN [k \in DOMAIN order |-> vertexes[r][order[k]]]

\* What a rank gets from the ranks of its processor row: the lengths of the
\* wide rows, the bits and the original numbers
Sender(r, c)   == RankAt(Row(r), c)
Lengths(r)     == [h \in 0 .. NumWide - 1 |->
                     RowLength(Sender(r, h \div WideRows), Column(r), h % WideRows)]
WideStarts(r)  == Offsets(Lengths(r), NumWide)
SetRows(r)     == UNION {{c * numLocal + i : i \in RowsFor(Sender(r, c), Column(r))} :
                           c \in 0 .. C - 1}
Names(r)       == Joint([c \in 0 .. C - 1 |-> NamesFor(Sender(r, c), Column(r))], C)
NoEdge == [low |-> 0, r |-> 0, d |-> 0, orig |-> 0]

\* make_construct_data and gather_data
GatherLayout(g) ==
  /\ AllAt(Across(g), "layout")
  /\ wide' = Within(Across(g), [r \in Rank |-> WideStarts(r)], wide)
  /\ counted' = Within(Across(g), [r \in Rank |-> WideStarts(r)], counted)
  /\ bitmap' = Within(Across(g), [r \in Rank |-> SetRows(r)], bitmap)
  /\ orig' = Within(Across(g), [r \in Rank |-> Names(r)], orig)
  /\ array' = Within(Across(g), [r \in Rank |->
                 [p \in 0 .. WideStarts(r)[NumWide] - 1 |-> NoEdge]], array)
  /\ loop' = Within(Across(g), [r \in Rank |-> 0], loop)
  /\ place' = Within(Across(g), [r \in Rank |-> "store"], place)
  /\ UNCHANGED <<edges, reordering, degreeVars, vertexes, numLocal, recv,
                 csrVars, countVars>>
-----------------------------------------------------------------------------
\* scatterAndStore: an iteration is one scatter of the edges to the ranks that
\* store them, and two gathers of the new vertex numbers.
ScatterEdges ==
  /\ AllAt(Rank, "store") /\ \A r \in Rank : loop[r] < NumLoops
  /\ recv' = [r \in Rank |->
       {[id |-> x, c |-> OwnerC(From(x)), src |-> Local(From(x)),
         r |-> OwnerR(To(x)), orig |-> Local(To(x))] :
           x \in {x \in SentNow : EdgeOwner(From(x), To(x)) = r}}]
  /\ place' = [r \in Rank |-> "sources"]
  /\ UNCHANGED <<edges, reordering, loop, degreeVars, layoutVars, wide, array,
                 csrVars, countVars>>

\* SourceConverter: asks the owners of the sources, in the processor row.
ConvertSources(g) ==
  /\ AllAt(Across(g), "sources")
  /\ recv' = Within(Across(g), [r \in Rank |->
       {[e EXCEPT !.src = Reordered(Sender(r, e.c), e.src)] : e \in recv[r]}], recv)
  /\ place' = Within(Across(g), [r \in Rank |-> "targets"], place)
  /\ UNCHANGED <<edges, reordering, loop, degreeVars, layoutVars, wide, array,
                 csrVars, countVars>>

\* addEdges for the received edges: source rows (compact) of wide rows, at the
\* next free positions, in the order of the senders
SourceRow(e) == e.c * numLocal + e.src
High(e) == SourceRow(e) \div Part
Advanced(r) ==
  [h \in 0 .. NumWide |-> wide[r][h] + Cardinality({e \in recv[r] : High(e) = h})]
Earlier(x, y) == \/ x[1] < y[1]
                 \/ x[1] = y[1] /\ x[2] < y[2]
                 \/ x[1] = y[1] /\ x[2] = y[2] /\ x[3] < y[3]
Position(r, e) ==
  wide[r][High(e)] + Cardinality({f \in recv[r] : High(f) = High(e) /\ Earlier(f.id, e.id)})
\* TargetConverter: the new number of a target comes from its owner in the
\* processor column. Mutant: from the rank itself.
TargetNumberOwn(r, e) == Reordered(r, e.orig)
TargetNumber(r, e) == Reordered(RankAt(e.r, Column(r)), e.orig)
StoredEdge(r, e) == [low |-> SourceRow(e) % Part, r |-> e.r,
                     d |-> TargetNumber(r, e), orig |-> e.orig]
Stored(r) ==
  [p \in DOMAIN array[r] |->
     IF \E e \in recv[r] : Position(r, e) = p
     THEN StoredEdge(r, CHOOSE e \in recv[r] : Position(r, e) = p)
     ELSE array[r][p]]

ConvertTargetsAndAdd(g) ==
  /\ AllAt(Along(g), "targets")
  /\ array' = Within(Along(g), [r \in Rank |-> Stored(r)], array)
  /\ wide' = Within(Along(g), [r \in Rank |-> Advanced(r)], wide)
  /\ recv' = Within(Along(g), [r \in Rank |-> {}], recv)
  /\ loop' = Within(Along(g), [r \in Rank |-> loop[r] + 1], loop)
  /\ place' = Within(Along(g), [r \in Rank |-> "store"], place)
  /\ UNCHANGED <<edges, reordering, degreeVars, layoutVars, csrVars, countVars>>
-----------------------------------------------------------------------------
\* "Refreshing edge offset": the advanced offsets are the ends of the rows.
Refreshed(w) == [h \in 0 .. NumWide |-> IF h = 0 THEN 0 ELSE w[h - 1]]

\* sortEdges: a wide row in order of source and target, duplicates merged, and
\* the rows moved together
SortKey(e) == (e.low * R + e.r) * numLocal + e.d
Merged(row) ==
  LET keys == Ascending({SortKey(e) : e \in row})
  IN [k \in DOMAIN keys |-> CHOOSE e \in row : SortKey(e) = keys[k]]
MergedRows(a, w) == [h \in 0 .. NumWide - 1 |-> Merged({a[p] : p \in w[h] .. w[h + 1] - 1})]

\* constructFromWideCSR: the start of the row of every bit, behind the edges of
\* the bits before it in its wide row
RowStarts(bits, a, w) ==
  [k \in 0 .. Cardinality(bits) |->
     IF k = Cardinality(bits) THEN w[NumWide]
     ELSE LET i == Ascending(bits)[k + 1]
              h == i \div Part
          IN w[h] + Cardinality({p \in w[h] .. w[h + 1] - 1 :
                       \E j \in bits : j \div Part = h /\ j < i /\ a[p].low = j % Part})]

\* isolateFirstEdge: the first edges go to an array of their own, and the row
\* k moves by k places.
FirstEdges(s, a, n) == [k \in 0 .. n - 1 |-> a[s[k]]]
OtherEdges(s, a, n) ==
  [q \in 0 .. s[n] - n - 1 |->
     LET k == CHOOSE k \in 0 .. n - 1 : s[k] - k <= q /\ q < s[k + 1] - (k + 1)
     IN a[q + k + 1]]
Shifted(s) == [k \in DOMAIN s |-> s[k] - k]

FormRows(r) ==
  LET w1 == Refreshed(wide[r])
      M  == MergedRows(array[r], w1)
      w2 == Begins(M, NumWide)
      a2 == Joint(M, NumWide)
      s  == RowStarts(bitmap[r], a2, w2)
      n  == Cardinality(bitmap[r])
  IN
  /\ place[r] = "store" /\ loop[r] = NumLoops
  /\ isolated' = [isolated EXCEPT ![r] = FirstEdges(s, a2, n)]
  /\ array' = [array EXCEPT ![r] = OtherEdges(s, a2, n)]
  /\ rowStarts' = [rowStarts EXCEPT ![r] = Shifted(s)]
  /\ place' = [place EXCEPT ![r] = "bits"]
  /\ UNCHANGED <<edges, reordering, loop, degreeVars, layoutVars, wide, recv,
                 countVars>>

\* MPI_Barrier of isolateFirstEdge, then computeNumVertices: MPI_Reduce_scatter
\* of the bitmaps along the processor row
\* Mutant: a rank looks only at its own rows.
BitsOwn(r) == {i \in 0 .. numLocal - 1 : Column(r) * numLocal + i \in bitmap[r]}
Bits(r) == {i \in 0 .. numLocal - 1 :
              \E s \in Across(r) : Column(r) * numLocal + i \in bitmap[s]}
ReduceBits(g) ==
  /\ \A r \in Rank : place[r] \in {"bits", "sum"}
  /\ AllAt(Across(g), "bits")
  /\ hasEdge' = Within(Across(g), [r \in Rank |-> Bits(r)], hasEdge)
  /\ place' = Within(Across(g), [r \in Rank |-> "sum"], place)
  /\ UNCHANGED <<edges, reordering, loop, degreeVars, layoutVars, wide, recv,
                 array, csrVars, numGlobal>>

SumVertices ==
  /\ AllAt(Rank, "sum")
  /\ numGlobal' = Offsets([r \in Rank |-> Cardinality(hasEdge[r])], Size)[Size]
  /\ place' = [r \in Rank |-> "done"]
  /\ UNCHANGED <<edges, reordering, loop, degreeVars, layoutVars, wide, recv,
                 array, csrVars, hasEdge>>

Built == AllAt(Rank, "done") /\ UNCHANGED buildVars

BuildNext ==
  \/ SearchMaxVertex \/ ScanEdges \/ ChooseOrder \/ ScatterEdges
  \/ \E r \in Rank : \/ GatherLayout(r) \/ ConvertSources(r)
                     \/ ConvertTargetsAndAdd(r) \/ FormRows(r) \/ ReduceBits(r)
  \/ SumVertices
  \/ Built

BuildSpec == BuildInit /\ [][BuildNext]_buildVars
-----------------------------------------------------------------------------
\* the pairs of different vertices that the edge list joins, both directions
Joined == {<<From(x), To(x)>> : x \in Sends}
\* The rows of a rank as it reads them: for bit number k, the first edge and
\* the others up to the next start
RowBits(r)   == Ascending(bitmap[r])
Source(r, k) == orig[r][k] * Size + RankAt(Row(r), RowBits(r)[k + 1] \div numLocal)
Target(r, e) == e.orig * Size + RankAt(e.r, Column(r))
Entry(r, k, j) == IF j = 0 THEN isolated[r][k] ELSE array[r][rowStarts[r][k] + j - 1]
Entries(r)   == UNION {{k} \X (0 .. rowStarts[r][k + 1] - rowStarts[r][k]) :
                         k \in 0 .. Cardinality(bitmap[r]) - 1}
Pair(r, x)   == <<Source(r, x[1]), Target(r, Entry(r, x[1], x[2]))>>

\* When the construction ends, the rows of the ranks hold both directions of
\* every edge of the list once, without duplicates and self-loops, at the rank
\* of edge_owner, with original and new numbers that belong together.
RowsExact ==
  AllAt(Rank, "done") => \A r \in Rank :
    /\ {Pair(r, x) : x \in Entries(r)} = {p \in Joined : EdgeOwner(p[1], p[2]) = r}
    /\ \A x, y \in Entries(r) : Pair(r, x) = Pair(r, y) => x = y
    /\ \A x \in Entries(r) :
         LET e == Entry(r, x[1], x[2]) IN
         /\ RowBits(r)[x[1] + 1] % numLocal
              = Reordered(Owner(Source(r, x[1])), Local(Source(r, x[1])))
         /\ e.d = Reordered(RankAt(e.r, Column(r)), e.orig)

\* The second pass finds the room that the first pass counted: no wide row is
\* filled past the start of the next one, and in the end each is full
\* ("row_starts_sup_[i] == wide_row_starts_[i]").
CountsAgree ==
  \A r \in Rank : place[r] \in {"store", "sources", "targets"} =>
    \A h \in 0 .. NumWide - 1 :
      /\ wide[r][h] <= counted[r][h + 1]
      /\ place[r] = "store" /\ loop[r] = NumLoops => wide[r][h] = counted[r][h + 1]

\* In the end the owner of a vertex knows whether it has an edge; a vertex
\* behind the last local number has none, and num_global_verts_ is the number
\* of the others.
HasEdgeExact ==
  AllAt(Rank, "done") =>
    /\ \A v \in 0 .. numOrig * Size - 1 :
         LET i == Reordered(Owner(v), Local(v))
         IN (i < numLocal /\ i \in hasEdge[Owner(v)]) <=> \E p \in Joined : p[1] = v
    /\ numGlobal = Cardinality({p[1] : p \in Joined})
=============================================================================
