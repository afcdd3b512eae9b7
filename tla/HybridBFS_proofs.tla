-------------------------- MODULE HybridBFS_proofs --------------------------
(***************************************************************************)
(* The search yields a tree of the graph in which every parent lies one    *)
(* level above its child, and writes every parent once: for every graph,   *)
(* grid of ranks and setting of the direction policy.                      *)
(***************************************************************************)
EXTENDS HybridBFS, FiniteSetTheorems, TLAPS

USE HybridAssumption, DirectionAssumption

-----------------------------------------------------------------------------
(* Vertices, their owners and the edges that ranks store *)

\* Sets of vertices can be counted.
LEMMA VertexSets ==
  ASSUME NEW S, S \subseteq Vertex
  PROVE  IsFiniteSet(S) /\ Cardinality(S) \in Nat
  <1>1. IsFiniteSet(Vertex)
    BY FS_Interval DEF Vertex
  <1>2. IsFiniteSet(S)
    BY <1>1, FS_Subset
  <1> QED BY <1>2, FS_CardinalityType

\* Every vertex has an owner on the grid.
LEMMA OwnerOnGrid ==
  ASSUME NEW v \in Vertex
  PROVE  RowOf(v) \in Row /\ ColOf(v) \in Col /\ Owner(v) \in Rank
  <1>1. v \in Nat /\ v \div R \in Nat
    BY DEF Vertex
  <1>2. RowOf(v) \in Row
    BY <1>1 DEF RowOf, Row
  <1>3. ColOf(v) \in Col
    BY <1>1 DEF ColOf, Col
  <1> QED BY <1>2, <1>3 DEF Owner, Rank

\* Edges run between vertices, in both directions, and end at vertices that
\* are not isolated.
LEMMA EdgeFacts ==
  ASSUME TypeOK, NEW e \in graph
  PROVE  /\ e = <<e[1], e[2]>> /\ e[1] \in Vertex /\ e[2] \in Vertex
         /\ e[1] # e[2]
         /\ <<e[2], e[1]>> \in graph
         /\ e[1] \notin Isolated /\ e[2] \notin Isolated
  <1>1. IsGraph(graph)
    BY DEF TypeOK
  <1>2. e \in Vertex \X Vertex /\ e[1] # e[2] /\ <<e[2], e[1]>> \in graph
    BY <1>1 DEF IsGraph
  <1>3. HasEdge(e[1]) /\ HasEdge(e[2])
    BY <1>2 DEF HasEdge
  <1> QED BY <1>2, <1>3 DEF Isolated

\* Every edge is stored on one rank of the grid, at least.
LEMMA EdgeStored ==
  ASSUME TypeOK, NEW e \in graph
  PROVE  /\ <<RowOf(e[1]), ColOf(e[2])>> \in Rank
         /\ e \in Stored(<<RowOf(e[1]), ColOf(e[2])>>)
  BY EdgeFacts, OwnerOnGrid DEF Rank, Stored

\* Isolated vertices depend on the graph only.
LEMMA IsolatedStays == graph' = graph => Isolated' = Isolated
  BY DEF Isolated, HasEdge

-----------------------------------------------------------------------------
(* Directions *)

\* What the policy may decide: backward only while the frontier grows, a
\* bitmap frontier only on the way back, and growing ends with the way back.
LEMMA Decision ==
  ASSUME dir \in DirType,
         NEW n, NEW prev, NEW vis, NEW verts, NEW sizes
  PROVE  LET d == NextDirection(dir, n, prev, vis, verts, sizes) IN
         /\ d \in DirType
         /\ dir.forward /\ d.forward => ~ d.bitmap /\ d.growing = dir.growing
         /\ dir.forward /\ ~ d.forward => dir.growing /\ d.growing
         /\ ~ dir.forward /\ ~ d.forward => d.growing = dir.growing
         /\ ~ dir.forward /\ d.forward => ~ d.growing
  <1> DEFINE d    == NextDirection(dir, n, prev, vis, verts, sizes)
             back == ToTopDown(dir, n, prev, verts - vis, verts)
             down == ToBottomUp(dir, n, prev, verts)
             many == SomeRankAboveThreshold(sizes)
  <1>1. /\ back \in BOOLEAN /\ down \in BOOLEAN /\ many \in BOOLEAN
        /\ dir.forward \in BOOLEAN /\ dir.growing \in BOOLEAN
    BY DEF ToTopDown, ToBottomUp, SomeRankAboveThreshold, StillGrowing, DirType
  <1>2. /\ d.forward = (back \/ (dir.forward /\ ~ down))
        /\ d.bitmap = (~ d.forward \/ (back /\ many))
        /\ d.growing = (dir.growing /\ ~ back)
        /\ d = [forward |-> d.forward, bitmap |-> d.bitmap, growing |-> d.growing]
    BY DEF NextDirection
  <1>3. back => ~ dir.forward
    BY DEF ToTopDown
  <1>4. down => dir.growing
    BY DEF ToBottomUp, StillGrowing
  <1> HIDE DEF d, back, down, many
  <1>5. d.forward \in BOOLEAN /\ d.bitmap \in BOOLEAN /\ d.growing \in BOOLEAN
    BY <1>1, <1>2
  <1>6. d \in DirType
    BY <1>2, <1>5 DEF DirType
  <1> QED BY <1>1, <1>2, <1>3, <1>4, <1>6 DEF d
-----------------------------------------------------------------------------
(* Types *)

LEMMA GraphType ==
  ASSUME TypeOK
  PROVE  graph \subseteq Vertex \X Vertex
  BY DEF TypeOK, IsGraph

LEMMA GatherTypes ==
  ASSUME NEW S, S \subseteq Vertex
  PROVE  /\ RowGather(S) \in [Rank -> SUBSET Vertex]
         /\ ColGather(S) \in [Rank -> SUBSET Vertex]
  BY DEF RowGather, ColGather

\* The end of a level, in either direction.
LEMMA FinishType ==
  ASSUME TypeOK, NEW found, found \subseteq Vertex, NEW sizes,
         FinishLevel(found, sizes)
  PROVE  TypeOK'
  <1>1. Cardinality(found) \in Nat
    BY VertexSets
  <1>2. gnq' \in Nat /\ visitedCnt' \in Nat
    BY <1>1 DEF FinishLevel, TypeOK
  <1>3. CASE Cardinality(found) = 0
    BY <1>2, <1>3 DEF FinishLevel, TypeOK, searchVars, progVars
  <1>4. CASE Cardinality(found) # 0
    <2> DEFINE d == NextDirection(dir, Cardinality(found), gnq,
                      visitedCnt + Cardinality(found), NumGlobalVerts, sizes)
    <2>1. d \in DirType
      BY Decision DEF TypeOK
    <2>2. Expand(d, found)
      BY <1>4 DEF FinishLevel
    <2> HIDE DEF d
    <2>3. dir' \in DirType /\ level' \in Nat /\ phase' \in {"idle", "td", "bu", "done"}
      BY <2>1, <2>2 DEF Expand, TypeOK
    <2>4. newVis' \subseteq Vertex /\ oldVis' \subseteq Vertex /\ work' \subseteq Vertex
      BY JunkAssumption, <2>2 DEF Expand, TopDownExpand, BottomUpSwitchExpand, NQBitmap, SwapVisitedMemory,
                TypeOK
    <2>5. shared' \in [Rank -> SUBSET Vertex] /\ cq' \in [Rank -> SUBSET Vertex]
      <3>1. newVis \subseteq Vertex /\ newVis \ oldVis \subseteq Vertex
            /\ shared \in [Rank -> SUBSET Vertex] /\ cq \in [Rank -> SUBSET Vertex]
        BY DEF TypeOK
      <3>2. CASE TopDownExpand(found)
        BY <3>1, <3>2, GatherTypes DEF TopDownExpand
      <3>3. CASE BottomUpSwitchExpand(d.bitmap)
        BY <3>1, <3>3, GatherTypes DEF BottomUpSwitchExpand, NQBitmap
      <3>4. CASE shared' = ColGather(newVis) /\ SwapVisitedMemory
        BY JunkAssumption, <3>1, <3>4, GatherTypes DEF SwapVisitedMemory
      <3> QED BY <2>2, <3>2, <3>3, <3>4 DEF Expand
    <2>6. dirty' \in [Rank -> BOOLEAN]
      BY <2>2, Zenon DEF Expand, TypeOK, PacketsDirty
    <2>7. nq' = {} /\ scanned' = {} /\ home' = {} /\ passed' \in [Rank -> SUBSET Col]
      BY <2>2 DEF Expand
    <2> QED
      BY <1>2, <2>2, <2>3, <2>4, <2>5, <2>6, <2>7 DEF Expand, TypeOK
  <1> QED BY <1>3, <1>4

LEMMA NextType == TypeOK /\ [Next]_vars => TypeOK'
  <1> SUFFICES ASSUME TypeOK, [Next]_vars PROVE TypeOK'
    OBVIOUS
  <1>1. ASSUME NEW root \in Vertex, StartBfs(root) PROVE TypeOK'
    <2>1. Isolated \subseteq Vertex /\ FirstDirection \in DirType
      BY DEF Isolated, FirstDirection, DirType
    <2>2. cq' \in [Rank -> SUBSET Vertex]
      BY <1>1, GatherTypes DEF StartBfs
    <2> QED BY JunkAssumption, <1>1, <2>1, <2>2 DEF StartBfs, TypeOK
  <1>2. ASSUME NEW q \in Rank, TopDownScan(q) PROVE TypeOK'
    <2>1. msgs' \subseteq Vertex \X Vertex
      BY <1>2, GraphType DEF TopDownScan, TypeOK, Stored
    <2>2. dirty' \in [Rank -> BOOLEAN] /\ fold' \in [Rank -> {"clean", "stale"}]
      BY <1>2 DEF TopDownScan, TypeOK
    <2> QED BY <1>2, <2>1, <2>2 DEF TopDownScan, TypeOK
  <1>3. ASSUME NEW m \in msgs, TopDownReceive(m) PROVE TypeOK'
    <2>1. m[1] \in Vertex /\ m[2] \in Vertex
      BY DEF TypeOK
    <2>2. /\ pred' \in [Vertex -> Vertex \cup {None}] /\ depth' \in [Vertex -> Nat \cup {-1}]
          /\ nq' \subseteq Vertex /\ newVis' \subseteq Vertex
      BY <1>3, <2>1 DEF TopDownReceive, TypeOK
    <2> QED BY <1>3, <2>2 DEF TopDownReceive, TypeOK, progVars
  <1>4. ASSUME NEW q \in Rank, NEW d \in Col, BottomUpStep(q, d) PROVE TypeOK'
    <2> DEFINE here == <<q[1], d>>
               found == {v \in Slice(q) \ work : Candidates(v, here) # {}}
    <2>1. found \subseteq Vertex
      BY DEF Slice
    <2> HIDE DEF found
    <2>2. PICK parent \in [found -> Vertex] :
            msgs' = msgs \cup {<<parent[v], v>> : v \in found}
      BY <1>4 DEF BottomUpStep, found
    <2>3. msgs' \subseteq Vertex \X Vertex
      BY <2>1, <2>2 DEF TypeOK
    <2>4. work' = work \cup found
      BY <1>4 DEF BottomUpStep, found
    <2>5. passed' \in [Rank -> SUBSET Col] /\ fold' \in [Rank -> {"clean", "stale"}]
      BY <1>4 DEF BottomUpStep, TypeOK
    <2> QED BY <1>4, <2>1, <2>3, <2>4, <2>5 DEF BottomUpStep, TypeOK
  <1>5. ASSUME NEW q \in Rank, BitmapHome(q) PROVE TypeOK'
    BY <1>5 DEF BitmapHome, TypeOK
  <1>6. ASSUME NEW m \in msgs, BottomUpReceive(m) PROVE TypeOK'
    <2>1. m[1] \in Vertex /\ m[2] \in Vertex
      BY DEF TypeOK
    <2> QED BY <1>6, <2>1 DEF BottomUpReceive, TypeOK, progVars
  <1>7. CASE EndTopDown
    BY <1>7, FinishType DEF EndTopDown, TypeOK
  <1>8. CASE EndBottomUp
    <2>1. newVis \ oldVis \subseteq Vertex
      BY DEF TypeOK
    <2> QED BY <1>8, <2>1, FinishType DEF EndBottomUp
  <1>9. CASE UNCHANGED vars
    BY <1>9 DEF vars, searchVars, progVars, TypeOK
  <1> QED BY <1>1, <1>2, <1>3, <1>4, <1>5, <1>6, <1>7, <1>8, <1>9 DEF Next
-----------------------------------------------------------------------------
(* The invariant, action by action *)

LEMMA InitIInv == Init => IInv
  <1> SUFFICES ASSUME Init PROVE IInv
    OBVIOUS
  <1>1. TypeOK
    <2>1. FirstDirection \in DirType
      BY DEF FirstDirection, DirType
    <2> QED BY JunkAssumption, <2>1 DEF Init, TypeOK
  <1>2. TreeOK /\ DepthOK
    BY DEF Init, TreeOK, DepthOK, Searching
  <1>3. LevelsClosed /\ DirOK /\ ForwardOK /\ BackwardOK
    BY DEF Init, LevelsClosed, DirOK, ForwardOK, BackwardOK, Searching
  <1> QED BY <1>1, <1>2, <1>3 DEF IInv

LEMMA StartIInv ==
  ASSUME IInv, NEW root \in Vertex, StartBfs(root), TypeOK'
  PROVE  IInv'
  <1>1. /\ phase' = "td" /\ level' = 1 /\ dir' = FirstDirection
        /\ pred' = [v \in Vertex |-> IF v = root THEN root ELSE None]
        /\ depth' = [v \in Vertex |-> IF v = root THEN 0 ELSE -1]
        /\ newVis' = Isolated \cup {root}
        /\ cq' = RowGather({root})
        /\ roots' = roots \cup {root}
        /\ nq' = {} /\ msgs' = {} /\ scanned' = {} /\ graph' = graph
    BY DEF StartBfs
  <1>2. TreeOK'
    BY <1>1 DEF TreeOK
  <1>3. DepthOK'
    BY <1>1 DEF DepthOK
  <1>4. LevelsClosed'
    <2>1. ASSUME NEW e \in graph PROVE ~ (Known(e[1])' /\ depth'[e[1]] < level' - 1)
      <3>1. e[1] \in Vertex
        BY EdgeFacts DEF IInv
      <3> QED BY <1>1, <3>1 DEF Known
    <2> QED BY <1>1, <2>1 DEF LevelsClosed, Known
  <1>5. DirOK'
    BY <1>1 DEF DirOK, FirstDirection
  <1>6. ForwardOK'
    <2>1. ASSUME NEW q \in Rank
          PROVE  Frontier(q)' = {v \in Vertex : depth'[v] = 0 /\ RowOf(v) = q[1]}
      BY <1>1 DEF Frontier, FirstDirection, RowGather
    <2>2. nq' = {v \in Vertex : depth'[v] = 1}
      BY <1>1
    <2>3. newVis' = Isolated' \cup {v \in Vertex : Known(v)'}
      <3>1. {v \in Vertex : Known(v)'} = {root}
        BY <1>1 DEF Known
      <3> QED BY <1>1, <3>1, IsolatedStays
    <2> QED BY <1>1, <2>1, <2>2, <2>3 DEF ForwardOK
  <1>7. BackwardOK'
    BY <1>1 DEF BackwardOK
  <1> QED BY <1>2, <1>3, <1>4, <1>5, <1>6, <1>7 DEF IInv

\* What is left as it was keeps the parts that speak of nothing else.
LEMMA SameTree ==
  ASSUME IInv, UNCHANGED <<graph, roots, phase, dir, level, pred, depth>>
  PROVE  TreeOK' /\ DepthOK' /\ LevelsClosed' /\ DirOK'
  BY DEF IInv, TreeOK, DepthOK, LevelsClosed, DirOK, Searching, Known

LEMMA ScanIInv ==
  ASSUME IInv, NEW q \in Rank, TopDownScan(q), TypeOK'
  PROVE  IInv'
  <1>1. /\ phase = "td" /\ scanned' = scanned \cup {q}
        /\ msgs' = msgs \cup {e \in Stored(q) : e[1] \in Frontier(q)}
        /\ UNCHANGED <<graph, roots, phase, dir, level, pred, depth, newVis,
                       shared, cq, nq>>
    BY DEF TopDownScan
  <1>2. TreeOK' /\ DepthOK' /\ LevelsClosed' /\ DirOK'
    BY <1>1, SameTree
  <1>3. ForwardOK'
    <2>1. Frontier(q) = {v \in Vertex : depth[v] = level - 1 /\ RowOf(v) = q[1]}
      BY <1>1 DEF IInv, ForwardOK
    <2>2. \A p \in Rank : Frontier(p)' = Frontier(p)
      BY <1>1 DEF Frontier
    <2>3. \A p \in Rank : Stored(p)' = Stored(p)
      BY <1>1 DEF Stored
    <2>4. \A m \in msgs' : m \in graph /\ depth[m[1]] = level - 1
      BY <1>1, <2>1 DEF IInv, ForwardOK, Stored
    <2>5. ASSUME NEW p \in scanned', NEW e \in Stored(p), depth[e[1]] = level - 1
          PROVE  e \in msgs' \/ Known(e[2])
      <3>1. CASE p = q
        <4>1. e \in graph /\ e[1] \in Vertex /\ RowOf(e[1]) = q[1]
          BY <3>1, EdgeFacts DEF Stored, IInv
        <4> QED BY <1>1, <2>1, <2>5, <3>1, <4>1
      <3>2. CASE p # q
        BY <1>1, <2>5, <3>2 DEF IInv, ForwardOK
      <3> QED BY <3>1, <3>2
    <2>6. Isolated' = Isolated /\ \A v \in Vertex : Known(v)' = Known(v)
      BY <1>1, IsolatedStays DEF Known
    <2>7. \A p \in Rank : Frontier(p)' = {v \in Vertex : depth'[v] = level' - 1 /\ RowOf(v) = p[1]}
      BY <1>1, <2>2 DEF IInv, ForwardOK
    <2>8. nq' = {v \in Vertex : depth'[v] = level'}
      BY <1>1 DEF IInv, ForwardOK
    <2>9. dir'.growing => newVis' = Isolated' \cup {v \in Vertex : Known(v)'}
      BY <1>1, <2>6 DEF IInv, ForwardOK
    <2>10. scanned' \subseteq Rank
      BY <1>1 DEF IInv, TypeOK
    <2>11. \A p \in scanned' : \A e \in Stored(p)' :
             depth'[e[1]] = level' - 1 => e \in msgs' \/ Known(e[2])'
      BY <1>1, <2>3, <2>5, <2>10 DEF Known
    <2> QED BY <1>1, <2>4, <2>7, <2>8, <2>9, <2>11 DEF ForwardOK
  <1>4. BackwardOK'
    BY <1>1 DEF BackwardOK
  <1> QED BY <1>2, <1>3, <1>4 DEF IInv

\* A vertex that was unknown becomes the child of one of the last level.
LEMMA Discovery ==
  ASSUME IInv, Searching, NEW m \in graph,
         depth[m[1]] = level - 1, depth[m[2]] = -1,
         UNCHANGED <<graph, roots, phase, level>>,
         pred' = [pred EXCEPT ![m[2]] = m[1]],
         depth' = [depth EXCEPT ![m[2]] = level]
  PROVE  TreeOK' /\ DepthOK' /\ LevelsClosed'
  <1> DEFINE v == m[2]
  <1>1. UNCHANGED <<graph, roots, phase, level>> /\ Searching /\ Searching'
    BY DEF Searching
  <1>2. /\ m \in graph /\ m[1] \in Vertex /\ v \in Vertex /\ m[1] # v
        /\ depth[m[1]] = level - 1 /\ level >= 1
    BY EdgeFacts DEF IInv, DepthOK
  <1>3. depth[v] = -1 /\ pred[v] = None
    BY <1>2 DEF IInv, DepthOK
  <1>4. /\ pred \in [Vertex -> Vertex \cup {None}]
        /\ depth \in [Vertex -> Nat \cup {-1}]
        /\ level \in Nat
    BY DEF IInv, TypeOK
  <1>5. /\ pred'[v] = m[1] /\ depth'[v] = level
        /\ \A w \in Vertex \ {v} : pred'[w] = pred[w] /\ depth'[w] = depth[w]
    BY <1>2, <1>1, <1>4
  <1>6. TreeOK'
    <2>1. ASSUME NEW w \in Vertex, pred'[w] # None
          PROVE  \/ pred'[w] = w /\ depth'[w] = 0 /\ w \in roots'
                 \/ /\ <<pred'[w], w>> \in graph'
                    /\ pred'[pred'[w]] # None
                    /\ depth'[w] = depth'[pred'[w]] + 1
      <3>1. CASE w = v
        <4>1. <<m[1], v>> = m
          BY EdgeFacts, <1>2 DEF IInv
        <4>2. pred[m[1]] # None
          BY <1>2, <1>4 DEF IInv, DepthOK
        <4> QED BY <1>1, <1>2, <1>4, <1>5, <3>1, <4>1, <4>2
      <3>2. CASE w # v
        <4>1. pred[w] # None /\ pred'[w] = pred[w] /\ depth'[w] = depth[w]
          BY <1>5, <2>1, <3>2
        <4>2. \/ pred[w] = w /\ depth[w] = 0 /\ w \in roots
              \/ /\ <<pred[w], w>> \in graph
                 /\ pred[pred[w]] # None
                 /\ depth[w] = depth[pred[w]] + 1
          BY <4>1 DEF IInv, TreeOK
        <4>3. pred[w] \in Vertex
          BY <1>4, <4>1
        <4>4. pred[pred[w]] # None => pred[w] # v
          BY <1>3
        <4>5. pred[pred[w]] # None =>
                pred'[pred[w]] = pred[pred[w]] /\ depth'[pred[w]] = depth[pred[w]]
          BY <1>5, <4>3, <4>4
        <4> QED BY <1>1, <4>1, <4>2, <4>5
      <3> QED BY <3>1, <3>2
    <2> QED BY <2>1 DEF TreeOK
  <1>7. DepthOK'
    <2>1. \A w \in Vertex : pred'[w] = None <=> depth'[w] = -1
      BY <1>2, <1>4, <1>5 DEF IInv, DepthOK
    <2>2. \A w \in Vertex : depth'[w] <= level
      BY <1>1, <1>4, <1>5 DEF IInv, DepthOK, Searching
    <2> QED BY <1>1, <1>2, <2>1, <2>2 DEF DepthOK, Searching
  <1>8. LevelsClosed'
    <2>1. ASSUME NEW e \in graph, depth'[e[1]] >= 0, depth'[e[1]] < level - 1
          PROVE  depth'[e[2]] >= 0 /\ depth'[e[2]] < level
      <3>1. e[1] \in Vertex /\ e[2] \in Vertex
        BY EdgeFacts DEF IInv
      <3>2. e[1] # v
        BY <1>4, <1>5, <2>1
      <3>3. depth[e[2]] >= 0 /\ depth[e[2]] < level
        BY <1>1, <1>5, <2>1, <3>1, <3>2 DEF IInv, LevelsClosed, Searching, Known
      <3>4. e[2] # v
        BY <1>3, <3>3
      <3> QED BY <1>5, <3>1, <3>3, <3>4
    <2> QED BY <1>1, <2>1 DEF LevelsClosed, Known
  <1> QED BY <1>6, <1>7, <1>8

\* The first discovery of a vertex in a forward level, or a later one.
LEMMA ReceiveIInv ==
  ASSUME IInv, NEW m \in msgs, TopDownReceive(m), TypeOK'
  PROVE  IInv'
  <1> DEFINE v == m[2]
  <1>1. /\ phase = "td" /\ msgs' = msgs \ {m}
        /\ UNCHANGED <<graph, roots, phase, dir, level, shared, cq, scanned>>
    BY DEF TopDownReceive, progVars
  <1>2. /\ m \in graph /\ m[1] \in Vertex /\ v \in Vertex /\ m[1] # v
        /\ v \notin Isolated
        /\ depth[m[1]] = level - 1 /\ level >= 1
    BY <1>1, EdgeFacts DEF IInv, ForwardOK, DepthOK, Searching
  <1>3. Undiscovered(v) <=> depth[v] = -1
    <2>1. depth[v] \in Nat \cup {-1}
      BY <1>2 DEF IInv, TypeOK
    <2>2. CASE dir.growing
      <3>1. newVis = Isolated \cup {w \in Vertex : Known(w)}
        BY <1>1, <2>2 DEF IInv, ForwardOK
      <3> QED BY <1>2, <2>1, <2>2, <3>1 DEF Undiscovered, Known
    <2>3. CASE ~ dir.growing
      BY <1>2, <2>3 DEF Undiscovered, IInv, DepthOK
    <2> QED BY <2>2, <2>3
  <1>4. CASE ~ Undiscovered(v)
    <2>1. UNCHANGED <<pred, depth, nq, newVis>>
      BY <1>4 DEF TopDownReceive
    <2>2. Known(v)
      BY <1>2, <1>3, <1>4 DEF Known, IInv, TypeOK
    <2>3. TreeOK' /\ DepthOK' /\ LevelsClosed' /\ DirOK'
      BY <1>1, <2>1, SameTree
    <2>4. ForwardOK'
      <3>1. /\ \A q \in Rank : Frontier(q)' = Frontier(q) /\ Stored(q)' = Stored(q)
            /\ Isolated' = Isolated /\ \A w \in Vertex : Known(w)' = Known(w)
        BY <1>1, <2>1, IsolatedStays DEF Frontier, Stored, Known
      <3>2. \A q \in scanned' : \A e \in Stored(q)' :
              depth'[e[1]] = level' - 1 => e \in msgs' \/ Known(e[2])'
        BY <1>1, <2>1, <2>2, <3>1 DEF IInv, ForwardOK, TypeOK, Known
      <3>3. dir'.growing => newVis' = Isolated' \cup {w \in Vertex : Known(w)'}
        BY <1>1, <2>1, <3>1 DEF IInv, ForwardOK
      <3> QED BY <1>1, <2>1, <3>1, <3>2, <3>3 DEF IInv, ForwardOK
    <2>5. BackwardOK'
      BY <1>1 DEF BackwardOK
    <2> QED BY <2>3, <2>4, <2>5 DEF IInv
  <1>5. CASE Undiscovered(v)
    <2>1. /\ pred' = [pred EXCEPT ![v] = m[1]]
          /\ depth' = [depth EXCEPT ![v] = level]
          /\ nq' = nq \cup {v}
          /\ newVis' = IF dir.growing THEN newVis \cup {v} ELSE newVis
      BY <1>5 DEF TopDownReceive
    <2>2. depth[v] = -1 /\ pred[v] = None
      BY <1>2, <1>3, <1>5 DEF IInv, DepthOK
    <2>3. /\ pred \in [Vertex -> Vertex \cup {None}]
          /\ depth \in [Vertex -> Nat \cup {-1}]
          /\ level \in Nat
      BY DEF IInv, TypeOK
    <2>4. /\ depth'[v] = level /\ \A w \in Vertex \ {v} : depth'[w] = depth[w]
      BY <1>2, <2>1, <2>3
    <2>5. TreeOK' /\ DepthOK' /\ LevelsClosed'
      BY <1>1, <1>2, <2>1, <2>2, Discovery DEF Searching
    <2>8. DirOK'
      BY <1>1 DEF IInv, DirOK
    <2>9. ForwardOK'
      <3>1. /\ \A q \in Rank : Frontier(q)' = Frontier(q) /\ Stored(q)' = Stored(q)
            /\ Isolated' = Isolated
        BY <1>1, IsolatedStays DEF Frontier, Stored
      <3>2. \A w \in Vertex : depth'[w] = level - 1 <=> depth[w] = level - 1
        BY <1>2, <2>2, <2>3, <2>4
      <3>3. \A q \in Rank : Frontier(q)' =
              {w \in Vertex : depth'[w] = level' - 1 /\ RowOf(w) = q[1]}
        BY <1>1, <3>1, <3>2 DEF IInv, ForwardOK
      <3>4. nq' = {w \in Vertex : depth'[w] = level'}
        BY <1>1, <1>2, <2>1, <2>4 DEF IInv, ForwardOK
      <3>5. {w \in Vertex : Known(w)'} = {w \in Vertex : Known(w)} \cup {v}
        BY <1>2, <2>3, <2>4 DEF Known
      <3>6. dir'.growing => newVis' = Isolated' \cup {w \in Vertex : Known(w)'}
        BY <1>1, <2>1, <3>1, <3>5 DEF IInv, ForwardOK
      <3>7. \A n \in msgs' : n \in graph' /\ depth'[n[1]] = level' - 1
        <4>1. \A n \in msgs' : n \in graph /\ depth[n[1]] = level - 1
          BY <1>1 DEF IInv, ForwardOK
        <4>2. \A n \in graph : n[1] \in Vertex
          BY EdgeFacts DEF IInv
        <4> QED BY <1>1, <3>2, <4>1, <4>2
      <3>8. ASSUME NEW q \in scanned', NEW e \in Stored(q)', depth'[e[1]] = level' - 1
            PROVE  e \in msgs' \/ Known(e[2])'
        <4>1. q \in scanned /\ q \in Rank
          BY <1>1 DEF IInv, TypeOK
        <4>2. e \in Stored(q) /\ e \in graph
          BY <3>1, <3>8, <4>1 DEF Stored
        <4>3. e[1] \in Vertex /\ e[2] \in Vertex
          BY <4>2, EdgeFacts DEF IInv
        <4>4. e \in msgs \/ Known(e[2])
          BY <1>1, <3>2, <3>8, <4>1, <4>2, <4>3 DEF IInv, ForwardOK
        <4>5. \A w \in Vertex : Known(w) => Known(w)'
          BY <3>5 DEF Known
        <4>6. Known(v)'
          BY <1>2, <3>5
        <4> QED BY <1>1, <4>3, <4>4, <4>5, <4>6
      <3> QED BY <1>1, <3>3, <3>4, <3>6, <3>7, <3>8 DEF ForwardOK
    <2>10. BackwardOK'
      BY <1>1 DEF BackwardOK
    <2> QED BY <2>5, <2>8, <2>9, <2>10 DEF IInv
  <1> QED BY <1>4, <1>5

\* What a rank finds in a bitmap: unknown vertices, with neighbours that can
\* only be of the last level, as all others have no unknown neighbour.
LEMMA FoundFacts ==
  ASSUME IInv, phase = "bu", NEW q \in Rank, NEW d \in Col,
         NEW v \in Slice(q) \ work, NEW u \in Candidates(v, <<q[1], d>>)
  PROVE  /\ <<u, v>> \in graph
         /\ depth[u] = level - 1 /\ ~ Known(v)
  <1> DEFINE here == <<q[1], d>>
  <1>1. here \in Rank /\ v \in Vertex
    BY DEF Rank, Slice
  <1>2. u \in shared[here] /\ <<v, u>> \in graph
    BY DEF Candidates, Stored
  <1>3. /\ <<u, v>> \in graph /\ u \in Vertex
        /\ u \notin Isolated /\ v \notin Isolated
    BY <1>2, EdgeFacts DEF IInv
  <1>4. u \in oldVis
    BY <1>1, <1>2 DEF IInv, BackwardOK, ColGather
  <1>5. Known(u) /\ depth[u] < level
    BY <1>3, <1>4 DEF IInv, BackwardOK
  <1>6. v \notin oldVis /\ depth[v] # level
    BY <1>1 DEF IInv, BackwardOK
  <1>7. depth[u] \in Nat \cup {-1} /\ depth[v] \in Nat \cup {-1} /\ level \in Nat
    BY <1>1, <1>3 DEF IInv, TypeOK
  <1>8. depth[v] <= level
    BY <1>1 DEF IInv, DepthOK, Searching
  <1>9. ~ Known(v)
    <2>1. ~ (Known(v) /\ depth[v] < level)
      BY <1>1, <1>6 DEF IInv, BackwardOK
    <2> QED BY <1>6, <1>7, <1>8, <2>1
  <1>10. ~ (depth[u] < level - 1)
    <2>1. <<u, v>>[1] = u /\ <<u, v>>[2] = v
      OBVIOUS
    <2>2. Known(u) /\ depth[u] < level - 1 => Known(v)
      BY <1>3, <2>1 DEF IInv, LevelsClosed, Searching
    <2> QED BY <1>5, <1>9, <2>2
  <1> QED BY <1>3, <1>5, <1>7, <1>9, <1>10

LEMMA StepIInv ==
  ASSUME IInv, NEW q \in Rank, NEW d \in Col, BottomUpStep(q, d), TypeOK'
  PROVE  IInv'
  <1> DEFINE here == <<q[1], d>>
             found == {v \in Slice(q) \ work : Candidates(v, here) # {}}
  <1>1. /\ phase = "bu" /\ d \notin passed[q] /\ work' = work \cup found
        /\ passed' = [passed EXCEPT ![q] = @ \cup {d}]
        /\ UNCHANGED <<graph, roots, phase, dir, level, pred, depth, newVis,
                       oldVis, shared, home>>
    BY DEF BottomUpStep
  <1>2. PICK parent \in [found -> Vertex] :
          /\ \A v \in found : parent[v] \in Candidates(v, here)
          /\ msgs' = msgs \cup {<<parent[v], v>> : v \in found}
    BY DEF BottomUpStep
  <1>3. found \subseteq Slice(q) \ work /\ found \subseteq Vertex
    BY DEF Slice
  <1>4. \A v \in Slice(q) \ work : v \notin found => Candidates(v, here) = {}
    OBVIOUS
  <1>5. \A v \in found : /\ <<parent[v], v>> \in graph
                         /\ depth[parent[v]] = level - 1 /\ ~ Known(v)
    BY <1>1, <1>2, FoundFacts
  <1> HIDE DEF found
  <1>6. TreeOK' /\ DepthOK' /\ LevelsClosed' /\ DirOK'
    BY <1>1, SameTree
  <1>7. ForwardOK'
    BY <1>1 DEF ForwardOK
  <1>8. BackwardOK'
    <2>1. /\ Isolated' = Isolated /\ \A v \in Vertex : Known(v)' = Known(v)
          /\ \A p \in Rank : Stored(p)' = Stored(p)
      BY <1>1, IsolatedStays DEF Known, Stored
    <2>2. oldVis' = Isolated' \cup {v \in Vertex : Known(v)' /\ depth'[v] < level'}
      BY <1>1, <2>1 DEF IInv, BackwardOK
    <2>3. shared' = ColGather(oldVis)'
      BY <1>1 DEF IInv, BackwardOK, ColGather
    <2>4. oldVis' \subseteq work'
      BY <1>1 DEF IInv, BackwardOK
    <2>5. \A v \in Vertex : v \in work' \ oldVis' <=> depth'[v] = level' \/ \E m \in msgs' : m[2] = v
      <3>1. ASSUME NEW v \in Vertex, v \in found
            PROVE  v \in work' \ oldVis' /\ \E m \in msgs' : m[2] = v
        <4>1. <<parent[v], v>> \in msgs' /\ <<parent[v], v>>[2] = v
          BY <1>2, <3>1
        <4> QED BY <1>1, <1>3, <3>1, <4>1 DEF IInv, BackwardOK
      <3>2. ASSUME NEW v \in Vertex, v \notin found
            PROVE  (\E m \in msgs' : m[2] = v) <=> (\E m \in msgs : m[2] = v)
        BY <1>2, <3>2
      <3>3. ASSUME NEW v \in Vertex, v \notin found
            PROVE  v \in work' \ oldVis' <=> depth'[v] = level' \/ \E m \in msgs' : m[2] = v
        BY <1>1, <3>2, <3>3 DEF IInv, BackwardOK
      <3> QED BY <3>1, <3>3
    <2>6. \A m \in msgs' : m \in graph' /\ depth'[m[1]] = level' - 1 /\ ~ Known(m[2])'
      <3>1. ASSUME NEW v \in found
            PROVE  /\ <<parent[v], v>> \in graph /\ depth[<<parent[v], v>>[1]] = level - 1
                   /\ ~ Known(<<parent[v], v>>[2])
        BY <1>5
      <3>2. \A m \in msgs' : m \in graph /\ depth[m[1]] = level - 1 /\ ~ Known(m[2])
        BY <1>1, <1>2, <3>1 DEF IInv, BackwardOK
      <3> QED BY <1>1, <3>2 DEF Known
    <2>7. \A m, n \in msgs' : m[2] = n[2] => m = n
      <3>1. \A m \in msgs : m[2] \in work
        BY <1>1 DEF IInv, BackwardOK, TypeOK
      <3>2. \A m, n \in msgs : m[2] = n[2] => m = n
        BY <1>1 DEF IInv, BackwardOK
      <3>3. \A m \in msgs' : m \in msgs \/ (m[2] \in found /\ m = <<parent[m[2]], m[2]>>)
        BY <1>2
      <3> QED BY <1>3, <3>1, <3>2, <3>3
    <2>8. ASSUME NEW p \in Rank, NEW c \in passed'[p], NEW v \in Slice(p)' \ work'
          PROVE  Candidates(v, <<p[1], c>>)' = {}
      <3>1. v \in Slice(p) \ work /\ v \notin found
        BY <1>1, <2>8 DEF Slice
      <3>2. Candidates(v, <<p[1], c>>)' = Candidates(v, <<p[1], c>>)
        BY <1>1 DEF Candidates, Stored
      <3>3. c \in passed[p] \/ (p = q /\ c = d)
        BY <1>1, <2>8 DEF IInv, TypeOK
      <3>4. CASE c \in passed[p]
        BY <1>1, <3>1, <3>2, <3>4 DEF IInv, BackwardOK
      <3>5. CASE p = q /\ c = d
        BY <1>4, <3>1, <3>2, <3>5
      <3> QED BY <3>3, <3>4, <3>5
    <2>9. ASSUME NEW p \in home'
          PROVE  passed'[p] = Col /\ newVis' \cap Slice(p)' = work' \cap Slice(p)'
      <3>1. p \in Rank /\ p \in home
        BY <1>1 DEF IInv, TypeOK
      <3>2. passed[p] = Col /\ newVis \cap Slice(p) = work \cap Slice(p)
        BY <1>1, <3>1 DEF IInv, BackwardOK
      <3>3. p # q
        BY <1>1, <3>2
      <3>4. passed'[p] = Col
        BY <1>1, <3>1, <3>2, <3>3 DEF IInv, TypeOK
      <3>5. work' \cap Slice(p) = work \cap Slice(p)
        BY <1>1, <1>3, <3>3 DEF Slice
      <3> QED BY <1>1, <3>2, <3>4, <3>5 DEF Slice
    <2> QED BY <2>2, <2>3, <2>4, <2>5, <2>6, <2>7, <2>8, <2>9 DEF BackwardOK
  <1> QED BY <1>6, <1>7, <1>8 DEF IInv

LEMMA HomeIInv ==
  ASSUME IInv, NEW q \in Rank, BitmapHome(q), TypeOK'
  PROVE  IInv'
  <1>1. /\ phase = "bu" /\ passed[q] = Col /\ home' = home \cup {q}
        /\ newVis' = (newVis \ Slice(q)) \cup (work \cap Slice(q))
        /\ UNCHANGED <<graph, roots, phase, dir, level, pred, depth, oldVis,
                       work, shared, msgs, passed>>
    BY DEF BitmapHome
  <1>2. TreeOK' /\ DepthOK' /\ LevelsClosed' /\ DirOK'
    BY <1>1, SameTree
  <1>3. ForwardOK'
    BY <1>1 DEF ForwardOK
  <1>4. ASSUME NEW p \in home'
        PROVE  passed'[p] = Col /\ newVis' \cap Slice(p)' = work' \cap Slice(p)'
    <2>1. CASE p = q
      BY <1>1, <2>1 DEF Slice
    <2>2. CASE p # q
      <3>1. passed[p] = Col /\ newVis \cap Slice(p) = work \cap Slice(p)
        BY <1>1, <2>2 DEF IInv, BackwardOK
      <3> QED BY <1>1, <2>2, <3>1 DEF Slice
    <2> QED BY <2>1, <2>2
  <1>5. /\ Isolated' = Isolated /\ \A v \in Vertex : Known(v)' = Known(v)
        /\ \A p \in Rank : Slice(p)' = Slice(p)
        /\ \A p \in Rank, v \in Vertex : Candidates(v, p)' = Candidates(v, p)
    BY <1>1, IsolatedStays DEF Known, Slice, Candidates, Stored
  <1>6. BackwardOK'
    <2>1. oldVis' = Isolated' \cup {v \in Vertex : Known(v)' /\ depth'[v] < level'}
      BY <1>1, <1>5 DEF IInv, BackwardOK
    <2>2. shared' = ColGather(oldVis)'
      BY <1>1 DEF IInv, BackwardOK, ColGather
    <2>3. \A p \in Rank : \A d \in passed'[p] : \A v \in Slice(p)' \ work' :
            Candidates(v, <<p[1], d>>)' = {}
      BY <1>1 DEF IInv, BackwardOK, Slice, Candidates, Stored
    <2>4. \A m \in msgs' : m \in graph' /\ depth'[m[1]] = level' - 1 /\ ~ Known(m[2])'
      BY <1>1 DEF IInv, BackwardOK, Known
    <2>5. /\ oldVis' \subseteq work'
          /\ \A v \in Vertex : v \in work' \ oldVis' <=> depth'[v] = level' \/ \E m \in msgs' : m[2] = v
          /\ \A m, n \in msgs' : m[2] = n[2] => m = n
      BY <1>1 DEF IInv, BackwardOK
    <2> QED BY <1>4, <2>1, <2>2, <2>3, <2>4, <2>5 DEF BackwardOK
  <1> QED BY <1>2, <1>3, <1>6 DEF IInv

\* The owner stores the one parent that was found for a vertex.
LEMMA BuReceiveIInv ==
  ASSUME IInv, NEW m \in msgs, BottomUpReceive(m), TypeOK'
  PROVE  IInv'
  <1> DEFINE v == m[2]
  <1>1. /\ phase = "bu" /\ msgs' = msgs \ {m}
        /\ pred' = [pred EXCEPT ![v] = m[1]]
        /\ depth' = [depth EXCEPT ![v] = level]
        /\ UNCHANGED <<graph, roots, phase, dir, level, newVis, oldVis, work,
                       shared, passed, home>>
    BY DEF BottomUpReceive, progVars
  <1>2. /\ m \in graph /\ m[1] \in Vertex /\ v \in Vertex
        /\ v \notin Isolated
        /\ depth[m[1]] = level - 1 /\ level >= 1 /\ ~ Known(v)
    BY <1>1, EdgeFacts DEF IInv, BackwardOK, DepthOK, Searching
  <1>3. /\ depth \in [Vertex -> Nat \cup {-1}] /\ level \in Nat
    BY DEF IInv, TypeOK
  <1>4. depth[v] = -1
    BY <1>2, <1>3 DEF Known
  <1>5. depth'[v] = level /\ \A w \in Vertex \ {v} : depth'[w] = depth[w]
    BY <1>1, <1>2, <1>3
  <1>6. TreeOK' /\ DepthOK' /\ LevelsClosed'
    BY <1>1, <1>2, <1>4, Discovery DEF Searching
  <1>7. DirOK' /\ ForwardOK'
    BY <1>1 DEF IInv, DirOK, ForwardOK
  <1>8. BackwardOK'
    <2>1. /\ Isolated' = Isolated
          /\ \A p \in Rank : Slice(p)' = Slice(p)
      BY <1>1, IsolatedStays DEF Slice
    <2>2. \A w \in Vertex : Known(w)' /\ depth'[w] < level' <=> Known(w) /\ depth[w] < level
      BY <1>1, <1>3, <1>4, <1>5 DEF Known
    <2>3. oldVis' = Isolated' \cup {w \in Vertex : Known(w)' /\ depth'[w] < level'}
      BY <1>1, <2>1, <2>2 DEF IInv, BackwardOK
    <2>4. shared' = ColGather(oldVis)' /\ oldVis' \subseteq work'
      BY <1>1 DEF IInv, BackwardOK, ColGather
    <2>5. \A n \in msgs' : n \in msgs /\ n \in graph /\ n[1] \in Vertex /\ n[2] \in Vertex
            /\ n[2] # v /\ depth[n[1]] = level - 1 /\ ~ Known(n[2])
      BY <1>1, EdgeFacts DEF IInv, BackwardOK
    <2>6. \A n \in msgs' : n \in graph' /\ depth'[n[1]] = level' - 1 /\ ~ Known(n[2])'
      BY <1>1, <1>2, <1>3, <1>4, <1>5, <2>5 DEF Known
    <2>7. ASSUME NEW w \in Vertex
          PROVE  w \in work' \ oldVis' <=> depth'[w] = level' \/ \E n \in msgs' : n[2] = w
      <3>1. w \in work \ oldVis <=> depth[w] = level \/ \E n \in msgs : n[2] = w
        BY <1>1 DEF IInv, BackwardOK
      <3>2. CASE w = v
        BY <1>1, <1>5, <3>1, <3>2
      <3>3. CASE w # v
        <4>1. (\E n \in msgs : n[2] = w) <=> (\E n \in msgs' : n[2] = w)
          BY <1>1, <3>3
        <4> QED BY <1>1, <1>5, <3>1, <3>3, <4>1
      <3> QED BY <3>2, <3>3
    <2>8. \A n, o \in msgs' : n[2] = o[2] => n = o
      BY <1>1 DEF IInv, BackwardOK
    <2>9. /\ \A p \in Rank : \A d \in passed'[p] : \A w \in Slice(p)' \ work' :
                Candidates(w, <<p[1], d>>)' = {}
          /\ \A p \in home' : passed'[p] = Col /\ newVis' \cap Slice(p)' = work' \cap Slice(p)'
      BY <1>1 DEF IInv, BackwardOK, Slice, Candidates, Stored
    <2> QED BY <2>3, <2>4, <2>6, <2>7, <2>8, <2>9 DEF BackwardOK
  <1> QED BY <1>6, <1>7, <1>8 DEF IInv

\* The next level is set up from a complete one.
LEMMA FinishIInv ==
  ASSUME IInv, Searching, TypeOK', msgs = {},
         NEW found, found = {v \in Vertex : depth[v] = level},
         \A e \in graph : Known(e[1]) /\ depth[e[1]] < level => Known(e[2]),
         dir.growing => newVis = Isolated \cup {v \in Vertex : Known(v)},
         ~ dir.forward => dir.growing /\ newVis \ oldVis = found,
         NEW sizes, FinishLevel(found, sizes)
  PROVE  IInv'
  <1> DEFINE d == NextDirection(dir, Cardinality(found), gnq,
                    visitedCnt + Cardinality(found), NumGlobalVerts, sizes)
  <1>1. CASE Cardinality(found) = 0
    <2>1. phase' = "done" /\ UNCHANGED <<graph, roots, pred, depth>>
      BY <1>1 DEF FinishLevel, searchVars
    <2>2. TreeOK' /\ DepthOK' /\ LevelsClosed'
      BY <2>1 DEF IInv, TreeOK, DepthOK, LevelsClosed, Searching
    <2> QED BY <2>1, <2>2 DEF IInv, DirOK, ForwardOK, BackwardOK
  <1>2. CASE Cardinality(found) # 0
    <2>1. Expand(d, found)
      BY <1>2 DEF FinishLevel
    <2>2. /\ d.forward \in BOOLEAN /\ d.growing \in BOOLEAN /\ d.bitmap \in BOOLEAN
          /\ dir.forward /\ d.forward => ~ d.bitmap /\ d.growing = dir.growing
          /\ dir.forward /\ ~ d.forward => dir.growing /\ d.growing
          /\ ~ dir.forward /\ ~ d.forward => d.growing = dir.growing
          /\ ~ dir.forward /\ d.forward => ~ d.growing
      BY Decision DEF IInv, TypeOK, DirType
    <2> HIDE DEF d
    <2>3. /\ dir' = d /\ level' = level + 1
          /\ phase' = IF d.forward THEN "td" ELSE "bu"
          /\ nq' = {} /\ scanned' = {} /\ home' = {} /\ msgs' = {}
          /\ passed' = [q \in Rank |-> {}]
          /\ UNCHANGED <<graph, roots, pred, depth>>
      BY <2>1 DEF Expand
    <2>4. /\ Isolated' = Isolated
          /\ level \in Nat /\ depth \in [Vertex -> Nat \cup {-1}]
          /\ \A v \in Vertex : depth[v] <= level
      BY <2>3, IsolatedStays DEF IInv, TypeOK, DepthOK
    <2>5. TreeOK'
      BY <2>3 DEF IInv, TreeOK
    <2>6. DepthOK'
      BY <2>3, <2>4 DEF IInv, DepthOK, Searching
    <2>7. LevelsClosed'
      <3>1. ASSUME NEW e \in graph, Known(e[1]), depth[e[1]] < level
            PROVE  Known(e[2]) /\ depth[e[2]] < level + 1
        <4>1. e[2] \in Vertex
          BY EdgeFacts DEF IInv
        <4> QED BY <2>4, <3>1, <4>1
      <3> QED BY <2>3, <2>4, <3>1 DEF LevelsClosed, Known
    <2>8. DirOK'
      BY <2>2, <2>3 DEF DirOK
    <2>9. ForwardOK'
      <3> SUFFICES ASSUME d.forward PROVE ForwardOK'
        BY <2>3 DEF ForwardOK
      <3>1. ASSUME NEW q \in Rank
            PROVE  Frontier(q)' = {v \in Vertex : depth'[v] = level' - 1 /\ RowOf(v) = q[1]}
        <4>2. Frontier(q)' = RowGather(found)[q]
          <5>1. CASE dir.forward
            BY <2>1, <2>2, <2>3, <5>1 DEF Expand, TopDownExpand, Frontier
          <5>2. CASE ~ dir.forward
            BY <2>1, <2>3, <5>2 DEF Expand, BottomUpSwitchExpand, NQBitmap, Frontier
          <5> QED BY <5>1, <5>2
        <4> QED BY <2>3, <2>4, <4>2 DEF RowGather
      <3>2. nq' = {v \in Vertex : depth'[v] = level'}
        BY <2>3, <2>4
      <3>3. dir'.growing => newVis' = Isolated' \cup {v \in Vertex : Known(v)'}
        <4>1. d.growing => dir.forward /\ dir.growing
          BY <2>2
        <4>2. dir.forward => newVis' = newVis
          BY <2>1 DEF Expand, TopDownExpand
        <4> QED BY <2>3, <2>4, <4>1, <4>2 DEF Known
      <3> QED BY <2>3, <3>1, <3>2, <3>3 DEF ForwardOK
    <2>10. BackwardOK'
      <3> SUFFICES ASSUME ~ d.forward PROVE BackwardOK'
        BY <2>3 DEF BackwardOK
      <3>1. /\ newVis = Isolated \cup {v \in Vertex : Known(v)}
            /\ shared' = ColGather(newVis) /\ work' = newVis /\ oldVis' = newVis
        BY <2>1, <2>2 DEF Expand, SwapVisitedMemory
      <3>2. oldVis' = Isolated' \cup {v \in Vertex : Known(v)' /\ depth'[v] < level'}
        BY <2>3, <2>4, <3>1 DEF Known
      <3>3. shared' = ColGather(oldVis)'
        BY <3>1 DEF ColGather
      <3>4. \A v \in Vertex : depth'[v] # level'
        BY <2>3, <2>4
      <3> QED BY <2>3, <3>1, <3>2, <3>3, <3>4 DEF BackwardOK
    <2> QED BY <2>5, <2>6, <2>7, <2>8, <2>9, <2>10 DEF IInv
  <1> QED BY <1>1, <1>2

\* A forward level is complete: all edges of the frontier have arrived.
LEMMA TopDownLevel ==
  ASSUME IInv, phase = "td", scanned = Rank, msgs = {}
  PROVE  /\ Searching /\ dir.forward
         /\ nq = {v \in Vertex : depth[v] = level}
         /\ \A e \in graph : Known(e[1]) /\ depth[e[1]] < level => Known(e[2])
         /\ dir.growing => newVis = Isolated \cup {v \in Vertex : Known(v)}
  <1>1. dir.forward /\ Searching
    BY DEF IInv, DirOK, Searching
  <1>2. /\ nq = {v \in Vertex : depth[v] = level}
        /\ dir.growing => newVis = Isolated \cup {v \in Vertex : Known(v)}
    BY DEF IInv, ForwardOK
  <1>3. ASSUME NEW e \in graph, Known(e[1]), depth[e[1]] < level
        PROVE  Known(e[2])
    <2>1. e[1] \in Vertex /\ depth[e[1]] \in Nat \cup {-1} /\ level \in Nat
      BY EdgeFacts DEF IInv, TypeOK
    <2>2. CASE depth[e[1]] < level - 1
      BY <1>1, <1>3, <2>2 DEF IInv, LevelsClosed
    <2>3. CASE depth[e[1]] = level - 1
      BY <1>1, <2>3, EdgeStored DEF IInv, ForwardOK
    <2> QED BY <1>3, <2>1, <2>2, <2>3
  <1> QED BY <1>1, <1>2, <1>3

\* A backward level is complete: every rank of the row looked for a neighbour
\* of every vertex that is still unvisited.
LEMMA BottomUpLevel ==
  ASSUME IInv, phase = "bu", home = Rank, msgs = {}
  PROVE  /\ Searching /\ ~ dir.forward /\ dir.growing
         /\ newVis \ oldVis = {v \in Vertex : depth[v] = level}
         /\ newVis = Isolated \cup {v \in Vertex : Known(v)}
         /\ \A e \in graph : Known(e[1]) /\ depth[e[1]] < level => Known(e[2])
  <1>1. ~ dir.forward /\ dir.growing /\ Searching
    BY DEF IInv, DirOK, Searching
  <1>2. /\ level \in Nat /\ depth \in [Vertex -> Nat \cup {-1}]
        /\ \A v \in Vertex : depth[v] <= level
        /\ level >= 1
    BY <1>1 DEF IInv, TypeOK, DepthOK
  <1>3. newVis = work
    <2>1. \A v \in Vertex : v \in Slice(Owner(v)) /\ Owner(v) \in Rank
      BY OwnerOnGrid DEF Slice
    <2>2. newVis \subseteq Vertex /\ work \subseteq Vertex
      BY DEF IInv, TypeOK
    <2>3. \A q \in Rank : newVis \cap Slice(q) = work \cap Slice(q)
      BY <1>1 DEF IInv, BackwardOK
    <2> QED BY <2>1, <2>2, <2>3
  <1>4. /\ oldVis = Isolated \cup {v \in Vertex : Known(v) /\ depth[v] < level}
        /\ oldVis \subseteq newVis /\ newVis \subseteq Vertex
        /\ \A v \in Vertex : v \in newVis \ oldVis <=> depth[v] = level
    BY <1>1, <1>3 DEF IInv, BackwardOK, TypeOK
  <1>5. newVis \ oldVis = {v \in Vertex : depth[v] = level}
    BY <1>4
  <1>6. newVis = Isolated \cup {v \in Vertex : Known(v)}
    BY <1>2, <1>4, <1>5 DEF Known, Isolated
  <1>7. ASSUME NEW e \in graph, Known(e[1]), depth[e[1]] < level
        PROVE  Known(e[2])
    <2> DEFINE u == e[1]
               v == e[2]
    <2>1. /\ u \in Vertex /\ v \in Vertex /\ <<v, u>> \in graph
          /\ v \notin Isolated
      BY EdgeFacts DEF IInv
    <2>2. SUFFICES ASSUME ~ Known(v) PROVE FALSE
      OBVIOUS
    <2>3. v \in Slice(Owner(v)) \ work /\ Owner(v) \in Rank
      BY <1>3, <1>6, <2>1, <2>2, OwnerOnGrid DEF Slice
    <2>4. ColOf(u) \in passed[Owner(v)]
      BY <1>1, <2>1, <2>3, OwnerOnGrid DEF IInv, BackwardOK
    <2>5. Candidates(v, <<Owner(v)[1], ColOf(u)>>) = {}
      BY <1>1, <2>3, <2>4 DEF IInv, BackwardOK
    <2>6. Owner(v)[1] = RowOf(v)
      BY DEF Owner
    <2>7. <<RowOf(v), ColOf(u)>> \in Rank /\ <<v, u>> \in Stored(<<RowOf(v), ColOf(u)>>)
      BY <2>1, OwnerOnGrid DEF Rank, Stored
    <2>8. u \in oldVis
      BY <1>4, <1>7, <2>1
    <2>9. u \in shared[<<RowOf(v), ColOf(u)>>]
      BY <1>1, <2>7, <2>8 DEF IInv, BackwardOK, ColGather, TypeOK
    <2> QED BY <2>5, <2>6, <2>7, <2>9 DEF Candidates
  <1> QED BY <1>1, <1>5, <1>6, <1>7

LEMMA EndTopDownIInv == IInv /\ TypeOK' /\ EndTopDown => IInv'
  <1> SUFFICES ASSUME IInv, TypeOK', EndTopDown PROVE IInv'
    OBVIOUS
  <1>1. /\ phase = "td" /\ scanned = Rank /\ msgs = {}
        /\ FinishLevel(nq, [q \in Rank |-> Cardinality(nq \cap Slice(q))])
    BY DEF EndTopDown
  <1> QED BY <1>1, TopDownLevel, FinishIInv

LEMMA EndBottomUpIInv == IInv /\ TypeOK' /\ EndBottomUp => IInv'
  <1> SUFFICES ASSUME IInv, TypeOK', EndBottomUp PROVE IInv'
    OBVIOUS
  <1>1. /\ phase = "bu" /\ home = Rank /\ msgs = {}
        /\ FinishLevel(newVis \ oldVis, BottomUpNqSize(newVis \ oldVis))
    BY DEF EndBottomUp
  <1> QED BY <1>1, BottomUpLevel, FinishIInv

LEMMA NextIInv == IInv /\ [Next]_vars => IInv'
  <1> SUFFICES ASSUME IInv, [Next]_vars PROVE IInv'
    OBVIOUS
  <1>1. TypeOK'
    BY NextType DEF IInv
  <1>2. ASSUME NEW root \in Vertex, StartBfs(root) PROVE IInv'
    BY <1>1, <1>2, StartIInv
  <1>3. ASSUME NEW q \in Rank, TopDownScan(q) PROVE IInv'
    BY <1>1, <1>3, ScanIInv
  <1>4. ASSUME NEW m \in msgs, TopDownReceive(m) PROVE IInv'
    BY <1>1, <1>4, ReceiveIInv
  <1>5. ASSUME NEW q \in Rank, NEW d \in Col, BottomUpStep(q, d) PROVE IInv'
    BY <1>1, <1>5, StepIInv
  <1>6. ASSUME NEW q \in Rank, BitmapHome(q) PROVE IInv'
    BY <1>1, <1>6, HomeIInv
  <1>7. ASSUME NEW m \in msgs, BottomUpReceive(m) PROVE IInv'
    BY <1>1, <1>7, BuReceiveIInv
  <1>8. CASE EndTopDown
    BY <1>1, <1>8, EndTopDownIInv
  <1>9. CASE EndBottomUp
    BY <1>1, <1>9, EndBottomUpIInv
  <1>10. CASE UNCHANGED vars
    <2>1. TreeOK' /\ DepthOK' /\ LevelsClosed' /\ DirOK'
      BY <1>10, SameTree DEF vars, searchVars
    <2>2. ForwardOK'
      BY <1>10 DEF vars, searchVars, progVars, IInv, ForwardOK, Frontier, Stored,
                   Isolated, HasEdge, Known
    <2>3. BackwardOK'
      BY <1>10 DEF vars, searchVars, progVars, IInv, BackwardOK, Slice, Stored,
                   Isolated, HasEdge, Known, Candidates, ColGather
    <2> QED BY <1>1, <2>1, <2>2, <2>3 DEF IInv
  <1> QED
    BY <1>2, <1>3, <1>4, <1>5, <1>6, <1>7, <1>8, <1>9, <1>10 DEF Next
-----------------------------------------------------------------------------
(* Theorems *)

\* The parts of the invariant hold in every state of every search.
THEOREM Invariance == Spec => []IInv
  <1>1. Init => IInv
    BY InitIInv
  <1>2. IInv /\ [Next]_vars => IInv'
    BY NextIInv
  <1> QED BY <1>1, <1>2, PTL DEF Spec

\* The state of run_bfs keeps its types.
THEOREM TypeCorrect == Spec => []TypeOK
  <1>1. IInv => TypeOK
    BY DEF IInv
  <1> QED BY <1>1, Invariance, PTL

\* pred_ is a tree of the graph, one level per hop, in every state: in the
\* middle of levels, of either direction, and in every later search.
THEOREM Tree == Spec => []TreeOK
  <1>1. IInv => TreeOK
    BY DEF IInv
  <1> QED BY <1>1, Invariance, PTL

\* No message, whatever its order, overwrites the parent of a vertex: the
\* bottom-up owner need not look at pred_ before it stores one.
THEOREM WrittenOnce == Spec => PredWrittenOnce
  <1> DEFINE Once == \A v \in Vertex : pred[v] # None /\ roots' = roots
                       => pred'[v] = pred[v] /\ depth'[v] = depth[v]
  <1>1. IInv /\ [Next]_vars => [Once]_vars
    <2> SUFFICES ASSUME IInv, Next PROVE Once
      BY DEF vars
    <2>1. ASSUME NEW root \in Vertex, StartBfs(root) PROVE Once
      BY <2>1 DEF StartBfs
    <2>2. ASSUME NEW m \in msgs, TopDownReceive(m) PROVE Once
      <3>1. m[2] \in Vertex /\ pred \in [Vertex -> Vertex \cup {None}]
            /\ depth \in [Vertex -> Nat \cup {-1}]
        BY DEF IInv, TypeOK
      <3>2. Undiscovered(m[2]) => pred[m[2]] = None
        BY <2>2, <3>1 DEF TopDownReceive, Undiscovered, IInv, ForwardOK, DepthOK, Known
      <3> QED BY <2>2, <3>1, <3>2 DEF TopDownReceive
    <2>3. ASSUME NEW m \in msgs, BottomUpReceive(m) PROVE Once
      <3>1. m[2] \in Vertex /\ pred \in [Vertex -> Vertex \cup {None}]
            /\ depth \in [Vertex -> Nat \cup {-1}]
        BY DEF IInv, TypeOK
      <3>2. pred[m[2]] = None
        BY <2>3, <3>1 DEF BottomUpReceive, IInv, BackwardOK, DepthOK, Known
      <3> QED BY <2>3, <3>1, <3>2 DEF BottomUpReceive
    <2>4. ASSUME UNCHANGED <<pred, depth>> PROVE Once
      BY <2>4
    <2>5. ASSUME NEW found, NEW sizes, FinishLevel(found, sizes) PROVE Once
      BY <2>4, <2>5 DEF FinishLevel, Expand, searchVars
    <2>6. ASSUME NEW q \in Rank, TopDownScan(q) PROVE Once
      BY <2>4, <2>6 DEF TopDownScan
    <2>7. ASSUME NEW q \in Rank, NEW d \in Col, BottomUpStep(q, d) PROVE Once
      BY <2>4, <2>7 DEF BottomUpStep
    <2>8. ASSUME NEW q \in Rank, BitmapHome(q) PROVE Once
      BY <2>4, <2>8 DEF BitmapHome
    <2> QED BY <2>1, <2>2, <2>3, <2>5, <2>6, <2>7, <2>8 DEF Next, EndTopDown, EndBottomUp
  <1>2. Spec => [][Once]_vars
    BY <1>1, Invariance, PTL DEF Spec
  <1> QED BY <1>2 DEF PredWrittenOnce

\* A search that came back to top-down stays there.
THEOREM StaysForward == Spec => NoReturn
  <1> DEFINE Stays == roots' = roots /\ ~ dir.growing => ~ dir'.growing /\ phase' # "bu"
  <1>1. IInv /\ [Next]_vars => [Stays]_vars
    <2> SUFFICES ASSUME IInv, Next, roots' = roots, ~ dir.growing
                 PROVE  ~ dir'.growing /\ phase' # "bu"
      BY DEF vars
    <2>1. phase # "bu"
      BY DEF IInv, DirOK
    <2>2. ASSUME NEW root \in Vertex, StartBfs(root) PROVE FALSE
      BY <2>2 DEF StartBfs
    <2>3. ASSUME UNCHANGED <<dir, phase>> PROVE ~ dir'.growing /\ phase' # "bu"
      BY <2>1, <2>3
    <2>4. ASSUME NEW q \in Rank, TopDownScan(q) PROVE ~ dir'.growing /\ phase' # "bu"
      BY <2>3, <2>4 DEF TopDownScan
    <2>5. ASSUME NEW m \in msgs, TopDownReceive(m) PROVE ~ dir'.growing /\ phase' # "bu"
      BY <2>3, <2>5 DEF TopDownReceive
    <2>6. CASE EndTopDown
      <3> DEFINE sizes == [q \in Rank |-> Cardinality(nq \cap Slice(q))]
                 d == NextDirection(dir, Cardinality(nq), gnq,
                        visitedCnt + Cardinality(nq), NumGlobalVerts, sizes)
      <3>1. dir.forward /\ dir \in DirType
        BY <2>6 DEF EndTopDown, IInv, DirOK, TypeOK
      <3>2. ~ d.growing /\ d.forward
        BY <3>1, Decision DEF DirType
      <3>3. FinishLevel(nq, sizes)
        BY <2>6 DEF EndTopDown
      <3> HIDE DEF sizes
      <3>4. CASE Cardinality(nq) = 0
        BY <3>3, <3>4 DEF FinishLevel
      <3>5. CASE Cardinality(nq) # 0
        <4>1. Expand(d, nq)
          BY <3>3, <3>5 DEF FinishLevel
        <4> HIDE DEF d
        <4> QED BY <3>2, <4>1 DEF Expand
      <3> QED BY <3>4, <3>5
    <2> QED
      BY <2>1, <2>2, <2>4, <2>5, <2>6 DEF Next, BottomUpStep, BitmapHome, BottomUpReceive,
         EndBottomUp
  <1>2. Spec => [][Stays]_vars
    BY <1>1, Invariance, PTL DEF Spec
  <1> QED BY <1>2 DEF NoReturn

\* Why packet headers are never stale when edges are appended: only a
\* bottom-up level overwrites them, and all ranks are marked before it starts.
PacketsInv ==
  /\ phase = "bu" => \A q \in Rank : dirty[q]
  /\ \A q \in Rank : dirty[q] \/ fold[q] = "clean"
  /\ phase = "td" => \A q \in scanned : ~ dirty[q]

\* No edge is appended behind a header that a bottom-up search overwrote.
THEOREM Packets == Spec => []PacketsClean
  <1>1. Init => PacketsInv
    BY DEF Init, PacketsInv
  <1>2. IInv /\ PacketsInv /\ [Next]_vars => PacketsInv'
    <2> SUFFICES ASSUME IInv, PacketsInv, [Next]_vars PROVE PacketsInv'
      OBVIOUS
    <2>1. /\ scanned \subseteq Rank /\ dirty \in [Rank -> BOOLEAN]
          /\ fold \in [Rank -> {"clean", "stale"}]
      BY DEF IInv, TypeOK
    <2>2. ASSUME NEW root \in Vertex, StartBfs(root) PROVE PacketsInv'
      BY <2>2 DEF StartBfs, PacketsInv
    <2>3. ASSUME NEW q \in Rank, TopDownScan(q) PROVE PacketsInv'
      <3>1. /\ phase' = "td" /\ ~ dirty'[q] /\ fold'[q] = "clean"
            /\ \A p \in Rank \ {q} : dirty'[p] = dirty[p] /\ fold'[p] = fold[p]
            /\ scanned' = scanned \cup {q} /\ phase = "td"
        BY <2>1, <2>3 DEF TopDownScan, PacketsInv
      <3> QED BY <2>1, <3>1 DEF PacketsInv
    <2>4. ASSUME NEW m \in msgs, TopDownReceive(m) PROVE PacketsInv'
      BY <2>4 DEF TopDownReceive, PacketsInv, progVars
    <2>5. ASSUME NEW q \in Rank, NEW d \in Col, BottomUpStep(q, d) PROVE PacketsInv'
      BY <2>1, <2>5 DEF BottomUpStep, PacketsInv
    <2>6. ASSUME NEW q \in Rank, BitmapHome(q) PROVE PacketsInv'
      BY <2>6 DEF BitmapHome, PacketsInv
    <2>7. ASSUME NEW m \in msgs, BottomUpReceive(m) PROVE PacketsInv'
      BY <2>7 DEF BottomUpReceive, PacketsInv, progVars
    <2>8. ASSUME NEW found, NEW sizes, FinishLevel(found, sizes), Searching
          PROVE  PacketsInv'
      <3> DEFINE d == NextDirection(dir, Cardinality(found), gnq,
                        visitedCnt + Cardinality(found), NumGlobalVerts, sizes)
      <3>1. CASE Cardinality(found) = 0
        BY <2>8, <3>1 DEF FinishLevel, PacketsInv, progVars
      <3>2. CASE Cardinality(found) # 0
        <4>1. Expand(d, found)
          BY <2>8, <3>2 DEF FinishLevel
        <4> HIDE DEF d
        <4>2. /\ phase' = (IF d.forward THEN "td" ELSE "bu") /\ scanned' = {}
              /\ fold' = fold
              /\ \A q \in Rank : dirty'[q] = (dirty[q] \/ (dir.forward /\ ~ d.forward))
          BY <4>1, Zenon DEF Expand, PacketsDirty
        <4>3. ~ dir.forward => \A q \in Rank : dirty[q]
          BY <2>8 DEF PacketsInv, IInv, DirOK, Searching
        <4> QED BY <4>2, <4>3 DEF PacketsInv
      <3> QED BY <3>1, <3>2
    <2>9. CASE UNCHANGED vars
      BY <2>9 DEF vars, progVars, PacketsInv
    <2> QED BY <2>2, <2>3, <2>4, <2>5, <2>6, <2>7, <2>8, <2>9
            DEF Next, EndTopDown, EndBottomUp, Searching
  <1>3. IInv /\ PacketsInv => PacketsClean
    BY DEF PacketsInv, PacketsClean, IInv, TypeOK
  <1> QED BY <1>1, <1>2, <1>3, Invariance, PTL DEF Spec

-----------------------------------------------------------------------------
(* The end of a level, and what happens inside one *)

\* Both directions end a level in the same way.
LEMMA LevelEnd ==
  ASSUME IInv, EndTopDown \/ EndBottomUp
  PROVE  \E found, sizes :
           /\ FinishLevel(found, sizes) /\ Searching
           /\ found = {v \in Vertex : depth[v] = level}
           /\ \A e \in graph : Known(e[1]) /\ depth[e[1]] < level => Known(e[2])
  <1>1. CASE EndTopDown
    BY <1>1, TopDownLevel DEF EndTopDown
  <1>2. CASE EndBottomUp
    BY <1>2, BottomUpLevel DEF EndBottomUp
  <1> QED BY <1>1, <1>2

\* The outcome of the end of a level, as far as the tree and the counters go.
LEMMA LevelOutcome ==
  ASSUME NEW found, NEW sizes, FinishLevel(found, sizes)
  PROVE  /\ UNCHANGED <<graph, roots, pred, depth>>
         /\ visitedCnt' = visitedCnt + Cardinality(found)
         /\ \/ Cardinality(found) = 0 /\ phase' = "done" /\ level' = level
            \/ Cardinality(found) # 0 /\ phase' \in {"td", "bu"} /\ level' = level + 1
  <1>1. CASE Cardinality(found) = 0
    BY <1>1 DEF FinishLevel, searchVars
  <1>2. CASE Cardinality(found) # 0
    <2> DEFINE d == NextDirection(dir, Cardinality(found), gnq,
                      visitedCnt + Cardinality(found), NumGlobalVerts, sizes)
    <2>1. Expand(d, found) /\ visitedCnt' = visitedCnt + Cardinality(found)
      BY <1>2 DEF FinishLevel
    <2> HIDE DEF d
    <2> QED BY <1>2, <2>1 DEF Expand
  <1> QED BY <1>1, <1>2

\* A step inside a level writes the parent and level number of at most one
\* vertex, which has none yet and belongs to the level that is searched.
LEMMA LevelStep ==
  ASSUME IInv, Next,
         \A root \in Vertex : ~ StartBfs(root), ~ EndTopDown, ~ EndBottomUp
  PROVE  /\ UNCHANGED <<graph, roots, phase, level, visitedCnt>>
         /\ Searching
         /\ \/ UNCHANGED <<pred, depth>>
            \/ \E v \in Vertex, u \in Vertex :
                 /\ depth[v] = -1 /\ pred[v] = None
                 /\ pred' = [pred EXCEPT ![v] = u]
                 /\ depth' = [depth EXCEPT ![v] = level]
  <1>1. ASSUME NEW m \in msgs
        PROVE  m[1] \in Vertex /\ m[2] \in Vertex /\ depth[m[2]] \in Nat \cup {-1}
    BY DEF IInv, TypeOK
  <1>2. ASSUME NEW q \in Rank, TopDownScan(q)
        PROVE  /\ UNCHANGED <<graph, roots, phase, level, visitedCnt, pred, depth>>
               /\ Searching
    BY <1>2 DEF TopDownScan, Searching
  <1>3. ASSUME NEW m \in msgs, TopDownReceive(m)
        PROVE  /\ UNCHANGED <<graph, roots, phase, level, visitedCnt>> /\ Searching
               /\ \/ UNCHANGED <<pred, depth>>
                  \/ /\ depth[m[2]] = -1 /\ pred[m[2]] = None
                     /\ pred' = [pred EXCEPT ![m[2]] = m[1]]
                     /\ depth' = [depth EXCEPT ![m[2]] = level]
    <2>1. Undiscovered(m[2]) => depth[m[2]] = -1 /\ pred[m[2]] = None
      BY <1>1, <1>3 DEF TopDownReceive, Undiscovered, IInv, ForwardOK, DepthOK, Known
    <2> QED BY <1>3, <2>1 DEF TopDownReceive, Searching
  <1>4. ASSUME NEW q \in Rank, NEW d \in Col, BottomUpStep(q, d)
        PROVE  /\ UNCHANGED <<graph, roots, phase, level, visitedCnt, pred, depth>>
               /\ Searching
    BY <1>4 DEF BottomUpStep, Searching
  <1>5. ASSUME NEW q \in Rank, BitmapHome(q)
        PROVE  /\ UNCHANGED <<graph, roots, phase, level, visitedCnt, pred, depth>>
               /\ Searching
    BY <1>5 DEF BitmapHome, Searching
  <1>6. ASSUME NEW m \in msgs, BottomUpReceive(m)
        PROVE  /\ UNCHANGED <<graph, roots, phase, level, visitedCnt>> /\ Searching
               /\ depth[m[2]] = -1 /\ pred[m[2]] = None
               /\ pred' = [pred EXCEPT ![m[2]] = m[1]]
               /\ depth' = [depth EXCEPT ![m[2]] = level]
    <2>1. depth[m[2]] = -1 /\ pred[m[2]] = None
      BY <1>1, <1>6 DEF BottomUpReceive, IInv, BackwardOK, DepthOK, Known
    <2> QED BY <1>6, <2>1 DEF BottomUpReceive, Searching
  <1> QED BY <1>1, <1>2, <1>3, <1>4, <1>5, <1>6 DEF Next
-----------------------------------------------------------------------------
(* The count of visited vertices *)

\* global_visited_vertices is the number of vertices in complete levels, for
\* both directions, which count their finds in different places.
THEOREM Counted == Spec => []VisitedCount
  <1> DEFINE Visited == {v \in Vertex : depth[v] >= 0 /\ (phase = "done" \/ depth[v] < level)}
  <1>1. Init => VisitedCount
    BY DEF Init, VisitedCount
  <1>2. IInv /\ VisitedCount /\ [Next]_vars => VisitedCount'
    <2> SUFFICES ASSUME IInv, VisitedCount, [Next]_vars PROVE VisitedCount'
      OBVIOUS
    <2>1. depth \in [Vertex -> Nat \cup {-1}] /\ level \in Nat /\ visitedCnt \in Nat
      BY DEF IInv, TypeOK
    <2>2. ASSUME NEW root \in Vertex, StartBfs(root) PROVE VisitedCount'
      <3>1. Visited' = {root} /\ visitedCnt' = 1
        BY <2>2 DEF StartBfs
      <3> QED BY <3>1, FS_Singleton DEF VisitedCount
    <2>3. CASE EndTopDown \/ EndBottomUp
      <3>1. PICK found, sizes : /\ FinishLevel(found, sizes) /\ Searching
                                /\ found = {v \in Vertex : depth[v] = level}
        BY <2>3, LevelEnd
      <3>2. /\ depth' = depth /\ visitedCnt' = visitedCnt + Cardinality(found)
            /\ \/ Cardinality(found) = 0 /\ phase' = "done" /\ level' = level
               \/ phase' \in {"td", "bu"} /\ level' = level + 1
        BY <3>1, LevelOutcome
      <3>3. \A v \in Vertex : depth[v] <= level
        BY <3>1 DEF IInv, DepthOK
      <3>4. Visited' = Visited \cup found /\ Visited \cap found = {}
        BY <2>1, <3>1, <3>2, <3>3 DEF Searching
      <3>5. IsFiniteSet(Visited) /\ IsFiniteSet(found)
        BY <3>1, VertexSets
      <3>6. Cardinality(Visited') = Cardinality(Visited) + Cardinality(found)
        <4>1. Cardinality(Visited \cap found) = 0
          BY <3>4, FS_EmptySet
        <4>2. Cardinality(Visited) \in Nat /\ Cardinality(found) \in Nat
          BY <3>5, FS_CardinalityType
        <4>3. Cardinality(Visited \cup found)
                = Cardinality(Visited) + Cardinality(found) - Cardinality(Visited \cap found)
          BY <3>5, FS_Union
        <4>4. Cardinality(Visited') = Cardinality(Visited \cup found)
          BY <3>4
        <4> HIDE DEF Visited
        <4> QED BY <4>1, <4>2, <4>3, <4>4
      <3>7. visitedCnt = Cardinality(Visited)
        BY <3>1 DEF VisitedCount, Searching
      <3> QED BY <3>2, <3>6, <3>7 DEF VisitedCount
    <2>4. CASE /\ Next /\ \A root \in Vertex : ~ StartBfs(root)
               /\ ~ EndTopDown /\ ~ EndBottomUp
      <3>1. UNCHANGED <<phase, level, visitedCnt>> /\ Searching
        BY <2>4, LevelStep
      <3>2. ASSUME NEW v \in Vertex
            PROVE  depth'[v] >= 0 /\ depth'[v] < level <=> depth[v] >= 0 /\ depth[v] < level
        BY <2>1, <2>4, LevelStep
      <3>3. Visited' = Visited
        BY <3>1, <3>2 DEF Searching
      <3> QED BY <3>1, <3>3 DEF VisitedCount
    <2>5. CASE UNCHANGED vars
      BY <2>5 DEF vars, searchVars, VisitedCount
    <2> QED BY <2>2, <2>3, <2>4, <2>5
  <1> QED BY <1>1, <1>2, Invariance, PTL DEF Spec
-----------------------------------------------------------------------------
(* The search implements the abstract one, level by level *)

\* The next level of the abstract search is what the level has found.
LEMMA FoundIsNextLevel ==
  ASSUME IInv, Searching, NEW found,
         found = {v \in Vertex : depth[v] = level},
         \A e \in graph : Known(e[1]) /\ depth[e[1]] < level => Known(e[2])
  PROVE  /\ Abs!NextLevel = found
         /\ \A v \in found : pred[v] \in Abs!Parents(v)
  <1> DEFINE dist == [v \in Vertex |-> IF Complete(v) THEN depth[v] ELSE -1]
  <1>1. /\ depth \in [Vertex -> Nat \cup {-1}] /\ level \in Nat /\ level >= 1
        /\ pred \in [Vertex -> Vertex \cup {None}]
        /\ \A v \in Vertex : depth[v] <= level
    BY DEF IInv, TypeOK, DepthOK
  <1>2. \A v \in Vertex : Abs!Parents(v) = {u \in Vertex : depth[u] = level - 1 /\ <<u, v>> \in graph}
    BY <1>1 DEF Abs!Parents, Complete
  <1>3. ASSUME NEW v \in found
        PROVE  v \in Vertex /\ pred[v] \in Abs!Parents(v)
    <2>1. v \in Vertex /\ depth[v] = level
      OBVIOUS
    <2>2. pred[v] # None
      BY <1>1, <2>1 DEF IInv, DepthOK
    <2>3. /\ <<pred[v], v>> \in graph /\ pred[v] \in Vertex
          /\ depth[v] = depth[pred[v]] + 1
      BY <1>1, <2>1, <2>2 DEF IInv, TreeOK
    <2>4. depth[pred[v]] = level - 1
      BY <1>1, <2>1, <2>3
    <2> QED BY <1>2, <2>1, <2>3, <2>4
  <1>4. ASSUME NEW v \in Vertex, ~ Complete(v) \/ depth[v] = -1, Abs!Parents(v) # {}
        PROVE  v \in found
    <2>1. PICK u \in Vertex : depth[u] = level - 1 /\ <<u, v>> \in graph
      BY <1>2, <1>4
    <2>2. <<u, v>>[1] = u /\ <<u, v>>[2] = v
      OBVIOUS
    <2>3. Known(v)
      BY <1>1, <2>1, <2>2 DEF Known
    <2> QED BY <1>1, <1>4, <2>3 DEF Known, Complete
  <1>5. \A v \in Vertex : dist[v] = -1 <=> ~ Complete(v) \/ depth[v] = -1
    OBVIOUS
  <1>6. Abs!NextLevel = {v \in Vertex : dist[v] = -1 /\ Abs!Parents(v) # {}}
    BY DEF Abs!NextLevel
  <1>7. \A v \in found : ~ Complete(v)
    BY <1>1 DEF Complete
  <1> HIDE DEF dist
  <1> QED BY <1>3, <1>4, <1>5, <1>6, <1>7

\* The hybrid search is a level-by-level search: every level is found
\* completely, with parents from the level before, whatever the directions,
\* the grid and the order of messages.
THEOREM Refinement == Spec => LevelByLevel
  <1> DEFINE parent == [v \in Vertex |-> IF Complete(v) THEN pred[v] ELSE None]
             dist   == [v \in Vertex |-> IF Complete(v) THEN depth[v] ELSE -1]
  <1>1. Init => Abs!Init
    BY DEF Init, Abs!Init, Complete
  <1>2. IInv /\ [Next]_vars => [Abs!Next]_(Abs!absVars)
    <2> SUFFICES ASSUME IInv, [Next]_vars PROVE [Abs!Next]_(Abs!absVars)
      OBVIOUS
    <2>1. /\ depth \in [Vertex -> Nat \cup {-1}] /\ level \in Nat
          /\ pred \in [Vertex -> Vertex \cup {None}]
      BY DEF IInv, TypeOK
    <2>2. ASSUME NEW root \in Vertex, StartBfs(root) PROVE Abs!Start(root)
      <3>1. /\ graph' = graph /\ roots' = roots \cup {root}
            /\ root \notin roots
            /\ \E u \in Vertex : <<root, u>> \in graph
            /\ phase \in {"idle", "done"} /\ phase' = "td" /\ level' = 1
        BY <2>2 DEF StartBfs, HasEdge
      <3>2. parent' = [v \in Vertex |-> IF v = root THEN root ELSE None]
        BY <2>2 DEF StartBfs, Complete
      <3>3. dist' = [v \in Vertex |-> IF v = root THEN 0 ELSE -1]
        BY <2>2 DEF StartBfs, Complete
      <3> QED BY <3>1, <3>2, <3>3 DEF Abs!Start
    <2>3. CASE EndTopDown \/ EndBottomUp
      <3>1. PICK found, sizes :
              /\ FinishLevel(found, sizes) /\ Searching
              /\ found = {v \in Vertex : depth[v] = level}
              /\ \A e \in graph : Known(e[1]) /\ depth[e[1]] < level => Known(e[2])
        BY <2>3, LevelEnd
      <3>2. Abs!NextLevel = found /\ \A v \in found : pred[v] \in Abs!Parents(v)
        BY <3>1, FoundIsNextLevel
      <3>3. UNCHANGED <<graph, roots, pred, depth>>
        BY <3>1, LevelOutcome
      <3>4. \A v \in Vertex : depth[v] <= level
        BY <3>1 DEF IInv, DepthOK
      <3>5. IsFiniteSet(found)
        BY <3>1, VertexSets
      <3>6. CASE Cardinality(found) = 0
        <4>1. phase' = "done" /\ level' = level
          BY <3>1, <3>6, LevelOutcome
        <4>2. found = {}
          BY <3>5, <3>6, FS_EmptySet
        <4>3. parent' = parent /\ dist' = dist
          BY <3>3, <4>1 DEF Complete
        <4> QED BY <3>1, <3>2, <3>3, <4>1, <4>2, <4>3 DEF Abs!Finish, Abs!Next, Searching
      <3>7. CASE Cardinality(found) # 0
        <4>1. phase' \in {"td", "bu"} /\ level' = level + 1
          BY <3>1, <3>7, LevelOutcome
        <4>2. found # {}
          BY <3>7, FS_EmptySet
        <4>3. ASSUME NEW v \in Vertex
              PROVE  /\ dist'[v] = IF v \in found THEN (level - 1) + 1 ELSE dist[v]
                     /\ parent'[v] = pred[v]
                     /\ v \notin found => parent[v] = pred[v]
          BY <2>1, <3>1, <3>3, <3>4, <4>1 DEF Complete
        <4>4. dist' = [v \in Vertex |-> IF v \in found THEN (level - 1) + 1 ELSE dist[v]]
          BY <4>3
        <4>5. parent' \in [Vertex -> Vertex \cup {None}]
          BY <2>1, <4>3
        <4>6. \A v \in Vertex : IF v \in found THEN parent'[v] \in Abs!Parents(v)
                                               ELSE parent'[v] = parent[v]
          BY <3>2, <4>3
        <4>7. level' - 1 = (level - 1) + 1
          BY <2>1, <4>1
        <4> QED BY <3>1, <3>2, <3>3, <4>1, <4>2, <4>4, <4>5, <4>6, <4>7
                DEF Abs!Discover, Abs!Next, Searching
      <3> QED BY <3>6, <3>7
    <2>4. CASE /\ Next /\ \A root \in Vertex : ~ StartBfs(root)
               /\ ~ EndTopDown /\ ~ EndBottomUp
      <3>1. UNCHANGED <<graph, roots, phase, level>>
        BY <2>4, LevelStep
      <3>2. parent' = parent /\ dist' = dist
        BY <2>1, <2>4, <3>1, LevelStep DEF Complete
      <3> QED BY <3>1, <3>2 DEF Abs!absVars
    <2>5. CASE UNCHANGED vars
      BY <2>5 DEF vars, searchVars, Abs!absVars, Complete
    <2> QED BY <2>2, <2>3, <2>4, <2>5 DEF Abs!Next
  <1> QED BY <1>1, <1>2, Invariance, PTL DEF Spec, LevelByLevel, Abs!Spec
=============================================================================
