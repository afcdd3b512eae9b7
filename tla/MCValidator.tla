---------------------------- MODULE MCValidator ----------------------------
(* Instances of Validator for TLC: four vertices on 2 x 2 ranks. *)
EXTENDS Validator

\* A square 0 1 3 2 with a duplicate edge and a self-loop; rank 0 has three
\* edges, more than a chunk of two.
Square == <<<<0, 1>>, <<0, 1>>, <<2, 0>>, <<1, 3>>, <<3, 2>>, <<2, 2>>, <<2, 1>>>>
\* Vertices 2 and 3 are not connected to 0; every rank has one edge at most.
Parts  == <<<<0, 1>>, <<2, 3>>>>
\* A path, listed from the far end; again rank 0 has edges for two chunks.
Back   == <<<<3, 1>>, <<1, 2>>, <<0, 0>>, <<2, 0>>, <<0, 2>>, <<0, 2>>, <<2, 2>>>>
\* edge_owner, and the list as redistribute_edge_2d leaves it
EdgeRank(e) == (e[1] % R) + ((e[2] \div R) % C) * R
Distributed(L) == [r \in Rank |-> SelectSeq(L, LAMBDA e : EdgeRank(e) = r)]
MCEdgeLists == {Distributed(L) : L \in {Square, Parts, Back}}

\* A vertex without a parent has no depth (ValidatorAssumption).
Entries(parents) == {[parent |-> -1, depth |-> Max16]}
                      \cup [parent : parents, depth : {0, 1, 2, Max16}]
\* Every combination of such entries, and an out-of-range parent of vertex 3;
\* no parent of the root but itself, vertex 1 and none.
MCResults ==
  {[v \in Vertex |-> IF v = 0 THEN a ELSE IF v = 1 THEN b ELSE IF v = 2 THEN c ELSE d] :
     a \in Entries({0, 1}), b \in Entries(Vertex), c \in Entries(Vertex),
     d \in Entries(Vertex \cup {NumVerts})}

\* Results whose root is its own parent at depth 0, the others arbitrary.
RootedResults == {p \in MCResults : p[0] = [parent |-> 0, depth |-> 0]}
============================================================================
