--------------------------- MODULE Validator_proofs ---------------------------
(***************************************************************************)
(* Theorems about BfsValidation::validate for every edge list, every       *)
(* parent array, every grid of ranks and every chunk size: the ranks that  *)
(* return agree, what they accept is a breadth-first search, and they      *)
(* accept it with the number of edges in the component of its root. They   *)
(* hold as long as the errors of all ranks sum to less than the values of  *)
(* an MPI_INT, in which the code adds its 64 bit error counts.             *)
(***************************************************************************)
EXTENDS Validator, FiniteSetTheorems, WellFoundedInduction, SequenceTheorems, TLAPS

Places == {"ranges", "parents", "depths", "ask row", "ask column", "reply row",
           "reply column", "mark row", "mark column", "visits", "returned"}
InLoop == {"ask row", "ask column", "reply row", "reply column", "mark row",
           "mark column", "visits"}

\* What the sums of the error counts rely on (validate.hpp:517, 570, 581, 800).
ErrorsFit == Total(errors) < IntValues

\* The types of the state.
TypeOK ==
  /\ edges \in [Rank -> Seq(Vertex \X Vertex)]
  /\ pred \in [Vertex -> Entry]
  /\ pc \in [Rank -> Places]
  /\ loop \in [Rank -> Nat]
  /\ errors \in [Rank -> Nat]
  /\ verdict \in [Rank -> {"none", "true", "false"}]

\* Nobody has returned, or all have with one answer, or the owner of the root
\* has left the others in the second collective operation.
Agreement ==
  \/ \A r \in Rank : pc[r] # "returned" /\ verdict[r] = "none"
  \/ /\ \A r \in Rank : pc[r] = "returned"
     /\ \A r, s \in Rank : verdict[r] = verdict[s]
  \/ /\ \A r \in Rank : \/ pc[r] = "parents" /\ verdict[r] = "none"
                        \/ pc[r] = "returned" /\ verdict[r] = "false"
     /\ \E r \in Rank : pc[r] = "returned"
-----------------------------------------------------------------------------
\* A rank is in its own row and column.
LEMMA OwnGroup == ASSUME NEW r \in Rank PROVE r \in RowOf(r) /\ r \in ColumnOf(r)
BY DEF RowOf, ColumnOf

LEMMA RankExists == 0 \in Rank
<1>1. R \in Nat \ {0} /\ C \in Nat \ {0} BY ValidatorAssumption
<1>2. R * C > 0 /\ R * C \in Nat BY <1>1
<1> QED BY <1>2 DEF Rank, Size

\* The three ways in which the answers of the ranks can stand to each other
\* are all there are.
LEMMA AgreementInit == Init => Agreement
BY DEF Init, Agreement

\* Every nonempty set of natural numbers has a least element: the proofs below
\* take a least counterexample where one would like to use induction.
LEMMA LeastNatural ==
  ASSUME NEW T \in SUBSET Nat, T # {}
  PROVE  \E x \in T : \A y \in T : x <= y
<1> DEFINE Less == {ss \in Nat \X Nat : ss[1] < ss[2]}
<1>1. IsWellFoundedOn(Less, Nat)
  BY NatLessThanWellFounded, Zenon DEF OpToRel
<1>2. PICK x \in T : \A y \in T : ~ (<<y, x>> \in Less)
  <2> HIDE DEF Less
  <2> QED BY <1>1, WFMin
<1>3. ASSUME NEW y \in T PROVE x <= y
  <2>1. x \in Nat /\ y \in Nat OBVIOUS
  <2>2. <<y, x>> \in Nat \X Nat BY <2>1
  <2>3. ~ (y < x) BY <1>2, <2>2
  <2> QED BY <2>1, <2>3
<1> QED BY <1>3

\* One rank has at least as many edges as any other.
LEMMA LongestExists ==
  ASSUME edges \in [Rank -> Seq(Vertex \X Vertex)]
  PROVE  /\ Longest \in Nat
         /\ \A r \in Rank : Len(edges[r]) <= Longest
<1> DEFINE Bounds(k) == \E r \in Rank : \A s \in 0 .. k - 1 : Len(edges[s]) <= Len(edges[r])
           T == {k \in 1 .. Size : ~ Bounds(k)}
<1>1. Size \in Nat /\ Size >= 1
  BY RankExists, ValidatorAssumption DEF Rank, Size
<1>2. \A r \in Rank : Len(edges[r]) \in Nat
  OBVIOUS
<1>3. T = {}
  <2> SUFFICES ASSUME T # {} PROVE FALSE
    OBVIOUS
  <2>1. PICK k \in T : \A j \in T : k <= j
    <3>1. T \in SUBSET Nat BY <1>1
    <3> QED BY <3>1, LeastNatural
  <2>2. k \in 1 .. Size /\ ~ Bounds(k)
    BY <2>1
  <2>3. k # 1
    BY <2>2, <1>2, RankExists
  <2>4. k - 1 \in 1 .. Size /\ k - 1 \in Rank
    BY <2>2, <2>3, <1>1 DEF Rank
  <2>5. Bounds(k - 1)
    BY <2>1, <2>2, <2>4
  <2>6. PICK r \in Rank : \A s \in 0 .. k - 2 : Len(edges[s]) <= Len(edges[r])
    BY <2>5, <2>2
  <2>7. \A s \in 0 .. k - 1 : s \in Rank /\ (s \in 0 .. k - 2 \/ s = k - 1)
    <3>1. k \in Nat /\ k >= 1 /\ k <= Size BY <2>2, <1>1
    <3> QED BY <3>1, <1>1 DEF Rank
  <2>8. CASE Len(edges[k - 1]) <= Len(edges[r])
    BY <2>2, <2>6, <2>7, <2>8
  <2>9. CASE Len(edges[r]) <= Len(edges[k - 1])
    <3>1. ASSUME NEW s \in 0 .. k - 1 PROVE Len(edges[s]) <= Len(edges[k - 1])
      <4>1. Len(edges[s]) \in Nat /\ Len(edges[k - 1]) \in Nat /\ Len(edges[r]) \in Nat
        BY <2>4, <2>7, <1>2
      <4>2. CASE s = k - 1 BY <4>1, <4>2
      <4>3. CASE s \in 0 .. k - 2 BY <4>1, <4>3, <2>6, <2>9, SMTT(30)
      <4> QED BY <4>2, <4>3, <2>7
    <3> QED BY <2>2, <2>4, <3>1
  <2> QED BY <2>4, <2>8, <2>9, <1>2
<1>4. Bounds(Size)
  <2> HIDE DEF Bounds
  <2>1. Size \in 1 .. Size BY <1>1
  <2> QED BY <2>1, <1>3
<1>5. PICK r \in Rank : \A s \in Rank : Len(edges[s]) <= Len(edges[r])
  BY <1>4 DEF Rank
<1>6. Len(edges[r]) \in {Len(edges[s]) : s \in Rank}
  OBVIOUS
<1>7. \E n \in {Len(edges[s]) : s \in Rank} : \A s \in Rank : Len(edges[s]) <= n
  BY <1>5, <1>6
<1>8. /\ Longest \in {Len(edges[s]) : s \in Rank}
      /\ \A s \in Rank : Len(edges[s]) <= Longest
  BY <1>7 DEF Longest
<1> QED BY <1>2, <1>8

\* Division with remainder.
LEMMA DivisionMod ==
  ASSUME NEW a \in Nat, NEW c \in Nat, c > 0
  PROVE  /\ a \div c \in Nat
         /\ a = (c * (a \div c)) + (a % c)
         /\ a % c \in 0 .. c - 1
OBVIOUS

LEMMA RoundsUp ==
  ASSUME NEW x \in Nat, NEW n \in Nat, NEW c \in Nat, NEW u \in Nat, NEW w \in Nat,
         NEW m \in 0 .. c - 1, NEW k \in 0 .. c - 1,
         x < n, x = u + m, n + c - 1 = w + k
  PROVE  u < w
OBVIOUS

\* Every edge of a rank is in one of the chunks that are read.
LEMMA InSomeChunk ==
  ASSUME edges \in [Rank -> Seq(Vertex \X Vertex)],
         NEW r \in Rank, NEW i \in DOMAIN edges[r]
  PROVE  (i - 1) \div Chunk \in Nat /\ (i - 1) \div Chunk < NumLoops
<1> DEFINE n == Longest
           q == (i - 1) \div Chunk
           p == (n + Chunk - 1) \div Chunk
<1>1. Chunk \in Nat /\ Chunk > 0
  BY ValidatorAssumption
<1>2. i \in Nat /\ i >= 1 /\ i <= n /\ n \in Nat
  <2>1. i \in 1 .. Len(edges[r]) /\ Len(edges[r]) \in Nat OBVIOUS
  <2> QED BY <2>1, LongestExists
<1> HIDE DEF n
<1>3. /\ q \in Nat
      /\ i - 1 = (Chunk * q) + ((i - 1) % Chunk)
      /\ (i - 1) % Chunk \in 0 .. Chunk - 1
  <2>1. i - 1 \in Nat BY <1>2
  <2> QED BY <1>1, <2>1, DivisionMod
<1>4. /\ p \in Nat
      /\ n + Chunk - 1 = (Chunk * p) + ((n + Chunk - 1) % Chunk)
      /\ (n + Chunk - 1) % Chunk \in 0 .. Chunk - 1
  <2>1. n + Chunk - 1 \in Nat BY <1>1, <1>2
  <2> QED BY <1>1, <2>1, DivisionMod
<1> HIDE DEF p, q
<1>5. ASSUME p <= q PROVE FALSE
  <2>1. Chunk * p <= Chunk * q
    BY <1>1, <1>3, <1>4, <1>5
  <2>2. Chunk * p \in Nat /\ Chunk * q \in Nat
    BY <1>1, <1>3, <1>4
  <2>3. i - 1 \in Nat /\ i - 1 < n
    BY <1>2
  <2>4. Chunk * q < Chunk * p
    BY <1>1, <1>2, <1>3, <1>4, <2>2, <2>3, RoundsUp
  <2> QED BY <2>1, <2>2, <2>4
<1>6. q < p
  BY <1>3, <1>4, <1>5
<1> QED BY <1>3, <1>6 DEF NumLoops, n, p, q
-----------------------------------------------------------------------------
\* u and v are the ends of an edge that some rank holds.
Linked(u, v) ==
  \E r \in Rank : \E i \in DOMAIN edges[r] : \E k \in {1, 2} :
    edges[r][i][k] = u /\ edges[r][i][3 - k] = v

\* The errors that the counts of a rank stand for.
OutOfRange(r) == \E v \in LocalVerts(r) : Parent(v) \notin -1 .. NumVerts - 1
SelfParent(r) == \E v \in LocalVerts(r) \ {Root} : Parent(v) = v
DepthError(v) ==
  \/ v = Root /\ Depth(v) # 0
  \/ (Parent(v) = -1) # (Depth(v) = Max16)
  \/ /\ v # Root /\ Parent(v) # -1
     /\ Depth(Parent(v)) = Max16 \/ Depth(v) # Depth(Parent(v)) + 1
NoTreeEdge(r) ==
  \E v \in LocalVerts(r) \ {Root} : Parent(v) # -1 /\ v \notin valid

InRange == \A v \in Vertex : Parent(v) \in -1 .. NumVerts - 1
\* What the steps before the loop over the edges establish.
TreeChecked == InRange /\ Parent(Root) = Root /\ \A v \in Vertex : ~ DepthError(v)
\* What the whole validation establishes.
AllChecked ==
  /\ TreeChecked
  /\ \A r \in Rank : \A i \in DOMAIN edges[r] : ~ EdgeError(edges[r][i])
  /\ \A v \in Vertex \ {Root} : Parent(v) # -1 => Linked(v, Parent(v))

\* A rank that got past a sum of errors knows that nobody had one.
Stages ==
  /\ \A r \in Rank : pc[r] = "ranges" => errors[r] = RangeErrors(r)
  /\ \A r \in Rank : pc[r] \notin {"ranges", "returned"} => InRange
  /\ \A r \in Rank : pc[r] = "parents" => errors[r] = ParentErrors(r)
  /\ \A r \in Rank : pc[r] \in {"depths"} \cup InLoop => Parent(Root) = Root
  /\ \A r \in Rank : pc[r] = "depths" => errors[r] = DepthErrors(r)
  /\ \A r \in Rank : pc[r] \in InLoop => \A v \in Vertex : ~ DepthError(v)

\* the chunk that edge number i of a rank is in
ChunkOf(i) == (i - 1) \div Chunk

\* A rank that has checked a chunk with a wrong edge knows it, and it leaves
\* the loop only with an error or behind the last chunk.
ChunksChecked ==
  /\ \A r \in Rank : pc[r] \in {"ranges", "parents", "depths"} => loop[r] = 0
  /\ \A r \in Rank : pc[r] = "visits" => errors[r] # 0 \/ loop[r] >= NumLoops
  /\ \A r \in Rank : \A i \in DOMAIN edges[r] :
       /\ EdgeError(edges[r][i])
       /\ \/ ChunkOf(i) < loop[r]
          \/ ChunkOf(i) = loop[r] /\ pc[r] \in {"mark row", "mark column"}
       => errors[r] # 0

\* Only a vertex whose edge to its parent is in the list is marked.
MarksListed == \A v \in valid : Linked(v, Parent(v))

Accepted == (\E r \in Rank : verdict[r] = "true") => AllChecked

IInv == TypeOK /\ Stages /\ ChunksChecked /\ MarksListed /\ Accepted
-----------------------------------------------------------------------------
LEMMA OwnerIsRank == \A v \in Vertex : Owner(v) \in Rank /\ v \in LocalVerts(Owner(v))
<1>1. Size \in Nat /\ Size >= 1
  BY RankExists, ValidatorAssumption DEF Rank, Size
<1>2. ASSUME NEW v \in Vertex PROVE v % Size \in 0 .. Size - 1
  <2>1. v \in Nat BY ValidatorAssumption DEF Vertex
  <2> QED BY <1>1, <2>1
<1> QED BY <1>2 DEF Owner, Rank, LocalVerts

LEMMA NumLoopsNat ==
  ASSUME edges \in [Rank -> Seq(Vertex \X Vertex)] PROVE NumLoops \in Nat
<1>1. Longest \in Nat /\ Chunk \in Nat /\ Chunk > 0
  BY LongestExists, ValidatorAssumption
<1>2. Longest + Chunk - 1 \in Nat
  BY <1>1
<1> QED BY <1>1, <1>2, DivisionMod DEF NumLoops

LEMMA SumNat == \A m, n \in Nat : m + n \in Nat
OBVIOUS

LEMMA SizeNat == Size \in Nat /\ Size >= 1 /\ Rank = 0 .. Size - 1
BY RankExists, ValidatorAssumption DEF Rank, Size

\* What holds for 0 and from one number to the next holds up to n.
LEMMA UpTo ==
  ASSUME NEW n \in Nat, NEW G, 0 \in G, \A k \in 1 .. n : k - 1 \in G => k \in G
  PROVE  \A k \in 0 .. n : k \in G
<1> DEFINE T == {k \in 0 .. n : k \notin G}
<1> SUFFICES ASSUME T # {} PROVE FALSE
  OBVIOUS
<1>1. PICK k \in T : \A j \in T : k <= j
  <2>1. T \in SUBSET Nat
    OBVIOUS
  <2> QED BY <2>1, LeastNatural
<1>2. k \in 1 .. n /\ k - 1 \in 0 .. n /\ ~ (k <= k - 1)
  OBVIOUS
<1> QED BY <1>1, <1>2

\* The sums of the counts of the first ranks.
IsSum(e, n, s) ==
  s = [k \in 0 .. n |-> IF k = 0 THEN 0 ELSE s[k - 1] + e[k - 1]]

LEMMA SumExists ==
  ASSUME NEW n \in Nat, NEW e PROVE \E s : IsSum(e, n, s)
<1> DEFINE G == {k \in 0 .. n : \E s : IsSum(e, k, s)}
<1>1. 0 \in G
  <2>1. IsSum(e, 0, [k \in 0 .. 0 |-> 0])
    BY DEF IsSum
  <2> QED BY <2>1
<1>2. ASSUME NEW k \in 1 .. n, k - 1 \in G PROVE k \in G
  <2>1. PICK s : IsSum(e, k - 1, s)
    BY <1>2
  <2> DEFINE t == [i \in 0 .. k |-> IF i = k THEN s[k - 1] + e[k - 1] ELSE s[i]]
  <2>2. ASSUME NEW i \in 0 .. k PROVE t[i] = IF i = 0 THEN 0 ELSE t[i - 1] + e[i - 1]
    <3>1. CASE i = k
      <4>1. i # 0 /\ i - 1 \in 0 .. k /\ i - 1 # k
        BY <3>1
      <4> QED BY <3>1, <4>1
    <3>2. CASE i # k
      <4>1. i \in 0 .. k - 1
        BY <3>2
      <4>2. s[i] = IF i = 0 THEN 0 ELSE s[i - 1] + e[i - 1]
        BY <2>1, <4>1 DEF IsSum
      <4>3. i # 0 => i - 1 \in 0 .. k /\ i - 1 # k
        BY <4>1
      <4> QED BY <3>2, <4>2, <4>3
    <3> QED BY <3>1, <3>2
  <2>3. t = [i \in 0 .. k |-> t[i]]
    OBVIOUS
  <2> HIDE DEF t
  <2>4. IsSum(e, k, t)
    BY <2>2, <2>3 DEF IsSum
  <2> QED BY <2>4
<1> HIDE DEF G
<1>3. n \in G
  BY <1>1, <1>2, UpTo
<1> QED BY <1>3 DEF G

\* No count is greater than the sum, and it is 0 when they all are.
LEMMA TotalBounds ==
  ASSUME NEW e \in [Rank -> Nat]
  PROVE  /\ Total(e) \in Nat
         /\ \A r \in Rank : e[r] <= Total(e)
         /\ (\A r \in Rank : e[r] = 0) => Total(e) = 0
<1> DEFINE s == CHOOSE s : IsSum(e, Size, s)
<1>1. Total(e) = s[Size]
  BY DEF Total, IsSum
<1>2. IsSum(e, Size, s)
  BY SumExists, SizeNat
<1> HIDE DEF s
<1>3. s[0] = 0 /\ \A k \in 1 .. Size : s[k] = s[k - 1] + e[k - 1] /\ e[k - 1] \in Nat
  BY <1>2, SizeNat DEF IsSum
<1> DEFINE G == {k \in 0 .. Size : /\ s[k] \in Nat
                                   /\ \A r \in 0 .. k - 1 : e[r] <= s[k]
                                   /\ (\A r \in Rank : e[r] = 0) => s[k] = 0}
<1>4. 0 \in G
  BY <1>3, SizeNat
<1>5. ASSUME NEW k \in 1 .. Size, k - 1 \in G PROVE k \in G
  <2>1. k \in 0 .. Size /\ k - 1 \in Rank /\ s[k] = s[k - 1] + e[k - 1] /\ e[k - 1] \in Nat
    BY <1>3, SizeNat
  <2>2. s[k - 1] \in Nat /\ s[k] \in Nat /\ s[k - 1] <= s[k] /\ e[k - 1] <= s[k]
    BY <1>5, <2>1
  <2>3. ASSUME NEW r \in 0 .. k - 1 PROVE e[r] <= s[k]
    <3>1. CASE r = k - 1
      BY <2>2, <3>1
    <3>2. CASE r # k - 1
      <4>1. r \in 0 .. (k - 1) - 1 /\ r \in Rank
        BY <3>2, SizeNat
      <4>2. e[r] <= s[k - 1] /\ e[r] \in Nat
        BY <1>5, <4>1
      <4> QED BY <2>2, <4>2
    <3> QED BY <3>1, <3>2
  <2>4. (\A r \in Rank : e[r] = 0) => s[k] = 0
    BY <1>5, <2>1
  <2> QED BY <2>1, <2>2, <2>3, <2>4
<1>6. Size \in G
  <2> HIDE DEF G
  <2>1. \A k \in 0 .. Size : k \in G
    BY <1>4, <1>5, SizeNat, UpTo
  <2> QED BY <2>1, SizeNat
<1> QED BY <1>1, <1>6, SizeNat

\* As long as the errors fit, all ranks return if anybody has one, and nobody
\* returns otherwise.
LEMMA FailingAlike ==
  ASSUME NEW e \in [Rank -> Nat], Total(e) < IntValues
  PROVE  Failing(e) = IF \E r \in Rank : e[r] # 0 THEN Rank ELSE {}
<1> DEFINE low == [r \in Rank |-> e[r] % IntValues]
<1>1. IntValues \in Nat /\ IntValues > 0
  BY ValidatorAssumption
<1>2. ASSUME NEW r \in Rank PROVE e[r] % IntValues = e[r] /\ ~ (e[r] >= IntValues)
  <2>1. e[r] \in Nat /\ e[r] <= Total(e) /\ Total(e) \in Nat
    BY TotalBounds
  <2>2. e[r] < IntValues
    BY <1>1, <2>1
  <2> QED BY <1>1, <2>1, <2>2
<1>3. low = e
  BY <1>2
<1>4. Total(e) \in Nat /\ Total(e) % IntValues = Total(e)
  BY <1>1, TotalBounds
<1>5. Failing(e) = IF Total(e) # 0 THEN Rank ELSE {r \in Rank : e[r] >= IntValues}
  BY <1>3, <1>4 DEF Failing
<1>6. {r \in Rank : e[r] >= IntValues} = {}
  BY <1>2
<1>7. Total(e) # 0 <=> \E r \in Rank : e[r] # 0
  <2>1. ASSUME NEW r \in Rank, e[r] # 0 PROVE Total(e) # 0
    <3>1. e[r] \in Nat /\ e[r] <= Total(e)
      BY TotalBounds
    <3> QED BY <2>1, <3>1, <1>4
  <2> QED BY <2>1, TotalBounds
<1> QED BY <1>5, <1>6, <1>7

\* A count is 0 when there is nothing to count.
LEMMA CountZero ==
  ASSUME NEW S \in SUBSET Vertex
  PROVE  /\ Cardinality(S) \in Nat
         /\ Cardinality(S) = 0 <=> S = {}
<1>1. NumVerts \in Nat
  BY ValidatorAssumption
<1>2. IsFiniteSet(Vertex)
  <2>1. 0 \in Int /\ NumVerts - 1 \in Int /\ Vertex = 0 .. (NumVerts - 1)
    BY <1>1 DEF Vertex
  <2> QED BY <2>1, FS_Interval
<1>3. IsFiniteSet(S)
  BY <1>2, FS_Subset
<1>4. Cardinality(S) \in Nat
  BY <1>3, FS_CardinalityType
<1>5. Cardinality(S) = 0 <=> S = {}
  BY <1>3, FS_EmptySet
<1> QED BY <1>4, <1>5

LEMMA RangeCount ==
  ASSUME NEW r \in Rank
  PROVE  RangeErrors(r) \in Nat /\ (RangeErrors(r) # 0 <=> OutOfRange(r))
<1> DEFINE S == {v \in LocalVerts(r) : Parent(v) \notin -1 .. NumVerts - 1}
<1>1. S \in SUBSET Vertex /\ (S # {} <=> OutOfRange(r)) /\ RangeErrors(r) = Cardinality(S)
  BY DEF LocalVerts, OutOfRange, RangeErrors
<1> HIDE DEF S
<1> QED BY <1>1, CountZero

LEMMA ParentCount ==
  ASSUME NEW r \in Rank
  PROVE  ParentErrors(r) \in Nat /\ (ParentErrors(r) # 0 <=> RootMoved(r) \/ SelfParent(r))
<1> DEFINE S == {v \in LocalVerts(r) \ {Root} : Parent(v) = v}
           a == IF RootMoved(r) THEN 1 ELSE 0
<1>1. S \in SUBSET Vertex /\ (S # {} <=> SelfParent(r)) /\ ParentErrors(r) = a + Cardinality(S)
  BY DEF LocalVerts, SelfParent, ParentErrors
<1>2. a \in Nat /\ (a # 0 <=> RootMoved(r))
  OBVIOUS
<1> HIDE DEF S, a
<1>3. Cardinality(S) \in Nat /\ (Cardinality(S) # 0 <=> SelfParent(r))
  BY <1>1, CountZero
<1> QED BY <1>1, <1>2, <1>3

LEMMA DepthCount ==
  ASSUME NEW r \in Rank
  PROVE  /\ DepthErrors(r) \in Nat
         /\ DepthErrors(r) # 0 <=> \E v \in LocalVerts(r) : DepthError(v)
<1> DEFINE Child == {v \in LocalVerts(r) \ {Root} : Parent(v) # -1}
           A == {v \in LocalVerts(r) : (Parent(v) = -1) # (Depth(v) = Max16)}
           B == {v \in Child : Depth(Parent(v)) = Max16}
           D == {v \in Child : Depth(v) # Depth(Parent(v)) + 1}
           a == IF Owner(Root) = r /\ Depth(Root) # 0 THEN 1 ELSE 0
<1>1. DepthErrors(r) = a + Cardinality(A) + Cardinality(B) + Cardinality(D)
  BY DEF DepthErrors
<1>2. A \in SUBSET Vertex /\ B \in SUBSET Vertex /\ D \in SUBSET Vertex
  BY DEF LocalVerts
<1>3. a \in Nat /\ (a # 0 <=> Owner(Root) = r /\ Depth(Root) # 0)
  OBVIOUS
<1>4. (\E v \in LocalVerts(r) : DepthError(v)) <=> a # 0 \/ A # {} \/ B # {} \/ D # {}
  <2>1. Root \in LocalVerts(r) <=> Owner(Root) = r
    BY ValidatorAssumption DEF LocalVerts
  <2>2. ASSUME NEW v \in LocalVerts(r), DepthError(v) PROVE a # 0 \/ A # {} \/ B # {} \/ D # {}
    <3>1. CASE v = Root /\ Depth(v) # 0
      BY <1>3, <2>1, <3>1
    <3>2. CASE (Parent(v) = -1) # (Depth(v) = Max16)
      <4>1. v \in A
        BY <3>2
      <4> QED BY <4>1
    <3>3. CASE v # Root /\ Parent(v) # -1 /\ Depth(Parent(v)) = Max16
      <4>1. v \in B
        BY <3>3
      <4> QED BY <4>1
    <3>4. CASE v # Root /\ Parent(v) # -1 /\ Depth(v) # Depth(Parent(v)) + 1
      <4>1. v \in D
        BY <3>4
      <4> QED BY <4>1
    <3> HIDE DEF A, B, D, a
    <3> QED BY <2>2, <3>1, <3>2, <3>3, <3>4 DEF DepthError
  <2>3. a # 0 => \E v \in LocalVerts(r) : DepthError(v)
    BY <1>3, <2>1 DEF DepthError
  <2>4. A # {} => \E v \in LocalVerts(r) : DepthError(v)
    BY DEF DepthError
  <2>5. B # {} => \E v \in LocalVerts(r) : DepthError(v)
    BY DEF DepthError
  <2>6. D # {} => \E v \in LocalVerts(r) : DepthError(v)
    BY DEF DepthError
  <2> HIDE DEF A, B, D, a
  <2> QED BY <2>2, <2>3, <2>4, <2>5, <2>6
<1> HIDE DEF A, B, D, a
<1>5. Cardinality(A) \in Nat /\ (Cardinality(A) # 0 <=> A # {})
  BY <1>2, CountZero
<1>6. Cardinality(B) \in Nat /\ (Cardinality(B) # 0 <=> B # {})
  BY <1>2, CountZero
<1>7. Cardinality(D) \in Nat /\ (Cardinality(D) # 0 <=> D # {})
  BY <1>2, CountZero
<1>8. DepthErrors(r) # 0 <=> a # 0 \/ Cardinality(A) # 0 \/ Cardinality(B) # 0 \/ Cardinality(D) # 0
  BY <1>1, <1>3, <1>5, <1>6, <1>7
<1>9. a + Cardinality(A) + Cardinality(B) + Cardinality(D) \in Nat
  BY <1>3, <1>5, <1>6, <1>7
<1>10. DepthErrors(r) # 0 <=> a # 0 \/ A # {} \/ B # {} \/ D # {}
  BY <1>5, <1>6, <1>7, <1>8
<1>11. DepthErrors(r) # 0 <=> \E v \in LocalVerts(r) : DepthError(v)
  BY <1>4, <1>10
<1> QED BY <1>1, <1>9, <1>11

LEMMA TreeCount ==
  ASSUME NEW r \in Rank
  PROVE  TreeErrors(r) \in Nat /\ (TreeErrors(r) # 0 <=> NoTreeEdge(r))
<1> DEFINE S == {v \in LocalVerts(r) \ {Root} : Parent(v) # -1 /\ v \notin valid}
<1>1. S \in SUBSET Vertex /\ (S # {} <=> NoTreeEdge(r)) /\ TreeErrors(r) = Cardinality(S)
  BY DEF LocalVerts, NoTreeEdge, TreeErrors
<1> HIDE DEF S
<1> QED BY <1>1, CountZero

LEMMA FiniteDomain ==
  ASSUME TypeOK, NEW r \in Rank, NEW S \in SUBSET DOMAIN edges[r]
  PROVE  IsFiniteSet(S) /\ Cardinality(S) \in Nat
<1>1. edges[r] \in Seq(Vertex \X Vertex)
  BY DEF TypeOK
<1>2. Len(edges[r]) \in Nat /\ DOMAIN edges[r] = 1 .. Len(edges[r])
  BY <1>1
<1>3. IsFiniteSet(DOMAIN edges[r])
  BY <1>2, FS_Interval
<1> QED BY <1>3, FS_Subset, FS_CardinalityType

\* No step changes the edge list or the result.
LEMMA InputsStay == ASSUME [Next]_vars PROVE edges' = edges /\ pred' = pred
BY DEF Next, vars, SumRanges, SumParents, SumDepths, GoOn, Ask, CheckEdges,
       MarkRow, MarkColumn, Collect

LEMMA TypeInit == Init => TypeOK
<1> SUFFICES ASSUME Init PROVE TypeOK
  OBVIOUS
<1>1. edges \in [Rank -> Seq(Vertex \X Vertex)] /\ pred \in [Vertex -> Entry]
  BY ValidatorAssumption DEF Init
<1>2. errors \in [Rank -> Nat]
  BY RangeCount DEF Init
<1>3. pc \in [Rank -> Places] /\ loop \in [Rank -> Nat]
      /\ verdict \in [Rank -> {"none", "true", "false"}]
  BY DEF Init, Places
<1> QED BY <1>1, <1>2, <1>3 DEF TypeOK

LEMMA TypeNext == TypeOK /\ [Next]_vars => TypeOK'
<1>0. \A n \in Nat : n + 1 \in Nat
  OBVIOUS
<1> SUFFICES ASSUME TypeOK, [Next]_vars PROVE TypeOK'
  OBVIOUS
<1> USE DEF TypeOK, Places
<1>1. CASE SumRanges BY <1>1, ParentCount DEF SumRanges, GoOn
<1>2. CASE SumParents BY <1>2, DepthCount DEF SumParents, GoOn
<1>3. CASE SumDepths
  <2>1. AtLoopHead(0, 0) \in Places
    BY DEF AtLoopHead
  <2>2. 0 \in Nat
    OBVIOUS
  <2> QED BY <1>3, <2>1, <2>2 DEF SumDepths, GoOn
<1>4. ASSUME NEW r \in Rank, Ask(r) PROVE TypeOK' BY <1>4 DEF Ask
<1>5. ASSUME NEW r \in Rank, CheckEdges(r) PROVE TypeOK'
  <2> DEFINE Wrong(s) == {i \in ChunkIndices(s) : EdgeError(edges[s][i])}
             next(s) == IF s \in ColumnOf(r) THEN errors[s] + Cardinality(Wrong(s)) ELSE errors[s]
  <2>1. errors' = [s \in Rank |-> next(s)]
    BY <1>5 DEF CheckEdges
  <2>2. ASSUME NEW s \in Rank PROVE next(s) \in Nat
    <3>1. Wrong(s) \in SUBSET DOMAIN edges[s]
      BY DEF ChunkIndices
    <3>2. Cardinality(Wrong(s)) \in Nat
      BY <3>1, FiniteDomain
    <3>3. errors[s] \in Nat
      OBVIOUS
    <3>4. errors[s] + Cardinality(Wrong(s)) \in Nat
      BY <3>2, <3>3, SumNat
    <3> HIDE DEF Wrong
    <3> QED BY <3>3, <3>4
  <2>3. errors' \in [Rank -> Nat]
    <3> HIDE DEF next
    <3> QED BY <2>1, <2>2
  <2> QED BY <1>5, <2>3 DEF CheckEdges
<1>6. ASSUME NEW r \in Rank, MarkRow(r) PROVE TypeOK' BY <1>6 DEF MarkRow
<1>7. ASSUME NEW r \in Rank, MarkColumn(r) PROVE TypeOK'
  <2>1. \A s \in Rank : AtLoopHead(loop[s] + 1, errors[s]) \in {"ask row", "visits"}
    BY DEF AtLoopHead
  <2>2. pc' \in [Rank -> Places]
    <3> DEFINE next(s) == IF s \in ColumnOf(r) THEN AtLoopHead(loop[s] + 1, errors[s]) ELSE pc[s]
    <3>1. \A s \in Rank : next(s) \in Places BY <2>1
    <3>2. pc' = [s \in Rank |-> next(s)] BY <1>7 DEF MarkColumn
    <3> HIDE DEF next
    <3> QED BY <3>1, <3>2
  <2>3. loop' \in [Rank -> Nat]
    <3> DEFINE next(s) == IF s \in ColumnOf(r) THEN loop[s] + 1 ELSE loop[s]
    <3>1. ASSUME NEW s \in Rank PROVE next(s) \in Nat
      <4>1. loop[s] \in Nat OBVIOUS
      <4>2. loop[s] + 1 \in Nat BY <4>1, <1>0
      <4> QED BY <4>1, <4>2
    <3>2. loop' = [s \in Rank |-> next(s)] BY <1>7 DEF MarkColumn
    <3> HIDE DEF next
    <3> QED BY <3>1, <3>2
  <2> QED BY <1>7, <2>2, <2>3 DEF MarkColumn
<1>8. CASE Collect
  <2>1. ASSUME NEW r \in Rank PROVE errors[r] + TreeErrors(r) \in Nat
    <3>1. errors[r] \in Nat /\ TreeErrors(r) \in Nat
      BY TreeCount
    <3> QED BY <3>1, SumNat
  <2>2. errors' \in [Rank -> Nat] /\ verdict' \in [Rank -> {"none", "true", "false"}]
    BY <1>8, <2>1 DEF Collect
  <2> QED BY <1>8, <2>2 DEF Collect
<1>9. CASE UNCHANGED vars BY <1>9 DEF vars
<1> QED BY <1>1, <1>2, <1>3, <1>4, <1>5, <1>6, <1>7, <1>8, <1>9 DEF Next

LEMMA StagesNext == TypeOK /\ ErrorsFit /\ Stages /\ [Next]_vars => Stages'
<1> SUFFICES ASSUME TypeOK, ErrorsFit, Stages, [Next]_vars PROVE Stages'
  OBVIOUS
<1>0. /\ InRange' = InRange
      /\ (Parent(Root) = Root)' = (Parent(Root) = Root)
      /\ \A r \in Rank : /\ RangeErrors(r)' = RangeErrors(r)
                         /\ ParentErrors(r)' = ParentErrors(r)
                         /\ DepthErrors(r)' = DepthErrors(r)
      /\ (\A v \in Vertex : ~ DepthError(v))' = (\A v \in Vertex : ~ DepthError(v))
  <2>1. pred' = pred
    BY InputsStay
  <2>2. InRange' = InRange
    BY <2>1 DEF InRange, Parent
  <2>3. (Parent(Root) = Root)' = (Parent(Root) = Root)
    BY <2>1 DEF Parent
  <2>4. ASSUME NEW r \in Rank PROVE RangeErrors(r)' = RangeErrors(r)
    BY <2>1 DEF RangeErrors, Parent
  <2>5. ASSUME NEW r \in Rank PROVE ParentErrors(r)' = ParentErrors(r)
    BY <2>1 DEF ParentErrors, RootMoved, Parent
  <2>6. ASSUME NEW r \in Rank PROVE DepthErrors(r)' = DepthErrors(r)
    BY <2>1 DEF DepthErrors, Parent, Depth
  <2>7. (\A v \in Vertex : ~ DepthError(v))' = (\A v \in Vertex : ~ DepthError(v))
    BY <2>1 DEF DepthError, Parent, Depth
  <2> QED BY <2>2, <2>3, <2>4, <2>5, <2>6, <2>7
<1>f. Failing(errors) = IF \E r \in Rank : errors[r] # 0 THEN Rank ELSE {}
  BY FailingAlike DEF TypeOK, ErrorsFit
<1> USE RankExists DEF AllAt, InLoop
<1>r. ASSUME \E r \in Rank : errors[r] # 0, NEW Out, NEW next, Failing(errors) \subseteq Out, GoOn(Out, next)
      PROVE  Stages'
  <2>1. \A r \in Rank : pc'[r] = "returned"
    BY <1>f, <1>r DEF GoOn
  <2> QED BY <2>1 DEF Stages
<1>1. CASE SumRanges
  <2>1. CASE \E r \in Rank : errors[r] # 0
    BY <1>1, <2>1, <1>r DEF SumRanges
  <2>2. CASE \A r \in Rank : errors[r] = 0
    <3>1. \A r \in Rank : ~ OutOfRange(r)
      BY <1>1, <2>2, RangeCount DEF SumRanges, Stages
    <3>2. InRange
      BY <3>1, OwnerIsRank DEF InRange, OutOfRange
    <3>3. \A r \in Rank : pc'[r] \in {"parents", "returned"}
      BY <1>1 DEF SumRanges, GoOn
    <3>4. \A r \in Rank : errors'[r] = ParentErrors(r)
      BY <1>1 DEF SumRanges
    <3> QED BY <1>0, <3>2, <3>3, <3>4 DEF Stages
  <2> QED BY <2>1, <2>2
<1>2. CASE SumParents
  <2>1. CASE \E r \in Rank : errors[r] # 0
    BY <1>2, <2>1, <1>r DEF SumParents
  <2>2. CASE \A r \in Rank : errors[r] = 0
    <3>1. \A r \in Rank : ~ RootMoved(r)
      BY <1>2, <2>2, ParentCount DEF SumParents, Stages
    <3>2. Parent(Root) = Root
      BY <3>1, OwnerIsRank, ValidatorAssumption DEF RootMoved
    <3>3. InRange
      BY <1>2 DEF SumParents, Stages
    <3>4. \A r \in Rank : pc'[r] \in {"depths", "returned"}
      BY <1>2 DEF SumParents, GoOn
    <3>5. \A r \in Rank : errors'[r] = DepthErrors(r)
      BY <1>2 DEF SumParents
    <3> QED BY <1>0, <3>2, <3>3, <3>4, <3>5 DEF Stages
  <2> QED BY <2>1, <2>2
<1>3. CASE SumDepths
  <2>1. CASE \E r \in Rank : errors[r] # 0
    BY <1>3, <2>1, <1>r DEF SumDepths
  <2>2. CASE \A r \in Rank : errors[r] = 0
    <3>1. \A r \in Rank : ~ \E v \in LocalVerts(r) : DepthError(v)
      BY <1>3, <2>2, DepthCount DEF SumDepths, Stages
    <3>2. \A v \in Vertex : ~ DepthError(v)
      BY <3>1, OwnerIsRank
    <3>3. InRange /\ Parent(Root) = Root
      BY <1>3 DEF SumDepths, Stages
    <3>4. \A r \in Rank : pc'[r] \in {"ask row", "visits", "returned"}
      BY <1>3 DEF SumDepths, GoOn, AtLoopHead
    <3> QED BY <1>0, <3>2, <3>3, <3>4 DEF Stages
  <2> QED BY <2>1, <2>2
<1>4. ASSUME NEW r \in Rank, Ask(r) \/ CheckEdges(r) \/ MarkRow(r) \/ MarkColumn(r)
      PROVE  Stages'
  <2>1. \A s \in Rank : \/ pc'[s] = pc[s] /\ errors'[s] = errors[s]
                        \/ pc[s] \in InLoop /\ pc'[s] \in InLoop
    BY <1>4 DEF Ask, CheckEdges, MarkRow, MarkColumn, AtLoopHead, TypeOK
  <2> QED BY <1>0, <2>1, ZenonT(60) DEF Stages
<1>5. CASE Collect
  <2>1. \A r \in Rank : pc'[r] = "returned"
    BY <1>5 DEF Collect
  <2> QED BY <2>1 DEF Stages
<1>6. CASE UNCHANGED vars
  <2>1. pc' = pc /\ errors' = errors BY <1>6 DEF vars
  <2> QED BY <1>0, <2>1 DEF Stages
<1> QED BY <1>1, <1>2, <1>3, <1>4, <1>5, <1>6 DEF Next

LEMMA ChunksNext == TypeOK /\ ChunksChecked /\ [Next]_vars => ChunksChecked'
<1> SUFFICES ASSUME TypeOK, ChunksChecked, [Next]_vars PROVE ChunksChecked'
  OBVIOUS
<1>0. /\ edges' = edges /\ NumLoops' = NumLoops /\ NumLoops \in Nat
      /\ \A r \in Rank : \A i \in DOMAIN edges[r] :
           (EdgeError(edges[r][i]))' = EdgeError(edges[r][i])
  <2>1. edges' = edges /\ pred' = pred BY InputsStay
  <2>2. NumLoops' = NumLoops BY <2>1 DEF NumLoops, Longest
  <2>3. NumLoops \in Nat BY NumLoopsNat DEF TypeOK
  <2>4. \A e : EdgeError(e)' = EdgeError(e) BY <2>1 DEF EdgeError, Depth, Reached
  <2> QED BY <2>1, <2>2, <2>3, <2>4
<1>c. \A r \in Rank : \A i \in DOMAIN edges[r] : ChunkOf(i) \in Nat
  BY InSomeChunk DEF TypeOK, ChunkOf
<1> DEFINE Known(r, i) == \/ ChunkOf(i) < loop[r]
                          \/ ChunkOf(i) = loop[r] /\ pc[r] \in {"mark row", "mark column"}
\* A step that marks nothing as checked and forgets no error keeps the invariant.
<1>k. ASSUME \A r \in Rank : errors[r] # 0 => errors'[r] # 0,
             \A r \in Rank : loop'[r] = loop[r],
             \A r \in Rank : pc'[r] \in {"mark row", "mark column"}
                               => pc[r] \in {"mark row", "mark column"},
             \A r \in Rank : pc'[r] \in {"ranges", "parents", "depths"} => loop[r] = 0,
             \A r \in Rank : pc'[r] = "visits" => errors'[r] # 0 \/ loop[r] >= NumLoops
      PROVE  ChunksChecked'
  BY <1>0, <1>k, ZenonT(60) DEF ChunksChecked
<1> USE RankExists DEF AllAt
\* While no rank is in its loop, nothing has been checked.
<1>n. ASSUME \A r \in Rank : loop'[r] = 0,
             \A r \in Rank : pc'[r] \notin {"mark row", "mark column"},
             \A r \in Rank : pc'[r] = "visits" => NumLoops = 0
      PROVE  ChunksChecked'
  <2>1. ASSUME NEW r \in Rank, pc'[r] = "visits" PROVE loop'[r] >= NumLoops
    <3>1. loop'[r] = 0 /\ NumLoops = 0 BY <1>n, <2>1
    <3> QED BY <3>1
  <2>2. ASSUME NEW r \in Rank, NEW i \in DOMAIN edges[r] PROVE ~ Known(r, i)'
    <3>1. loop'[r] = 0 /\ pc'[r] \notin {"mark row", "mark column"} BY <1>n
    <3>2. ChunkOf(i) \in Nat BY <1>c
    <3>3. \A n \in Nat : ~ (n < 0) OBVIOUS
    <3>4. ~ (ChunkOf(i) < loop'[r]) BY <3>1, <3>2, <3>3
    <3> QED BY <3>1, <3>4
  <2> QED BY <1>0, <1>n, <2>1, <2>2 DEF ChunksChecked
<1>1. CASE SumRanges
  <2>1. \A r \in Rank : loop[r] = 0 BY <1>1 DEF SumRanges, ChunksChecked
  <2>2. loop' = loop /\ \A r \in Rank : pc'[r] \in {"parents", "returned"}
    BY <1>1 DEF SumRanges, GoOn
  <2> QED BY <2>1, <2>2, <1>n
<1>2. CASE SumParents
  <2>1. \A r \in Rank : loop[r] = 0 BY <1>2 DEF SumParents, ChunksChecked
  <2>2. loop' = loop /\ \A r \in Rank : pc'[r] \in {"depths", "returned"}
    BY <1>2 DEF SumParents, GoOn
  <2> QED BY <2>1, <2>2, <1>n
<1>3. CASE SumDepths
  <2>1. \A r \in Rank : loop[r] = 0 BY <1>3 DEF SumDepths, ChunksChecked
  <2>2. loop' = loop /\ \A r \in Rank : \/ pc'[r] \in {"ask row", "returned"}
                                        \/ pc'[r] = "visits" /\ ~ (0 < NumLoops)
    BY <1>3 DEF SumDepths, GoOn, AtLoopHead
  <2>3. ~ (0 < NumLoops) => NumLoops = 0
    BY <1>0
  <2>4. /\ \A r \in Rank : loop'[r] = 0
        /\ \A r \in Rank : pc'[r] \notin {"mark row", "mark column"}
        /\ \A r \in Rank : pc'[r] = "visits" => NumLoops = 0
    BY <2>1, <2>2, <2>3
  <2> QED BY <2>4, <1>n
<1>4. ASSUME NEW r \in Rank, Ask(r) PROVE ChunksChecked'
  <2>1. loop' = loop /\ errors' = errors
    BY <1>4 DEF Ask
  <2>2. \A s \in Rank : pc'[s] = pc[s] \/ pc'[s] \in {"ask column", "reply row", "reply column"}
    BY <1>4 DEF Ask, TypeOK
  <2> QED BY <2>1, <2>2, <1>k DEF ChunksChecked
<1>5. ASSUME NEW r \in Rank, CheckEdges(r) PROVE ChunksChecked'
  <2> DEFINE Wrong(s) == {i \in ChunkIndices(s) : EdgeError(edges[s][i])}
  <2>a. ASSUME NEW s \in Rank
        PROVE  /\ Cardinality(Wrong(s)) \in Nat /\ errors[s] \in Nat
               /\ Wrong(s) # {} => Cardinality(Wrong(s)) # 0
    <3>1. Wrong(s) \in SUBSET DOMAIN edges[s]
      BY DEF ChunkIndices
    <3> HIDE DEF Wrong
    <3>2. IsFiniteSet(Wrong(s)) /\ Cardinality(Wrong(s)) \in Nat
      BY <3>1, FiniteDomain
    <3>3. Wrong(s) # {} => Cardinality(Wrong(s)) # 0
      BY <3>2, FS_EmptySet
    <3> QED BY <3>2, <3>3 DEF TypeOK
  <2>b. \A s \in Rank : errors'[s] = IF s \in ColumnOf(r) THEN errors[s] + Cardinality(Wrong(s))
                                                         ELSE errors[s]
    BY <1>5 DEF CheckEdges
  <2>1. loop' = loop /\ \A s \in Rank : errors[s] # 0 => errors'[s] # 0
    <3>1. loop' = loop
      BY <1>5 DEF CheckEdges
    <3> HIDE DEF Wrong
    <3>2. ASSUME NEW s \in Rank, errors[s] # 0 PROVE errors'[s] # 0
      BY <2>a, <2>b, <3>2
    <3> QED BY <3>1, <3>2
  <2>2. \A s \in Rank : s \notin ColumnOf(r) => pc'[s] = pc[s]
    BY <1>5 DEF CheckEdges, TypeOK
  <2>3. \A s \in Rank : s \in ColumnOf(r) => pc'[s] = "mark row"
    BY <1>5 DEF CheckEdges, TypeOK
  <2>4. ASSUME NEW s \in Rank, NEW i \in DOMAIN edges[s], s \in ColumnOf(r),
               EdgeError(edges[s][i]), ChunkOf(i) = loop[s]
        PROVE  errors'[s] # 0
    <3>1. i \in Wrong(s)
      BY <2>4 DEF ChunkIndices, ChunkOf
    <3> HIDE DEF Wrong
    <3>2. Cardinality(Wrong(s)) # 0 /\ Cardinality(Wrong(s)) \in Nat /\ errors[s] \in Nat
      BY <2>a, <3>1
    <3>3. errors'[s] = errors[s] + Cardinality(Wrong(s))
      BY <2>b, <2>4
    <3> QED BY <3>2, <3>3
  <2>5. ASSUME NEW s \in Rank, NEW i \in DOMAIN edges[s], EdgeError(edges[s][i]), Known(s, i)'
        PROVE  errors'[s] # 0
    <3>1. CASE s \notin ColumnOf(r)
      BY <2>1, <2>2, <2>5, <3>1 DEF ChunksChecked
    <3>2. CASE s \in ColumnOf(r)
      BY <2>1, <2>4, <2>5, <3>2 DEF ChunksChecked
    <3> QED BY <3>1, <3>2
  <2>6. \A s \in Rank : pc'[s] \in {"ranges", "parents", "depths"} => loop'[s] = 0
    BY <2>1, <2>2, <2>3 DEF ChunksChecked
  <2>7. \A s \in Rank : pc'[s] = "visits" => errors'[s] # 0 \/ loop'[s] >= NumLoops
    BY <2>1, <2>2, <2>3 DEF ChunksChecked
  <2> QED BY <2>5, <2>6, <2>7, <1>0 DEF ChunksChecked
<1>6. ASSUME NEW r \in Rank, MarkRow(r) PROVE ChunksChecked'
  <2>1. loop' = loop /\ errors' = errors
    BY <1>6 DEF MarkRow
  <2>2. \A s \in Rank : pc'[s] = pc[s] \/ (pc[s] = "mark row" /\ pc'[s] = "mark column")
    BY <1>6 DEF MarkRow, TypeOK
  <2> QED BY <2>1, <2>2, <1>k DEF ChunksChecked
<1>7. ASSUME NEW r \in Rank, MarkColumn(r) PROVE ChunksChecked'
  <2>1. errors' = errors
    BY <1>7 DEF MarkColumn
  <2>2. \A s \in Rank : s \notin ColumnOf(r) => pc'[s] = pc[s] /\ loop'[s] = loop[s]
    BY <1>7 DEF MarkColumn, TypeOK
  <2>3. \A s \in Rank : s \in ColumnOf(r) =>
          /\ pc[s] = "mark column" /\ loop'[s] = loop[s] + 1
          /\ \/ pc'[s] = "ask row"
             \/ pc'[s] = "visits" /\ (errors[s] # 0 \/ ~ (loop[s] + 1 < NumLoops))
    <3>1. \A s \in Rank : \/ AtLoopHead(loop[s] + 1, errors[s]) = "ask row"
                          \/ /\ AtLoopHead(loop[s] + 1, errors[s]) = "visits"
                             /\ errors[s] # 0 \/ ~ (loop[s] + 1 < NumLoops)
      BY Zenon DEF AtLoopHead
    <3> QED BY <1>7, <3>1 DEF MarkColumn, TypeOK, ColumnOf
  <2>5. ASSUME NEW s \in Rank, NEW i \in DOMAIN edges[s], EdgeError(edges[s][i]), Known(s, i)'
        PROVE  errors'[s] # 0
    <3>1. CASE s \notin ColumnOf(r)
      BY <2>1, <2>2, <2>5, <3>1 DEF ChunksChecked
    <3>2. CASE s \in ColumnOf(r)
      <4>1. ChunkOf(i) < loop[s] + 1
        BY <2>3, <2>5, <3>2
      <4>2. ChunkOf(i) < loop[s] \/ ChunkOf(i) = loop[s]
        BY <4>1, <1>c DEF TypeOK
      <4> QED BY <2>1, <2>3, <2>5, <3>2, <4>2 DEF ChunksChecked
    <3> QED BY <3>1, <3>2
  <2>6. \A s \in Rank : pc'[s] \in {"ranges", "parents", "depths"} => loop'[s] = 0
    BY <2>2, <2>3 DEF ChunksChecked
  <2>7. ASSUME NEW s \in Rank, pc'[s] = "visits" PROVE errors'[s] # 0 \/ loop'[s] >= NumLoops
    <3>1. loop[s] \in Nat BY DEF TypeOK
    <3>2. CASE s \notin ColumnOf(r) BY <2>1, <2>2, <2>7, <3>2 DEF ChunksChecked
    <3>3. ASSUME s \in ColumnOf(r), errors[s] = 0 PROVE loop'[s] >= NumLoops
      <4>1. loop'[s] = loop[s] + 1 /\ ~ (loop[s] + 1 < NumLoops)
        BY <2>3, <2>7, <3>3
      <4> QED BY <1>0, <3>1, <4>1
    <3> QED BY <2>1, <3>2, <3>3
  <2> QED BY <2>5, <2>6, <2>7, <1>0 DEF ChunksChecked
<1>8. CASE Collect
  <2>1. loop' = loop /\ \A s \in Rank : pc'[s] = "returned"
    BY <1>8 DEF Collect
  <2>2. ASSUME NEW s \in Rank, errors[s] # 0 PROVE errors'[s] # 0
    <3>1. errors[s] \in Nat /\ TreeErrors(s) \in Nat
      BY TreeCount DEF TypeOK
    <3>2. errors'[s] = errors[s] + TreeErrors(s)
      BY <1>8 DEF Collect
    <3> QED BY <2>2, <3>1, <3>2
  <2> QED BY <2>1, <2>2, <1>k
<1>9. CASE UNCHANGED vars
  <2>1. pc' = pc /\ errors' = errors /\ loop' = loop BY <1>9 DEF vars
  <2> QED BY <2>1, <1>k DEF ChunksChecked
<1> QED BY <1>1, <1>2, <1>3, <1>4, <1>5, <1>6, <1>7, <1>8, <1>9 DEF Next

LEMMA AgreementNext ==
  TypeOK /\ ErrorsFit /\ TypeOK' /\ ErrorsFit' /\ Agreement /\ [Next]_vars => Agreement'
<1> SUFFICES ASSUME TypeOK, ErrorsFit, TypeOK', ErrorsFit', Agreement, [Next]_vars PROVE Agreement'
  OBVIOUS
<1> USE RankExists
<1>f. Failing(errors) = Rank \/ Failing(errors) = {}
  BY FailingAlike DEF TypeOK, ErrorsFit
\* A sum that somebody fails is failed by all.
<1>r. ASSUME \A r \in Rank : pc[r] # "returned" /\ verdict[r] = "none",
             NEW next, next # "returned", GoOn(Failing(errors), next)
      PROVE  Agreement'
  <2>1. CASE Failing(errors) = Rank
    BY <1>r, <2>1 DEF GoOn, Agreement
  <2>2. CASE Failing(errors) = {}
    BY <1>r, <2>2 DEF GoOn, Agreement
  <2> QED BY <1>f, <2>1, <2>2
<1>1. CASE SumRanges
  <2>1. \A r \in Rank : \/ pc'[r] = "parents" /\ verdict'[r] = "none"
                        \/ pc'[r] = "returned" /\ verdict'[r] = "false"
    BY <1>1 DEF SumRanges, GoOn
  <2> QED BY <2>1 DEF Agreement
<1>2. CASE SumParents
  <2>1. \A r \in Rank : pc[r] # "returned" /\ verdict[r] = "none"
    BY <1>2 DEF Agreement, SumParents, AllAt
  <2> QED BY <1>2, <2>1, <1>r DEF SumParents
<1>3. CASE SumDepths
  <2>1. \A r \in Rank : pc[r] # "returned" /\ verdict[r] = "none"
    BY <1>3 DEF Agreement, SumDepths, AllAt
  <2>2. AtLoopHead(0, 0) # "returned"
    BY DEF AtLoopHead
  <2> QED BY <1>3, <2>1, <2>2, <1>r DEF SumDepths
<1>4. ASSUME NEW r \in Rank, Ask(r) \/ CheckEdges(r) \/ MarkRow(r) \/ MarkColumn(r)
      PROVE  Agreement'
  <2>1. pc[r] \notin {"parents", "returned"}
    BY <1>4, OwnGroup DEF Ask, CheckEdges, MarkRow, MarkColumn, AllAt
  <2>2. \A s \in Rank : pc[s] # "returned" /\ verdict[s] = "none"
    BY <2>1 DEF Agreement
  <2>3. verdict' = verdict
    BY <1>4 DEF Ask, CheckEdges, MarkRow, MarkColumn
  <2>4. \A s \in Rank : pc'[s] # "returned"
    BY <1>4, <2>2 DEF Ask, CheckEdges, MarkRow, MarkColumn, AtLoopHead
  <2> QED BY <2>2, <2>3, <2>4 DEF Agreement
<1>5. CASE Collect
  <2>1. \A r \in Rank : pc'[r] = "returned"
    BY <1>5 DEF Collect
  <2>2. errors' \in [Rank -> Nat] /\ Total(errors') < IntValues
    BY DEF TypeOK, ErrorsFit
  <2>3. Failing(errors') = Rank \/ Failing(errors') = {}
    BY <2>2, FailingAlike
  <2>4. \A r \in Rank : verdict'[r] = IF r \in Failing(errors') THEN "false" ELSE "true"
    BY <1>5 DEF Collect
  <2>5. \A r, s \in Rank : verdict'[r] = verdict'[s]
    BY <2>3, <2>4
  <2> QED BY <2>1, <2>5 DEF Agreement
<1>6. CASE UNCHANGED vars
  BY <1>6 DEF vars, Agreement
<1> QED BY <1>1, <1>2, <1>3, <1>4, <1>5, <1>6 DEF Next

LEMMA MarksNext == TypeOK /\ MarksListed /\ [Next]_vars => MarksListed'
<1> SUFFICES ASSUME TypeOK, MarksListed, [Next]_vars PROVE MarksListed'
  OBVIOUS
<1>1. /\ \A u, v : Linked(u, v)' = Linked(u, v)
      /\ \A v \in Vertex : Parent(v)' = Parent(v)
      /\ \A v : Linked(v, Parent(v))' = Linked(v, Parent(v))
  BY InputsStay DEF Linked, Parent
<1>2. ASSUME NEW G, G \subseteq Rank, NEW k \in {1, 2}, NEW v \in Marked(G, k)
      PROVE  Linked(v, Parent(v))
  <2>1. PICK s \in G : v \in {edges[s][i][k] : i \in {i \in ChunkIndices(s) :
                               Parent(edges[s][i][k]) = edges[s][i][3 - k]}}
    BY <1>2 DEF Marked
  <2>2. PICK i \in ChunkIndices(s) : v = edges[s][i][k] /\ Parent(v) = edges[s][i][3 - k]
    BY <2>1
  <2> QED BY <1>2, <2>2 DEF Linked, ChunkIndices
<1>3. valid' = valid \/ \E r \in Rank : MarkRow(r) \/ MarkColumn(r)
  BY DEF Next, vars, SumRanges, SumParents, SumDepths, GoOn, Ask, CheckEdges, Collect
<1>4. CASE valid' = valid
  BY <1>1, <1>4 DEF MarksListed
<1>5. ASSUME NEW r \in Rank, MarkRow(r) \/ MarkColumn(r) PROVE MarksListed'
  <2>1. RowOf(r) \subseteq Rank /\ ColumnOf(r) \subseteq Rank
    BY DEF RowOf, ColumnOf
  <2>2. valid' = valid \cup Marked(RowOf(r), 1) \/ valid' = valid \cup Marked(ColumnOf(r), 2)
    BY <1>5 DEF MarkRow, MarkColumn
  <2>3. \A v \in valid' : Linked(v, Parent(v))
    BY <1>2, <2>1, <2>2 DEF MarksListed
  <2> QED BY <1>1, <2>3 DEF MarksListed
<1> QED BY <1>3, <1>4, <1>5

\* Nobody had an error when a rank returns TRUE.
LEMMA CollectTrue ==
  ASSUME TypeOK', ErrorsFit', Collect, NEW r \in Rank, verdict'[r] = "true"
  PROVE  \A s \in Rank : errors'[s] = 0
<1>1. errors' \in [Rank -> Nat] /\ Total(errors') < IntValues
  BY DEF TypeOK, ErrorsFit
<1>2. Failing(errors') = IF \E s \in Rank : errors'[s] # 0 THEN Rank ELSE {}
  BY <1>1, FailingAlike
<1>3. r \notin Failing(errors')
  BY DEF Collect
<1> QED BY <1>2, <1>3

LEMMA AcceptedNext == IInv /\ TypeOK' /\ ErrorsFit' /\ [Next]_vars => Accepted'
<1> SUFFICES ASSUME IInv, TypeOK', ErrorsFit', [Next]_vars PROVE Accepted'
  OBVIOUS
<1>0. AllChecked' = AllChecked
  BY InputsStay DEF AllChecked, TreeChecked, InRange, DepthError, EdgeError, Linked,
                    Parent, Depth, Reached
<1>1. CASE Collect
  <2> SUFFICES ASSUME NEW r \in Rank, verdict'[r] = "true" PROVE AllChecked
    BY <1>0 DEF Accepted
  <2>1. \A s \in Rank : errors'[s] = 0
    BY <1>1, CollectTrue
  <2>2. ASSUME NEW s \in Rank PROVE errors[s] = 0 /\ ~ NoTreeEdge(s)
    <3>1. errors'[s] = errors[s] + TreeErrors(s)
      BY <1>1 DEF Collect
    <3>2. errors[s] \in Nat /\ TreeErrors(s) \in Nat
      BY TreeCount DEF IInv, TypeOK
    <3>3. errors[s] = 0 /\ TreeErrors(s) = 0
      BY <2>1, <3>1, <3>2
    <3> QED BY <3>3, TreeCount
  <2>3. TreeChecked
    <3>1. pc[r] = "visits" BY <1>1 DEF Collect, AllAt
    <3> QED BY <3>1 DEF IInv, Stages, TreeChecked, InLoop
  <2>4. ASSUME NEW s \in Rank, NEW i \in DOMAIN edges[s] PROVE ~ EdgeError(edges[s][i])
    <3>1. loop[s] >= NumLoops /\ loop[s] \in Nat
      BY <1>1, <2>2 DEF Collect, AllAt, IInv, ChunksChecked, TypeOK
    <3>2. ChunkOf(i) \in Nat /\ ChunkOf(i) < NumLoops /\ NumLoops \in Nat
      BY InSomeChunk, NumLoopsNat DEF ChunkOf, IInv, TypeOK
    <3>3. ChunkOf(i) < loop[s]
      BY <3>1, <3>2
    <3> QED BY <2>2, <3>3 DEF IInv, ChunksChecked
  <2>5. ASSUME NEW v \in Vertex \ {Root}, Parent(v) # -1 PROVE Linked(v, Parent(v))
    <3>1. v \in valid
      BY <2>2, <2>5, OwnerIsRank DEF NoTreeEdge
    <3> QED BY <3>1 DEF IInv, MarksListed
  <2> QED BY <2>3, <2>4, <2>5 DEF AllChecked
<1>2. CASE ~ Collect
  <2>1. verdict' = verdict \/ \A r \in Rank : verdict'[r] # "true"
    BY <1>2 DEF Next, vars, SumRanges, SumParents, SumDepths, GoOn, Ask, CheckEdges,
                MarkRow, MarkColumn
  <2> QED BY <1>0, <2>1 DEF Accepted, IInv
<1> QED BY <1>1, <1>2

LEMMA InvInit == Init => IInv
<1> SUFFICES ASSUME Init PROVE IInv
  OBVIOUS
<1>1. TypeOK BY TypeInit
<1>2. Stages BY DEF Init, Stages, InLoop
<1>3. ChunksChecked
  <2>1. \A r \in Rank : \A i \in DOMAIN edges[r] : ChunkOf(i) \in Nat
    BY <1>1, InSomeChunk DEF TypeOK, ChunkOf
  <2>2. \A r \in Rank : \A i \in DOMAIN edges[r] : ~ (ChunkOf(i) < loop[r])
    <3>1. \A n \in Nat : ~ (n < 0) OBVIOUS
    <3> QED BY <2>1, <3>1 DEF Init
  <2> QED BY <2>2 DEF Init, ChunksChecked
<1>4. MarksListed /\ Accepted BY RankExists DEF Init, MarksListed, Accepted
<1> QED BY <1>1, <1>2, <1>3, <1>4 DEF IInv

LEMMA InvNext == IInv /\ ErrorsFit /\ ErrorsFit' /\ [Next]_vars => IInv'
<1> SUFFICES ASSUME IInv, ErrorsFit, ErrorsFit', [Next]_vars PROVE IInv'
  OBVIOUS
<1>1. TypeOK /\ Stages /\ ChunksChecked /\ MarksListed
  BY DEF IInv
<1>2. TypeOK'
  BY <1>1, TypeNext
<1>3. Stages' /\ ChunksChecked' /\ MarksListed'
  BY <1>1, StagesNext, ChunksNext, MarksNext
<1>4. Accepted'
  BY <1>2, AcceptedNext
<1> QED BY <1>2, <1>3, <1>4 DEF IInv

\* The inductive invariant of the validation.
THEOREM Invariance == Spec /\ []ErrorsFit => []IInv
<1>1. Init => IInv BY InvInit
<1> QED BY <1>1, InvNext, PTL DEF Spec

\* Ranks that return from the validation return the same, whatever the edge
\* list and the result are, as long as the error counts fit.
THEOREM OneVerdict == Spec /\ []ErrorsFit => []SameVerdict
<1>1. Init => TypeOK /\ Agreement BY TypeInit, AgreementInit
<1>2. TypeOK /\ Agreement /\ ErrorsFit /\ ErrorsFit' /\ [Next]_vars => (TypeOK /\ Agreement)'
  BY TypeNext, AgreementNext
<1>3. Agreement => SameVerdict BY DEF Agreement, SameVerdict
<1> QED BY <1>1, <1>2, <1>3, PTL DEF Spec
-----------------------------------------------------------------------------
\* A walk along listed edges from the root.
IsWalk(p) ==
  /\ p \in Seq(Vertex) /\ Len(p) >= 1 /\ p[1] = Root
  /\ \A k \in 1 .. Len(p) - 1 : Linked(p[k], p[k + 1])

\* The result is a breadth-first search: what a walk reaches is marked as
\* reached and not deeper than the walk is long, what is marked as reached has
\* a walk of that length, and every reached vertex but the root has a parent
\* one level higher at the other end of a listed edge.
BreadthFirst ==
  /\ Parent(Root) = Root
  /\ \A p \in Seq(Vertex) : IsWalk(p) =>
       Reached(p[Len(p)]) /\ Depth(p[Len(p)]) <= Len(p) - 1
  /\ \A v \in Vertex : Reached(v) =>
       \E p \in Seq(Vertex) : IsWalk(p) /\ p[Len(p)] = v /\ Len(p) = Depth(v) + 1
  /\ \A v \in Vertex \ {Root} : Reached(v) =>
       Linked(v, Parent(v)) /\ Depth(v) = Depth(Parent(v)) + 1
  /\ \A v \in Vertex : ~ Reached(v) => Parent(v) = -1

LEMMA LinkedBothWays == ASSUME NEW u, NEW v, Linked(u, v) PROVE Linked(v, u)
<1>1. PICK r \in Rank : \E i \in DOMAIN edges[r] : \E k \in {1, 2} :
        edges[r][i][k] = u /\ edges[r][i][3 - k] = v
  BY DEF Linked
<1>1a. PICK i \in DOMAIN edges[r], k \in {1, 2} :
        edges[r][i][k] = u /\ edges[r][i][3 - k] = v
  BY <1>1
<1>2. 3 - k \in {1, 2} /\ 3 - (3 - k) = k
  OBVIOUS
<1> QED BY <1>1a, <1>2 DEF Linked

LEMMA DepthType == TypeOK => \A v \in Vertex : Depth(v) \in Nat
<1>1. 0 .. Max16 \subseteq Nat
  BY DEF Max16
<1>2. TypeOK => \A v \in Vertex : pred[v] \in Entry
  BY DEF TypeOK
<1>3. \A e \in Entry : e.depth \in 0 .. Max16
  BY DEF Entry
<1> QED BY <1>1, <1>2, <1>3 DEF Depth

\* What the entries of a checked result look like.
LEMMA CheckedEntries ==
  ASSUME TypeOK, AllChecked
  PROVE  /\ Depth(Root) = 0 /\ Reached(Root)
         /\ \A v \in Vertex : Reached(v) <=> Parent(v) # -1
         /\ \A v \in Vertex \ {Root} : Reached(v) =>
              /\ Parent(v) \in Vertex /\ Reached(Parent(v))
              /\ Depth(v) = Depth(Parent(v)) + 1
              /\ Linked(v, Parent(v))
<1>1. Root \in Vertex /\ NumVerts \in Nat
  BY ValidatorAssumption
<1>2. Depth(Root) = 0
  BY <1>1 DEF AllChecked, TreeChecked, DepthError
<1>3. \A v \in Vertex : Reached(v) <=> Parent(v) # -1
  BY DEF AllChecked, TreeChecked, DepthError, Reached
<1>4. ASSUME NEW v \in Vertex \ {Root}, Reached(v)
      PROVE  /\ Parent(v) \in Vertex /\ Reached(Parent(v))
             /\ Depth(v) = Depth(Parent(v)) + 1
             /\ Linked(v, Parent(v))
  <2>1. Parent(v) # -1 /\ Parent(v) \in -1 .. NumVerts - 1
    BY <1>3, <1>4 DEF AllChecked, TreeChecked, InRange
  <2>2. Parent(v) \in Vertex
    BY <1>1, <2>1 DEF Vertex
  <2>3. Depth(Parent(v)) # Max16 /\ Depth(v) = Depth(Parent(v)) + 1
    BY <2>1 DEF AllChecked, TreeChecked, DepthError
  <2>4. Linked(v, Parent(v))
    BY <2>1 DEF AllChecked
  <2> QED BY <2>2, <2>3, <2>4 DEF Reached
<1>5. Reached(Root)
  BY <1>2 DEF Reached, Max16
<1> QED BY <1>2, <1>3, <1>4, <1>5

\* Along a listed edge the depth grows by one at most.
LEMMA CheckedEdges ==
  ASSUME TypeOK, AllChecked, NEW u \in Vertex, NEW v \in Vertex,
         Linked(u, v), Reached(u)
  PROVE  Reached(v) /\ Depth(v) <= Depth(u) + 1
<1>1. PICK r \in Rank : \E i \in DOMAIN edges[r] : \E k \in {1, 2} :
        edges[r][i][k] = u /\ edges[r][i][3 - k] = v
  BY DEF Linked
<1>1a. PICK i \in DOMAIN edges[r], k \in {1, 2} :
        edges[r][i][k] = u /\ edges[r][i][3 - k] = v
  BY <1>1
<1> DEFINE e == edges[r][i]
<1>2. ~ EdgeError(e)
  BY DEF AllChecked
<1>3. \/ e[1] = u /\ e[2] = v
      \/ e[1] = v /\ e[2] = u
  BY <1>1a
<1> HIDE DEF e
<1>4. Reached(e[1]) = Reached(e[2]) /\ Depth(e[1]) - Depth(e[2]) \in -1 .. 1
  BY <1>2 DEF EdgeError
<1>5. Depth(u) \in Nat /\ Depth(v) \in Nat
  BY DepthType
<1>6. CASE e[1] = u /\ e[2] = v
  <2>1. Reached(v) BY <1>4, <1>6
  <2>2. Depth(u) - Depth(v) \in -1 .. 1 BY <1>4, <1>6
  <2> QED BY <1>5, <2>1, <2>2
<1>7. CASE e[1] = v /\ e[2] = u
  <2>1. Reached(v) BY <1>4, <1>7
  <2>2. Depth(v) - Depth(u) \in -1 .. 1 BY <1>4, <1>7
  <2> QED BY <1>5, <2>1, <2>2
<1> QED BY <1>3, <1>6, <1>7

\* No walk is shorter than the depth of its last vertex.
LEMMA WalksAreLong ==
  ASSUME TypeOK, AllChecked, NEW p \in Seq(Vertex), IsWalk(p)
  PROVE  Reached(p[Len(p)]) /\ Depth(p[Len(p)]) <= Len(p) - 1
<1> DEFINE Good(k) == Reached(p[k]) /\ Depth(p[k]) <= k - 1
           T == {k \in 1 .. Len(p) : ~ Good(k)}
<1>1. Len(p) \in Nat /\ Len(p) >= 1 /\ p[1] = Root
  BY DEF IsWalk
<1>2. \A k \in 1 .. Len(p) : p[k] \in Vertex
  OBVIOUS
<1>3. Good(1)
  BY <1>1, CheckedEntries
<1>4. T = {}
  <2> SUFFICES ASSUME T # {} PROVE FALSE
    OBVIOUS
  <2>1. PICK k \in T : \A j \in T : k <= j
    <3>1. T \in SUBSET Nat BY <1>1
    <3> QED BY <3>1, LeastNatural
  <2>2. k \in 1 .. Len(p) /\ ~ Good(k)
    OBVIOUS
  <2>3. k # 1
    BY <1>3, <2>2
  <2>4. k - 1 \in 1 .. Len(p) - 1 /\ k - 1 \in 1 .. Len(p) /\ (k - 1) + 1 = k
    BY <1>1, <2>2, <2>3
  <2>5. Good(k - 1)
    <3> HIDE DEF Good
    <3>1. ~ (k <= k - 1) BY <2>2
    <3> QED BY <2>1, <2>4, <3>1
  <2>6. Linked(p[k - 1], p[k])
    BY <2>4 DEF IsWalk
  <2>7. Reached(p[k]) /\ Depth(p[k]) <= Depth(p[k - 1]) + 1
    BY <1>2, <2>2, <2>4, <2>5, <2>6, CheckedEdges
  <2>8. Depth(p[k]) \in Nat /\ Depth(p[k - 1]) \in Nat
    BY <1>2, <2>2, <2>4, DepthType
  <2>9. Depth(p[k]) <= k - 1
    BY <2>2, <2>5, <2>7, <2>8
  <2> QED BY <2>2, <2>7, <2>9
<1>5. Len(p) \in 1 .. Len(p)
  BY <1>1
<1> HIDE DEF Good
<1>6. Good(Len(p))
  BY <1>4, <1>5
<1> QED BY <1>6 DEF Good

\* A vertex at depth n is at the end of a walk of n edges.
LEMMA WalksExist ==
  ASSUME TypeOK, AllChecked
  PROVE  \A v \in Vertex : Reached(v) =>
           \E p \in Seq(Vertex) : IsWalk(p) /\ p[Len(p)] = v /\ Len(p) = Depth(v) + 1
<1> DEFINE HasWalk(v) == \E p \in Seq(Vertex) : IsWalk(p) /\ p[Len(p)] = v /\ Len(p) = Depth(v) + 1
           T == {n \in Nat : \E v \in Vertex : Reached(v) /\ Depth(v) = n /\ ~ HasWalk(v)}
<1>1. T = {}
  <2> SUFFICES ASSUME T # {} PROVE FALSE
    OBVIOUS
  <2>1. PICK n \in T : \A m \in T : n <= m
    <3>1. T \in SUBSET Nat OBVIOUS
    <3> QED BY <3>1, LeastNatural
  <2>2. PICK v \in Vertex : Reached(v) /\ Depth(v) = n /\ ~ HasWalk(v)
    OBVIOUS
  <2>3. CASE v = Root
    <3> DEFINE p == <<Root>>
    <3>1. p \in Seq(Vertex) /\ Len(p) = 1 /\ p[1] = Root
      BY ValidatorAssumption
    <3> HIDE DEF p
    <3>2. IsWalk(p)
      BY <3>1 DEF IsWalk
    <3>3. Depth(v) + 1 = 1 BY <2>3, CheckedEntries
    <3>4. p[Len(p)] = v /\ Len(p) = Depth(v) + 1 BY <2>3, <3>1, <3>3
    <3> QED BY <2>2, <3>1, <3>2, <3>4
  <2>4. CASE v # Root
    <3> DEFINE u == Parent(v)
    <3>1. u \in Vertex /\ Reached(u) /\ Depth(v) = Depth(u) + 1 /\ Linked(u, v)
      BY <2>2, <2>4, CheckedEntries, LinkedBothWays
    <3> HIDE DEF u
    <3>2. Depth(u) \in Nat /\ ~ (n <= Depth(u))
      BY <2>2, <3>1, DepthType
    <3>3. HasWalk(u)
      <4> HIDE DEF HasWalk
      <4> QED BY <2>1, <3>1, <3>2
    <3>4. PICK p \in Seq(Vertex) : IsWalk(p) /\ p[Len(p)] = u /\ Len(p) = Depth(u) + 1
      BY <3>3
    <3> DEFINE q == Append(p, v)
    <3>5. /\ q \in Seq(Vertex) /\ Len(q) = Len(p) + 1 /\ q[Len(p) + 1] = v
          /\ \A k \in 1 .. Len(p) : q[k] = p[k]
      BY <2>2, AppendProperties
    <3> HIDE DEF q
    <3>6. Len(p) \in Nat /\ Len(p) >= 1 /\ p[1] = Root
      BY <3>4 DEF IsWalk
    <3>7. ASSUME NEW k \in 1 .. Len(q) - 1 PROVE Linked(q[k], q[k + 1])
      <4>1. k \in 1 .. Len(p)
        BY <3>5, <3>6
      <4>2. CASE k = Len(p)
        BY <3>1, <3>4, <3>5, <4>1, <4>2
      <4>3. CASE k # Len(p)
        <5>1. k \in 1 .. Len(p) - 1 /\ k + 1 \in 1 .. Len(p)
          BY <3>6, <4>1, <4>3
        <5> QED BY <3>4, <3>5, <4>1, <5>1 DEF IsWalk
      <4> QED BY <4>2, <4>3
    <3>8. IsWalk(q)
      BY <3>5, <3>6, <3>7 DEF IsWalk
    <3>9. Len(q) = Depth(v) + 1 /\ q[Len(q)] = v
      BY <3>1, <3>2, <3>4, <3>5, <3>6
    <3> QED BY <2>2, <3>5, <3>8, <3>9
  <2> QED BY <2>3, <2>4
<1> HIDE DEF HasWalk
<1>2. \A v \in Vertex : Reached(v) => HasWalk(v)
  BY <1>1, DepthType
<1> QED BY <1>2 DEF HasWalk

\* What a rank accepts is a breadth-first search of the edge list: the depths
\* are the distances from the root and the parents form a tree of listed edges.
THEOREM AcceptedIsBreadthFirst ==
  Spec /\ []ErrorsFit => [](\A r \in Rank : verdict[r] = "true" => BreadthFirst)
<1>1. IInv => (\A r \in Rank : verdict[r] = "true" => BreadthFirst)
  <2> SUFFICES ASSUME IInv, NEW r \in Rank, verdict[r] = "true" PROVE BreadthFirst
    OBVIOUS
  <2>1. TypeOK /\ AllChecked
    BY DEF IInv, Accepted
  <2>2. Parent(Root) = Root
    BY <2>1 DEF AllChecked, TreeChecked
  <2> QED BY <2>1, <2>2, CheckedEntries, WalksAreLong, WalksExist DEF BreadthFirst
<1> QED BY <1>1, Invariance, PTL
-----------------------------------------------------------------------------
\* The property that the run checks. First the graph of the edge list:
\* its edges are the linked pairs.

LEMMA JoinsLinked ==
  ASSUME NEW u, NEW v, edges \in [Rank -> Seq(Vertex \X Vertex)]
  PROVE  <<u, v>> \in Joins <=> Linked(u, v)
<1> DEFINE All == UNION {ToSet(edges[r]) : r \in Rank}
<1>1. \A e : e \in All <=> \E r \in Rank : \E i \in DOMAIN edges[r] : e = edges[r][i]
  BY DEF ToSet
<1>2. <<u, v>> \in Joins <=> \E e \in All : <<u, v>> = <<e[1], e[2]>> \/ <<u, v>> = <<e[2], e[1]>>
  BY DEF Joins
<1> HIDE DEF All
<1>3. <<u, v>> \in Joins <=> \E e \in All : (e[1] = u /\ e[2] = v) \/ (e[1] = v /\ e[2] = u)
  BY <1>2
<1>4. Linked(u, v) <=> \E r \in Rank : \E i \in DOMAIN edges[r] :
        \/ edges[r][i][1] = u /\ edges[r][i][2] = v
        \/ edges[r][i][1] = v /\ edges[r][i][2] = u
  <2>1. 3 - 1 = 2 /\ 3 - 2 = 1
    OBVIOUS
  <2> QED BY <2>1 DEF Linked
<1> QED BY <1>1, <1>3, <1>4

\* The vertices at depth k or less.
Shallow(k) == {v \in Vertex : Reached(v) /\ Depth(v) <= k}

\* A level of a checked result is what the level before is joined to.
LEMMA NextLevel ==
  ASSUME TypeOK, AllChecked, NEW k \in Nat \ {0}
  PROVE  Shallow(k) = Shallow(k - 1) \cup {e[2] : e \in {e \in Joins : e[1] \in Shallow(k - 1)}}
<1> DEFINE Near == {e[2] : e \in {e \in Joins : e[1] \in Shallow(k - 1)}}
<1>0. edges \in [Rank -> Seq(Vertex \X Vertex)]
  BY DEF TypeOK
<1>1. ASSUME NEW v \in Shallow(k) PROVE v \in Shallow(k - 1) \cup Near
  <2>1. v \in Vertex /\ Reached(v) /\ Depth(v) <= k /\ Depth(v) \in Nat
    BY DepthType DEF Shallow
  <2>2. CASE Depth(v) <= k - 1
    BY <2>1, <2>2 DEF Shallow
  <2>3. CASE Depth(v) = k
    <3>1. v # Root
      BY <2>3, CheckedEntries
    <3> DEFINE u == Parent(v)
    <3>2. u \in Vertex /\ Reached(u) /\ Depth(v) = Depth(u) + 1 /\ Linked(u, v)
      BY <2>1, <3>1, CheckedEntries, LinkedBothWays
    <3> HIDE DEF u
    <3>3. u \in Shallow(k - 1)
      <4>1. Depth(u) \in Nat
        BY <3>2, DepthType
      <4>2. Depth(u) <= k - 1
        BY <2>3, <3>2, <4>1
      <4> QED BY <3>2, <4>2 DEF Shallow
    <3>4. <<u, v>> \in Joins
      BY <1>0, <3>2, JoinsLinked
    <3>5. <<u, v>>[1] = u /\ <<u, v>>[2] = v
      OBVIOUS
    <3>6. <<u, v>> \in {e \in Joins : e[1] \in Shallow(k - 1)}
      BY <3>3, <3>4, <3>5
    <3> QED BY <3>5, <3>6
  <2> QED BY <2>1, <2>2, <2>3
<1>2. Shallow(k - 1) \subseteq Shallow(k)
  <2> SUFFICES ASSUME NEW v \in Shallow(k - 1) PROVE v \in Shallow(k)
    OBVIOUS
  <2>1. v \in Vertex /\ Reached(v) /\ Depth(v) <= k - 1 /\ Depth(v) \in Nat
    BY DepthType DEF Shallow
  <2>2. Depth(v) <= k
    BY <2>1
  <2> QED BY <2>1, <2>2 DEF Shallow
<1>3. Near \subseteq Shallow(k)
  <2> SUFFICES ASSUME NEW e \in Joins, e[1] \in Shallow(k - 1) PROVE e[2] \in Shallow(k)
    OBVIOUS
  <2>1. e = <<e[1], e[2]>> /\ e[1] \in Vertex /\ e[2] \in Vertex
    <3>1. PICK f \in UNION {ToSet(edges[r]) : r \in Rank} : e = <<f[1], f[2]>> \/ e = <<f[2], f[1]>>
      BY DEF Joins
    <3>2. f \in Vertex \X Vertex
      <4>1. PICK r \in Rank : f \in ToSet(edges[r])
        OBVIOUS
      <4>2. edges[r] \in Seq(Vertex \X Vertex)
        BY <1>0
      <4> QED BY <4>1, <4>2 DEF ToSet
    <3> QED BY <3>1, <3>2
  <2> DEFINE u == e[1]
             v == e[2]
  <2>2. Linked(u, v)
    BY <1>0, <2>1, JoinsLinked
  <2>3. u \in Vertex /\ v \in Vertex /\ u \in Shallow(k - 1)
    BY <2>1
  <2> HIDE DEF u, v
  <2>4. Reached(u) /\ Depth(u) <= k - 1
    BY <2>3 DEF Shallow
  <2>5. Reached(v) /\ Depth(v) <= Depth(u) + 1
    BY <2>2, <2>3, <2>4, CheckedEdges
  <2>6. Depth(u) \in Nat /\ Depth(v) \in Nat
    BY <2>3, DepthType
  <2>7. Depth(v) <= k
    BY <2>4, <2>5, <2>6
  <2>8. v \in Shallow(k)
    BY <2>3, <2>5, <2>7 DEF Shallow
  <2> QED BY <2>8 DEF v
<1> QED BY <1>1, <1>2, <1>3

\* At depth zero is the root alone.
LEMMA FirstLevel ==
  ASSUME TypeOK, AllChecked
  PROVE  Shallow(0) = {Root}
<1>1. Root \in Shallow(0)
  BY CheckedEntries, ValidatorAssumption DEF Shallow
<1>2. ASSUME NEW v \in Shallow(0) PROVE v = Root
  <2> SUFFICES ASSUME v # Root PROVE FALSE
    OBVIOUS
  <2>1. v \in Vertex /\ Reached(v) /\ Depth(v) <= 0
    BY DEF Shallow
  <2>2. Parent(v) \in Vertex /\ Depth(v) = Depth(Parent(v)) + 1
    BY <2>1, CheckedEntries
  <2>3. Depth(Parent(v)) \in Nat
    BY <2>2, DepthType
  <2> QED BY <2>1, <2>2, <2>3
<1> QED BY <1>1, <1>2

\* The sets of Within are the levels of a checked result.
LEMMA WithinLevels ==
  ASSUME TypeOK, AllChecked
  PROVE  \A k \in 0 .. NumVerts : Within(Joins)[k] = Shallow(k)
<1> DEFINE J == Joins
           Grow(w) == [k \in 0 .. NumVerts |->
                         IF k = 0 THEN {Root}
                         ELSE w[k - 1] \cup {e[2] : e \in {e \in J : e[1] \in w[k - 1]}}]
           levels == [k \in 0 .. NumVerts |-> Shallow(k)]
           W == Within(J)
<1>0. NumVerts \in Nat
  BY ValidatorAssumption
<1>1. W = CHOOSE w : w = Grow(w)
  BY DEF Within
<1>2. levels = Grow(levels)
  <2>1. ASSUME NEW k \in 0 .. NumVerts PROVE levels[k] = Grow(levels)[k]
    <3>1. CASE k = 0
      BY <3>1, FirstLevel
    <3>2. CASE k # 0
      <4>1. k \in Nat \ {0} /\ k - 1 \in 0 .. NumVerts
        BY <1>0, <3>2
      <4>2. levels[k] = Shallow(k) /\ levels[k - 1] = Shallow(k - 1)
        BY <4>1
      <4>3. Shallow(k) = Shallow(k - 1) \cup {e[2] : e \in {e \in J : e[1] \in Shallow(k - 1)}}
        BY <4>1, NextLevel
      <4> HIDE DEF levels, J
      <4> QED BY <3>2, <4>2, <4>3
    <3> QED BY <3>1, <3>2
  <2> DEFINE g == Grow(levels)
  <2>2. g = [k \in 0 .. NumVerts |-> g[k]] /\ levels = [k \in 0 .. NumVerts |-> levels[k]]
    OBVIOUS
  <2>3. \A k \in 0 .. NumVerts : levels[k] = g[k]
    BY <2>1
  <2> HIDE DEF g, levels
  <2>4. levels = g
    BY <2>2, <2>3
  <2> QED BY <2>4 DEF g
<1> HIDE DEF levels, Grow, W
<1>3. W = Grow(W)
  BY <1>1, <1>2
<1> DEFINE T == {k \in 0 .. NumVerts : W[k] # Shallow(k)}
<1>4. T = {}
  <2> SUFFICES ASSUME T # {} PROVE FALSE
    OBVIOUS
  <2>1. PICK k \in T : \A j \in T : k <= j
    <3>1. T \in SUBSET Nat
      BY <1>0
    <3> QED BY <3>1, LeastNatural
  <2>2. k \in 0 .. NumVerts /\ W[k] # Shallow(k)
    OBVIOUS
  <2>3. W[k] = Grow(W)[k]
    BY <1>3
  <2>4. CASE k = 0
    BY <2>2, <2>3, <2>4, FirstLevel DEF Grow
  <2>5. CASE k # 0
    <3>1. k \in Nat \ {0} /\ k - 1 \in 0 .. NumVerts /\ ~ (k <= k - 1)
      BY <1>0, <2>2, <2>5
    <3>2. W[k - 1] = Shallow(k - 1)
      BY <2>1, <3>1
    <3>3. W[k] = W[k - 1] \cup {e[2] : e \in {e \in J : e[1] \in W[k - 1]}}
      BY <2>2, <2>3, <2>5 DEF Grow
    <3>4. Shallow(k) = Shallow(k - 1) \cup {e[2] : e \in {e \in J : e[1] \in Shallow(k - 1)}}
      BY <3>1, NextLevel
    <3> HIDE DEF J
    <3> QED BY <2>2, <3>2, <3>3, <3>4
  <2> QED BY <2>4, <2>5
<1> QED BY <1>4 DEF W

\* No vertex is deeper than there are vertices: there is one at every depth
\* above it.
LEMMA DepthsFilled ==
  ASSUME TypeOK, AllChecked, NEW v \in Vertex, Reached(v)
  PROVE  \A d \in 0 .. Depth(v) : \E u \in Vertex : Reached(u) /\ Depth(u) = d
<1> DEFINE Missing(d) == ~ \E u \in Vertex : Reached(u) /\ Depth(u) = d
           T == {k \in Nat : k <= Depth(v) /\ Missing(Depth(v) - k)}
<1>1. Depth(v) \in Nat
  BY DepthType
<1>2. T = {}
  <2> SUFFICES ASSUME T # {} PROVE FALSE
    OBVIOUS
  <2>1. PICK k \in T : \A j \in T : k <= j
    <3>1. T \in SUBSET Nat
      OBVIOUS
    <3> QED BY <3>1, LeastNatural
  <2>2. k \in Nat /\ k <= Depth(v) /\ Missing(Depth(v) - k)
    OBVIOUS
  <2>3. k # 0
    BY <1>1, <2>2
  <2> DEFINE d == Depth(v) - (k - 1)
  <2>4. ~ Missing(d)
    <3>1. k - 1 \in Nat /\ k - 1 <= Depth(v) /\ ~ (k <= k - 1)
      BY <1>1, <2>2, <2>3
    <3> HIDE DEF Missing
    <3>2. k - 1 \notin T
      BY <2>1, <3>1
    <3> QED BY <3>1, <3>2
  <2>5. PICK u \in Vertex : Reached(u) /\ Depth(u) = d
    BY <2>4
  <2>6. d \in Nat /\ d >= 1 /\ Depth(v) - k = d - 1
    BY <1>1, <2>2, <2>3
  <2> HIDE DEF d
  <2>7. u # Root
    BY <2>5, <2>6, CheckedEntries
  <2>8. Parent(u) \in Vertex /\ Reached(Parent(u)) /\ Depth(u) = Depth(Parent(u)) + 1
    BY <2>5, <2>7, CheckedEntries
  <2>9. Depth(Parent(u)) = d - 1
    <3>1. Depth(Parent(u)) \in Nat
      BY <2>8, DepthType
    <3> QED BY <2>5, <2>8, <3>1
  <2> QED BY <2>2, <2>6, <2>8, <2>9
<1> SUFFICES ASSUME NEW d \in 0 .. Depth(v) PROVE ~ Missing(d)
  OBVIOUS
<1>3. Depth(v) - d \in Nat /\ Depth(v) - d <= Depth(v) /\ Depth(v) - (Depth(v) - d) = d
  BY <1>1
<1> HIDE DEF Missing
<1>4. Depth(v) - d \notin T
  BY <1>2
<1>5. ~ Missing(Depth(v) - (Depth(v) - d))
  BY <1>3, <1>4
<1> QED BY <1>3, <1>5

LEMMA DepthBound ==
  ASSUME TypeOK, AllChecked, NEW v \in Vertex, Reached(v)
  PROVE  Depth(v) \in Nat /\ Depth(v) < NumVerts
<1> DEFINE D == {d \in 0 .. Depth(v) : TRUE}
           S == {u \in Vertex : Depth(u) \in D}
           f == [u \in S |-> Depth(u)]
<1>0. NumVerts \in Nat /\ Depth(v) \in Nat
  BY ValidatorAssumption, DepthType
<1>1. IsFiniteSet(Vertex) /\ Cardinality(Vertex) = NumVerts
  <2>1. 0 \in Int /\ NumVerts - 1 \in Int /\ Vertex = 0 .. (NumVerts - 1)
    BY <1>0 DEF Vertex
  <2>2. Cardinality(Vertex) = IF 0 > NumVerts - 1 THEN 0 ELSE (NumVerts - 1) - 0 + 1
    BY <2>1, FS_Interval
  <2>3. IsFiniteSet(Vertex)
    BY <2>1, FS_Interval
  <2> QED BY <1>0, <2>2, <2>3
<1>2. IsFiniteSet(S) /\ Cardinality(S) <= NumVerts /\ Cardinality(S) \in Nat
  <2>1. S \in SUBSET Vertex
    OBVIOUS
  <2> HIDE DEF S
  <2>2. IsFiniteSet(S) /\ Cardinality(S) <= NumVerts
    BY <1>1, <2>1, FS_Subset
  <2> QED BY <2>2, FS_CardinalityType
<1>3. f \in Surjection(S, D)
  <2>1. f \in [S -> D]
    OBVIOUS
  <2>2. \A d \in D : \E u \in S : f[u] = d
    <3> SUFFICES ASSUME NEW d \in D PROVE \E u \in S : f[u] = d
      OBVIOUS
    <3>1. PICK u \in Vertex : Depth(u) = d
      BY DepthsFilled
    <3> QED BY <3>1
  <2> HIDE DEF f, S, D
  <2> QED BY <2>1, <2>2 DEF Surjection
<1>4. Cardinality(D) = Depth(v) + 1 /\ Cardinality(D) \in Nat
  <2>1. D = 0 .. Depth(v)
    OBVIOUS
  <2> HIDE DEF D
  <2>2. Cardinality(D) = IF 0 > Depth(v) THEN 0 ELSE Depth(v) - 0 + 1
    BY <1>0, <2>1, FS_Interval
  <2> QED BY <1>0, <2>2
<1> HIDE DEF f, S, D
<1>5. Cardinality(D) <= Cardinality(S)
  BY <1>2, <1>3, FS_Surjection
<1> QED BY <1>0, <1>2, <1>4, <1>5

\* The vertices in the component of the root are those marked as reached.
LEMMA ComponentReached ==
  ASSUME TypeOK, AllChecked
  PROVE  \A v \in Vertex : v \in Within(Joins)[NumVerts] <=> Reached(v)
<1>1. NumVerts \in Nat /\ NumVerts \in 0 .. NumVerts
  BY ValidatorAssumption
<1>2. Within(Joins)[NumVerts] = Shallow(NumVerts)
  BY <1>1, WithinLevels
<1>3. ASSUME NEW v \in Vertex, Reached(v) PROVE Depth(v) <= NumVerts
  <2>1. Depth(v) \in Nat /\ Depth(v) < NumVerts
    BY <1>3, DepthBound
  <2> QED BY <1>1, <2>1
<1> QED BY <1>2, <1>3 DEF Shallow

LEMMA CheckedIsSearch ==
  ASSUME TypeOK, AllChecked
  PROVE  IsSearch
<1> DEFINE J == Joins
           W == Within(J)
<1>0. NumVerts \in Nat /\ edges \in [Rank -> Seq(Vertex \X Vertex)]
  BY ValidatorAssumption DEF TypeOK
<1>1. ASSUME NEW v \in Vertex, v \in W[NumVerts]
      PROVE  /\ Depth(v) \in 0 .. NumVerts /\ v \in W[Depth(v)]
             /\ Depth(v) > 0 => v \notin W[Depth(v) - 1]
             /\ IF v = Root THEN Parent(v) = v
                ELSE <<Parent(v), v>> \in J /\ Depth(v) = Depth(Parent(v)) + 1
  <2>1. Reached(v)
    BY <1>1, ComponentReached
  <2>2. Depth(v) \in Nat /\ Depth(v) \in 0 .. NumVerts
    BY <1>0, <2>1, DepthBound
  <2>3. W[Depth(v)] = Shallow(Depth(v))
    BY <2>2, WithinLevels
  <2>4. v \in Shallow(Depth(v))
    BY <2>1, <2>2 DEF Shallow
  <2>5. ASSUME Depth(v) > 0 PROVE v \notin W[Depth(v) - 1]
    <3>1. Depth(v) - 1 \in 0 .. NumVerts /\ ~ (Depth(v) <= Depth(v) - 1)
      BY <1>0, <2>2, <2>5
    <3>2. W[Depth(v) - 1] = Shallow(Depth(v) - 1)
      BY <3>1, WithinLevels
    <3> QED BY <3>1, <3>2 DEF Shallow
  <2>6. CASE v = Root
    <3>1. Parent(Root) = Root
      BY DEF AllChecked, TreeChecked
    <3> QED BY <2>2, <2>3, <2>4, <2>5, <2>6, <3>1
  <2>7. CASE v # Root
    <3>1. Parent(v) \in Vertex /\ Depth(v) = Depth(Parent(v)) + 1 /\ Linked(Parent(v), v)
      BY <2>1, <2>7, CheckedEntries, LinkedBothWays
    <3>2. <<Parent(v), v>> \in J
      BY <1>0, <3>1, JoinsLinked
    <3> HIDE DEF W, J
    <3> QED BY <2>2, <2>3, <2>4, <2>5, <2>7, <3>1, <3>2
  <2> QED BY <2>6, <2>7
<1>2. ASSUME NEW v \in Vertex, v \notin W[NumVerts]
      PROVE  Parent(v) = -1 /\ Depth(v) = Max16
  <2>1. ~ Reached(v)
    BY <1>2, ComponentReached
  <2>2. Parent(v) = -1
    BY <2>1, CheckedEntries
  <2> QED BY <2>1, <2>2 DEF Reached
<1> HIDE DEF W, J
<1>3. \A v \in Vertex :
       IF v \in W[NumVerts]
       THEN /\ Depth(v) \in 0 .. NumVerts /\ v \in W[Depth(v)]
            /\ Depth(v) > 0 => v \notin W[Depth(v) - 1]
            /\ IF v = Root THEN Parent(v) = v
               ELSE <<Parent(v), v>> \in J /\ Depth(v) = Depth(Parent(v)) + 1
       ELSE Parent(v) = -1 /\ Depth(v) = Max16
  BY <1>1, <1>2
<1> QED BY <1>3 DEF IsSearch, W, J
-----------------------------------------------------------------------------
\* The edges of a rank that it has counted as visited so far.
Counted(r) == {i \in DOMAIN edges[r] :
                 /\ ~ EdgeError(edges[r][i]) /\ Reached(edges[r][i][1])
                 /\ \/ ChunkOf(i) < loop[r]
                    \/ ChunkOf(i) = loop[r] /\ pc[r] \in {"mark row", "mark column"}}

\* Every rank has counted each visited edge of the chunks behind it once, and
\* an answer comes with the sum over the ranks.
VisitsCounted ==
  /\ visits = [r \in Rank |-> visits[r]]
  /\ \A r \in Rank : pc[r] # "returned" => visits[r] = Cardinality(Counted(r))
  /\ \A r \in Rank : verdict[r] = "true" => visits[r] = TraversedEdges

LEMMA VisitsInit == TypeOK /\ Init => VisitsCounted
<1> SUFFICES ASSUME TypeOK, Init PROVE VisitsCounted
  OBVIOUS
<1>1. visits = [r \in Rank |-> visits[r]] /\ \A r \in Rank : visits[r] = 0
  BY DEF Init
<1>2. ASSUME NEW r \in Rank PROVE Cardinality(Counted(r)) = 0
  <2>1. loop[r] = 0 /\ pc[r] = "ranges"
    BY DEF Init
  <2>2. \A i \in DOMAIN edges[r] : ChunkOf(i) \in Nat
    BY InSomeChunk DEF TypeOK, ChunkOf
  <2>3. \A n \in Nat : ~ (n < 0)
    OBVIOUS
  <2>4. Counted(r) = {}
    BY <2>1, <2>2, <2>3 DEF Counted
  <2> QED BY <2>4, FS_EmptySet
<1>3. \A r \in Rank : verdict[r] = "none"
  BY DEF Init
<1> QED BY <1>1, <1>2, <1>3 DEF VisitsCounted

\* A step of the loop adds the visited edges of a chunk or counts nothing.
LEMMA VisitsNext ==
  IInv /\ TypeOK' /\ ErrorsFit' /\ Agreement /\ VisitsCounted /\ [Next]_vars => VisitsCounted'
<1> SUFFICES ASSUME IInv, TypeOK', ErrorsFit', Agreement, VisitsCounted, [Next]_vars
           PROVE  VisitsCounted'
  OBVIOUS
<1>t. TypeOK /\ ChunksChecked /\ Accepted
  BY DEF IInv
<1>0. /\ edges' = edges /\ pred' = pred
      /\ TraversedEdges' = TraversedEdges
      /\ \A e : EdgeError(e)' = EdgeError(e) /\ Reached(e[1])' = Reached(e[1])
  BY InputsStay DEF TraversedEdges, Joins, EdgeError, Depth, Reached
<1>c. \A r \in Rank : \A i \in DOMAIN edges[r] : ChunkOf(i) \in Nat
  BY <1>t, InSomeChunk DEF TypeOK, ChunkOf
<1> DEFINE Good(r, i) == ~ EdgeError(edges[r][i]) /\ Reached(edges[r][i][1])
           Now(r, i)  == \/ ChunkOf(i) < loop[r]
                         \/ ChunkOf(i) = loop[r] /\ pc[r] \in {"mark row", "mark column"}
           Then(r, i) == \/ ChunkOf(i) < loop'[r]
                         \/ ChunkOf(i) = loop'[r] /\ pc'[r] \in {"mark row", "mark column"}
<1>d. \A r \in Rank : /\ Counted(r)  = {i \in DOMAIN edges[r] : Good(r, i) /\ Now(r, i)}
                      /\ Counted(r)' = {i \in DOMAIN edges[r] : Good(r, i) /\ Then(r, i)}
  BY <1>0 DEF Counted
<1> USE RankExists DEF AllAt
\* No answer yet: only the counts of the ranks that have not returned matter.
<1>k. ASSUME visits' = visits, \A r \in Rank : verdict'[r] = "true" => verdict[r] = "true",
             \A r \in Rank : pc'[r] # "returned" => pc[r] # "returned",
             \A r \in Rank : pc'[r] # "returned" =>
               \A i \in DOMAIN edges[r] : Then(r, i) <=> Now(r, i)
      PROVE  VisitsCounted'
  <2>1. ASSUME NEW r \in Rank, pc'[r] # "returned" PROVE visits'[r] = Cardinality(Counted(r))'
    <3>1. Counted(r)' = Counted(r)
      <4> HIDE DEF Then, Now, Good
      <4> QED BY <1>d, <1>k, <2>1
    <3> QED BY <1>k, <2>1, <3>1 DEF VisitsCounted
  <2>2. \A r \in Rank : verdict'[r] = "true" => visits'[r] = TraversedEdges'
    BY <1>0, <1>k DEF VisitsCounted
  <2> QED BY <1>k, <2>1, <2>2 DEF VisitsCounted
\* Before the loop nothing is behind a rank.
<1>n. ASSUME visits' = visits, loop' = loop, \A r \in Rank : verdict'[r] = "true" => verdict[r] = "true",
             \A r \in Rank : pc[r] \in {"ranges", "parents", "depths"},
             \A r \in Rank : pc'[r] \notin {"mark row", "mark column"}
      PROVE  VisitsCounted'
  <2>1. \A r \in Rank : \A i \in DOMAIN edges[r] : Then(r, i) <=> Now(r, i)
    BY <1>n
  <2>2. \A r \in Rank : pc[r] # "returned"
    BY <1>n
  <2> HIDE DEF Then, Now, Good
  <2> QED BY <2>1, <2>2, <1>n, <1>k
<1>1. CASE SumRanges
  BY <1>1, <1>n DEF SumRanges, GoOn
<1>2. CASE SumParents
  BY <1>2, <1>n DEF SumParents, GoOn
<1>3. CASE SumDepths
  <2>1. \A r \in Rank : pc'[r] \notin {"mark row", "mark column"}
    BY <1>3 DEF SumDepths, GoOn, AtLoopHead
  <2> QED BY <1>3, <2>1, <1>n DEF SumDepths, GoOn
<1>4. ASSUME NEW r \in Rank, Ask(r) PROVE VisitsCounted'
  <2>1. loop' = loop /\ visits' = visits /\ verdict' = verdict
    BY <1>4 DEF Ask
  <2>2. \A s \in Rank : \/ pc'[s] = pc[s]
                        \/ /\ pc[s] \in {"ask row", "ask column", "reply row"}
                           /\ pc'[s] \in {"ask column", "reply row", "reply column"}
    BY <1>4, <1>t DEF Ask, TypeOK
  <2>3. \A s \in Rank : \A i \in DOMAIN edges[s] : Then(s, i) <=> Now(s, i)
    BY <2>1, <2>2
  <2>4. \A s \in Rank : pc'[s] # "returned" => pc[s] # "returned"
    BY <2>2
  <2> HIDE DEF Then, Now, Good
  <2> QED BY <2>1, <2>3, <2>4, <1>k
<1>5. ASSUME NEW r \in Rank, CheckEdges(r) PROVE VisitsCounted'
  <2> DEFINE G == ColumnOf(r)
             New(s) == {i \in ChunkIndices(s) : Good(s, i)}
  <2>1. /\ loop' = loop /\ verdict' = verdict
        /\ \A s \in G : pc[s] = "reply column"
    BY <1>5 DEF CheckEdges
  <2>2. /\ visits' = [s \in Rank |-> IF s \in G THEN visits[s] + Cardinality(New(s)) ELSE visits[s]]
        /\ pc' = [s \in Rank |-> IF s \in G THEN "mark row" ELSE pc[s]]
    BY <1>5 DEF CheckEdges
  <2> HIDE DEF G
  <2>3. ASSUME NEW s \in Rank, s \in G PROVE visits'[s] = Cardinality(Counted(s))'
    <3>1. Counted(s)' = Counted(s) \cup New(s) /\ Counted(s) \cap New(s) = {}
      <4>1. \A i \in DOMAIN edges[s] : i \in ChunkIndices(s) <=> ChunkOf(i) = loop[s]
        BY DEF ChunkIndices, ChunkOf
      <4>2. New(s) = {i \in DOMAIN edges[s] : Good(s, i) /\ ChunkOf(i) = loop[s]}
        BY <4>1 DEF ChunkIndices
      <4>3. \A i \in DOMAIN edges[s] : Then(s, i) <=> ChunkOf(i) < loop[s] \/ ChunkOf(i) = loop[s]
        BY <2>1, <2>2, <2>3
      <4>4. \A i \in DOMAIN edges[s] : Now(s, i) <=> ChunkOf(i) < loop[s]
        BY <2>1, <2>3
      <4>5. \A i \in DOMAIN edges[s] : ~ (ChunkOf(i) < loop[s] /\ ChunkOf(i) = loop[s])
        <5>1. \A m \in Nat, n \in Nat : ~ (m < n /\ m = n)
          OBVIOUS
        <5> QED BY <5>1, <1>c, <1>t DEF TypeOK
      <4> HIDE DEF Then, Now, Good, New
      <4> QED BY <1>d, <4>2, <4>3, <4>4, <4>5
    <3>2. Counted(s) \in SUBSET DOMAIN edges[s] /\ New(s) \in SUBSET DOMAIN edges[s]
      BY DEF Counted, ChunkIndices
    <3> HIDE DEF New
    <3>3. /\ IsFiniteSet(Counted(s)) /\ Cardinality(Counted(s)) \in Nat
          /\ IsFiniteSet(New(s)) /\ Cardinality(New(s)) \in Nat
      BY <1>t, <3>2, FiniteDomain
    <3>4. Cardinality(Counted(s) \cup New(s)) = Cardinality(Counted(s)) + Cardinality(New(s))
      <4>1. Cardinality(Counted(s) \cap New(s)) = 0
        BY <3>1, FS_EmptySet
      <4>2. Cardinality(Counted(s) \cup New(s))
              = Cardinality(Counted(s)) + Cardinality(New(s)) - Cardinality(Counted(s) \cap New(s))
        BY <3>3, FS_Union
      <4> QED BY <3>3, <4>1, <4>2
    <3>5. visits[s] = Cardinality(Counted(s))
      BY <2>1, <2>3 DEF VisitsCounted
    <3>6. visits'[s] = visits[s] + Cardinality(New(s))
      BY <2>2, <2>3
    <3> QED BY <3>1, <3>4, <3>5, <3>6
  <2>4. ASSUME NEW s \in Rank, s \notin G
        PROVE  visits'[s] = visits[s] /\ Counted(s)' = Counted(s) /\ pc'[s] = pc[s]
    <3>1. visits'[s] = visits[s] /\ pc'[s] = pc[s] /\ loop'[s] = loop[s]
      BY <2>1, <2>2, <2>4
    <3>2. \A i \in DOMAIN edges[s] : Then(s, i) <=> Now(s, i)
      BY <3>1
    <3> HIDE DEF Then, Now, Good
    <3> QED BY <1>d, <3>1, <3>2
  <2>5. \A s \in Rank : verdict[s] # "true"
    <3>1. pc[r] = "reply column"
      BY <2>1, OwnGroup DEF G
    <3> QED BY <3>1 DEF Agreement
  <2>6. visits' = [s \in Rank |-> visits'[s]]
    BY <2>2
  <2>7. \A s \in Rank : pc'[s] # "returned" => visits'[s] = Cardinality(Counted(s))'
    BY <2>3, <2>4 DEF VisitsCounted
  <2> QED BY <2>1, <2>5, <2>6, <2>7 DEF VisitsCounted
<1>6. ASSUME NEW r \in Rank, MarkRow(r) PROVE VisitsCounted'
  <2>1. loop' = loop /\ visits' = visits /\ verdict' = verdict
    BY <1>6 DEF MarkRow
  <2>2. \A s \in Rank : pc'[s] = pc[s] \/ (pc[s] = "mark row" /\ pc'[s] = "mark column")
    BY <1>6, <1>t DEF MarkRow, TypeOK
  <2>3. \A s \in Rank : \A i \in DOMAIN edges[s] : Then(s, i) <=> Now(s, i)
    BY <2>1, <2>2
  <2>4. \A s \in Rank : pc'[s] # "returned" => pc[s] # "returned"
    BY <2>2
  <2> HIDE DEF Then, Now, Good
  <2> QED BY <2>1, <2>3, <2>4, <1>k
<1>7. ASSUME NEW r \in Rank, MarkColumn(r) PROVE VisitsCounted'
  <2>1. visits' = visits /\ verdict' = verdict
    BY <1>7 DEF MarkColumn
  <2>2. \A s \in Rank : s \notin ColumnOf(r) => pc'[s] = pc[s] /\ loop'[s] = loop[s]
    BY <1>7, <1>t DEF MarkColumn, TypeOK
  <2>3. \A s \in Rank : s \in ColumnOf(r) =>
          /\ pc[s] = "mark column" /\ loop'[s] = loop[s] + 1
          /\ pc'[s] \in {"ask row", "visits"}
    <3>1. \A s \in Rank : AtLoopHead(loop[s] + 1, errors[s]) \in {"ask row", "visits"}
      BY Zenon DEF AtLoopHead
    <3> QED BY <1>7, <1>t, <3>1 DEF MarkColumn, TypeOK, ColumnOf
  <2>4. ASSUME NEW s \in Rank, NEW i \in DOMAIN edges[s] PROVE Then(s, i) <=> Now(s, i)
    <3>1. CASE s \notin ColumnOf(r)
      BY <2>2, <3>1
    <3>2. CASE s \in ColumnOf(r)
      <4>1. ChunkOf(i) < loop[s] + 1 <=> ChunkOf(i) < loop[s] \/ ChunkOf(i) = loop[s]
        <5>1. \A m, n \in Nat : m < n + 1 <=> m < n \/ m = n
          OBVIOUS
        <5>2. ChunkOf(i) \in Nat /\ loop[s] \in Nat
          BY <1>c, <1>t DEF TypeOK
        <5> QED BY <5>1, <5>2
      <4> QED BY <2>3, <3>2, <4>1
    <3> QED BY <3>1, <3>2
  <2>5. \A s \in Rank : pc'[s] # "returned" => pc[s] # "returned"
    BY <2>2, <2>3
  <2> HIDE DEF Then, Now, Good
  <2> QED BY <2>1, <2>4, <2>5, <1>k
<1>8. CASE Collect
  <2>1. /\ visits' = [r \in Rank |-> SumFunction(visits)]
        /\ \A r \in Rank : pc[r] = "visits" /\ pc'[r] = "returned"
    BY <1>8 DEF Collect
  <2>2. ASSUME NEW r \in Rank, verdict'[r] = "true" PROVE SumFunction(visits) = TraversedEdges
    <3>1. \A s \in Rank : errors'[s] = 0
      BY <1>8, <2>2, CollectTrue
    <3>2. ASSUME NEW s \in Rank PROVE errors[s] = 0
      <4>1. errors'[s] = errors[s] + TreeErrors(s)
        BY <1>8 DEF Collect
      <4>2. errors[s] \in Nat /\ TreeErrors(s) \in Nat
        BY <1>t, TreeCount DEF TypeOK
      <4> QED BY <3>1, <4>1, <4>2
    <3>3. AllChecked
      <4>1. AllChecked' = AllChecked
        BY InputsStay DEF AllChecked, TreeChecked, InRange, DepthError, EdgeError, Linked,
                          Parent, Depth, Reached
      <4>2. Accepted'
        BY AcceptedNext
      <4> QED BY <2>2, <4>1, <4>2 DEF Accepted
    <3> DEFINE K == Within(Joins)[NumVerts]
               Here(s) == {i \in DOMAIN edges[s] : edges[s][i][1] \in K}
    <3>4. ASSUME NEW s \in Rank PROVE Counted(s) = Here(s)
      <4>1. ASSUME NEW i \in DOMAIN edges[s] PROVE Now(s, i)
        <5>1. loop[s] >= NumLoops /\ loop[s] \in Nat
          BY <1>t, <2>1, <3>2 DEF ChunksChecked, TypeOK
        <5>2. ChunkOf(i) \in Nat /\ ChunkOf(i) < NumLoops /\ NumLoops \in Nat
          BY <1>t, InSomeChunk, NumLoopsNat DEF ChunkOf, TypeOK
        <5>3. \A a \in Nat, b \in Nat, n \in Nat : a < n /\ b >= n => a < b
          OBVIOUS
        <5>4. ChunkOf(i) < loop[s]
          BY <5>1, <5>2, <5>3
        <5> QED BY <5>4
      <4>2. ASSUME NEW i \in DOMAIN edges[s] PROVE Good(s, i) <=> edges[s][i][1] \in K
        <5>1. ~ EdgeError(edges[s][i])
          BY <3>3 DEF AllChecked
        <5>2. edges[s][i][1] \in Vertex
          <6>1. edges[s] \in Seq(Vertex \X Vertex)
            BY <1>t DEF TypeOK
          <6>2. edges[s][i] \in Vertex \X Vertex
            BY <6>1
          <6> QED BY <6>2
        <5> QED BY <1>t, <3>3, <5>1, <5>2, ComponentReached
      <4> HIDE DEF Good, Now, K
      <4> QED BY <1>d, <4>1, <4>2
    <3>5. visits = [s \in Rank |-> Cardinality(Here(s))]
      <4>1. \A s \in Rank : visits[s] = Cardinality(Counted(s))
        BY <2>1 DEF VisitsCounted
      <4>2. visits = [s \in Rank |-> visits[s]]
        BY DEF VisitsCounted
      <4> HIDE DEF Here
      <4> QED BY <3>4, <4>1, <4>2
    <3> QED BY <3>5 DEF TraversedEdges
  <2> QED BY <1>0, <2>1, <2>2 DEF VisitsCounted
<1>9. CASE UNCHANGED vars
  <2>1. pc' = pc /\ loop' = loop /\ visits' = visits /\ verdict' = verdict
    BY <1>9 DEF vars
  <2>2. \A s \in Rank : \A i \in DOMAIN edges[s] : Then(s, i) <=> Now(s, i)
    BY <2>1
  <2> HIDE DEF Then, Now, Good
  <2> QED BY <2>1, <2>2, <1>k
<1> QED BY <1>1, <1>2, <1>3, <1>4, <1>5, <1>6, <1>7, <1>8, <1>9 DEF Next

\* A rank returns TRUE only for the parents and distances of a breadth-first
\* search of the listed edges, and then with the number of listed edges in the
\* component of the root: the count from which the edges per second follow.
THEOREM AcceptedIsTheSearch == Spec /\ []ErrorsFit => []AcceptedIsSearch
<1>1. Init => IInv /\ Agreement /\ VisitsCounted
  BY InvInit, AgreementInit, VisitsInit DEF IInv
<1>2. IInv /\ Agreement /\ VisitsCounted /\ ErrorsFit /\ ErrorsFit' /\ [Next]_vars
        => (IInv /\ Agreement /\ VisitsCounted)'
  <2>1. IInv /\ ErrorsFit /\ ErrorsFit' /\ [Next]_vars => IInv'
    BY InvNext
  <2>2. IInv => TypeOK
    BY DEF IInv
  <2>3. (IInv => TypeOK)'
    BY DEF IInv
  <2> QED BY <2>1, <2>2, <2>3, AgreementNext, VisitsNext
<1>3. IInv /\ VisitsCounted => AcceptedIsSearch
  BY CheckedIsSearch DEF IInv, Accepted, AcceptedIsSearch, VisitsCounted
<1> QED BY <1>1, <1>2, <1>3, PTL DEF Spec
=============================================================================
