------------------------ MODULE EdgeStorage_proofs ------------------------
(***************************************************************************)
(* Proofs about EdgeStorage: the pass that rewrites the list it reads      *)
(* never overwrites what it has yet to read, and every complete pass is    *)
(* given each of its edges once.                                           *)
(*                                                                         *)
(* Three invariants are added to the types. Local says of one rank how its *)
(* read position, its request for a chunk, its buffers and its write       *)
(* position go together; InStep says that the ranks have taken part in the *)
(* same number of scatters until the redistribution is over; Conserved     *)
(* says that an edge that was scattered is kept once, by its owner.        *)
(***************************************************************************)
EXTENDS EdgeStorage, FiniteSetTheorems, SequenceTheorems, WellFoundedInduction, TLAPS

\* The edges and the list that generate_graph gave rank r.
NumEdges == Cardinality(Edge)
G(r) == Generated(NumEdges, r)
Looping == {"read", "given", "empty", "write"}
\* The redistribution is over for rank r.
Late(r) == pass[r] > 3 \/ (pass[r] = 3 /\ pc[r] = "end")
\* What the rank reads in its pass.
Source(r) == IF pass[r] <= 3 THEN G(r) ELSE data[r]
\* Up to where the edges of the pass have been looked at or passed on.
Done(r) == IF pc[r] = "given" THEN ReadPosition(r) - Chunk ELSE ReadPosition(r)

Requests == [state : {"unset", "null", "pending", "done"}, from : Nat, len : Int, half : 0 .. 2]

\* The types of the variables.
TypeOK ==
  /\ owner \in [1 .. NumEdges -> Rank] /\ NumEdges \in Nat
  /\ inFile \in BOOLEAN /\ memory \in [Rank -> BOOLEAN]
  /\ data \in [Rank -> Seq(Edge)] /\ filled \in [Rank -> Nat]
  /\ block \in [Rank -> Nat] /\ request \in [Rank -> Requests]
  /\ buffer \in [Rank -> [1 .. 2 -> Seq(Edge)]]
  /\ offset \in [Rank -> Nat] /\ over \in [Rank -> Seq(Edge)] /\ maxSize \in Nat
  /\ pass \in [Rank -> 1 .. 6] /\ loop \in [Rank -> Nat]
  /\ pc \in [Rank -> Looping \cup {"begin", "end"}]
  /\ recv \in [Rank -> Seq(Edge)] /\ seen \in [Rank -> Seq(Edge)]

\* What the sizes of the list and of the write buffer are in each pass.
Sizes(r) ==
  /\ offset[r] <= Len(data[r]) /\ filled[r] <= Len(data[r])
  /\ pc[r] = "write" => pass[r] = 3
  /\ pc[r] # "write" => recv[r] = <<>>
  /\ pass[r] = 6 => pc[r] = "begin"
  /\ ~ Late(r) => filled[r] = Len(G(r)) /\ filled[r] <= maxSize
  /\ pass[r] = 3 /\ pc[r] = "end" =>
       /\ offset[r] + Len(over[r]) <= maxSize
       /\ over[r] = <<>> => filled[r] = offset[r]
  /\ pass[r] > 3 => over[r] = <<>> /\ filled[r] = offset[r] /\ filled[r] <= maxSize
  /\ pass[r] <= 2 => data[r] = G(r) /\ over[r] = <<>> /\ offset[r] = Len(data[r])
  /\ pass[r] = 3 /\ pc[r] = "begin" => data[r] = G(r)

\* The read position follows the iterations until the list has been read.
Steps(r) ==
  /\ pc[r] \in Looping \/ (pc[r] = "end" /\ pass[r] # 3) =>
       /\ loop[r] <= NumLoops
       /\ \/ filled[r] <= ReadPosition(r)
          \/ block[r] = loop[r] + (IF pc[r] \in {"given", "write"} THEN 1 ELSE 0)
  /\ pc[r] \in {"given", "empty", "write"} => loop[r] < NumLoops
  /\ pc[r] = "given" => block[r] >= 1 /\ ReadPosition(r) - Chunk < filled[r]
  /\ pc[r] = "empty" => filled[r] <= ReadPosition(r)
  /\ pc[r] = "end" /\ pass[r] <= 2 => loop[r] = NumLoops

\* A read is outstanding or done exactly for the next chunk.
ReadsOK(r) ==
  /\ request[r].state \in {"pending", "done"} =>
       /\ pc[r] # "begin" /\ ~ memory[r]
       /\ ReadPosition(r) < filled[r] /\ ~ (pass[r] = 3 /\ pc[r] = "end")
       /\ request[r].from = ReadPosition(r)
       /\ request[r].len = Least(filled[r] - ReadPosition(r), Chunk)
       /\ request[r].half = Half(block[r])
  /\ pc[r] \in Looping /\ ~ memory[r] /\ ReadPosition(r) < filled[r] =>
       request[r].state \in {"pending", "done"}

\* Chunk k of what the rank reads; the halves of the buffer hold such chunks.
ChunkAt(r, k) == SubSeq(Source(r), k * Chunk + 1, Least(k * Chunk + Chunk, filled[r]))
BuffersOK(r) ==
  /\ request[r].state = "done" => buffer[r][Half(block[r])] = ChunkAt(r, block[r])
  /\ pc[r] = "given" /\ ~ memory[r] => buffer[r][Half(block[r] - 1)] = ChunkAt(r, block[r] - 1)

\* The write position is behind the chunk in hand, and edges wait in the buffer
\* only when it is there exactly: a write never reaches what was not read.
Behind(r) ==
  \/ filled[r] <= ReadPosition(r)
  \/ LET p == IF pc[r] \in {"given", "write"} THEN ReadPosition(r) - Chunk ELSE ReadPosition(r)
     IN offset[r] <= p /\ (over[r] # <<>> => offset[r] = p)
Unread(r) ==
  pass[r] = 3 /\ pc[r] \in Looping =>
    Behind(r) /\ \A i \in Done(r) + 1 .. filled[r] : data[r][i] = G(r)[i]

\* A pass was given what is before the read position.
SeenOK(r) ==
  pass[r] # 3 /\ pc[r] \in Looping \cup {"end"} =>
    seen[r] = SubSeq(Source(r), 1, Least(Done(r), filled[r]))

\* All of this for rank r, and for every rank.
LocalOf(r) == Sizes(r) /\ Steps(r) /\ ReadsOK(r) /\ BuffersOK(r) /\ Unread(r) /\ SeenOK(r)
Local == \A r \in Rank : LocalOf(r)

\* The scatters that rank r has taken part in, before the redistribution is over.
Turn(r) == CASE pc[r] = "begin" -> 0
             [] pc[r] = "end"   -> NumLoops
             [] pc[r] = "write" -> loop[r] + 1
             [] OTHER           -> loop[r]
Scatters(r) == (pass[r] - 1) * NumLoops + Turn(r)
\* The ranks scatter together until all of them have ended the redistribution.
InStep ==
  \/ \A r \in Rank : Late(r)
  \/ /\ \A r \in Rank : ~ Late(r)
     /\ \A r, s \in Rank : Scatters(r) = Scatters(s)

\* How often e is in a sequence.
Count(seq, e) == Cardinality({i \in DOMAIN seq : seq[i] = e})
\* The edges that the redistribution has brought to rank r so far.
Kept(r) == IF pass[r] < 3 \/ (pass[r] = 3 /\ pc[r] = "begin") THEN <<>>
           ELSE SubSeq(data[r], 1, offset[r]) \o over[r] \o recv[r]
\* Rank r has scattered edge e, or the redistribution is over.
SentBy(r, e) == \/ Late(r)
                \/ /\ pass[r] = 3 /\ pc[r] \in Looping
                   /\ \E i \in 1 .. filled[r] : i <= Done(r) /\ G(r)[i] = e
Sent(e) == \E r \in Rank : SentBy(r, e)
\* Of the edges sent so far, each is kept once, and by its owner.
Conserved ==
  \A r \in Rank, e \in Edge :
    Count(Kept(r), e) = IF owner[e] = r /\ Sent(e) THEN 1 ELSE 0
-----------------------------------------------------------------------------
\* Every nonempty set of natural numbers has a least element: the proofs below
\* take a least counterexample where one would like to use induction.
LEMMA LeastNatural ==
  ASSUME NEW T \in SUBSET Nat, T # {}
  PROVE  \E x \in T : \A y \in T : x <= y
<1> DEFINE Less == {ss \in Nat \X Nat : ss[1] < ss[2]}
<1>1. IsWellFoundedOn(Less, Nat)
  BY NatLessThanWellFounded, Zenon DEF OpToRel
<1>2. PICK x \in T : \A y \in T : ~ (<<y, x>> \in Less)
  <2> HIDE DEF Less
  <2> QED BY <1>1, WFMin
<1>3. ASSUME NEW y \in T PROVE x <= y
  <2>1. x \in Nat /\ y \in Nat OBVIOUS
  <2>2. <<y, x>> \in Nat \X Nat BY <2>1
  <2>3. ~ (y < x) BY <1>2, <2>2
  <2> QED BY <2>1, <2>3
<1> QED BY <1>3

\* The constants are numbers, and there is at least one rank.
LEMMA Constants == /\ NumRanks \in Nat /\ NumRanks >= 1 /\ Chunk \in Nat /\ Chunk >= 1
                   /\ 0 \in Rank /\ Rank \subseteq Nat
BY EdgeStorageAssumption DEF Rank

\* One of the numbers that the ranks have is the largest.
LEMMA LargestRank ==
  ASSUME NEW f \in [Rank -> Nat]
  PROVE  /\ LargestOf({f[r] : r \in Rank}) \in Nat
         /\ \A r \in Rank : f[r] <= LargestOf({f[r1] : r1 \in Rank})
<1> DEFINE Bounds(k) == \E r \in Rank : \A s \in 0 .. k - 1 : f[s] <= f[r]
           T == {k \in 1 .. NumRanks : ~ Bounds(k)}
<1>1. NumRanks \in Nat /\ NumRanks >= 1 /\ 0 \in Rank
  BY Constants
<1>2. \A r \in Rank : f[r] \in Nat
  OBVIOUS
<1>3. T = {}
  <2> SUFFICES ASSUME T # {} PROVE FALSE
    OBVIOUS
  <2>1. PICK k \in T : \A j \in T : k <= j
    <3>1. T \in SUBSET Nat
      BY <1>1
    <3> QED BY <3>1, LeastNatural
  <2>2. k \in 1 .. NumRanks /\ ~ Bounds(k)
    BY <2>1
  <2>3. k # 1
    BY <2>2, <1>1, <1>2
  <2>4. k - 1 \in 1 .. NumRanks /\ k - 1 \in Rank
    BY <2>2, <2>3, <1>1 DEF Rank
  <2>5. Bounds(k - 1)
    BY <2>1, <2>2, <2>4
  <2>6. PICK r \in Rank : \A s \in 0 .. k - 2 : f[s] <= f[r]
    BY <2>5, <2>2
  <2>7. \A s \in 0 .. k - 1 : s \in Rank /\ (s \in 0 .. k - 2 \/ s = k - 1)
    <3>1. k \in Nat /\ k >= 1 /\ k <= NumRanks
      BY <2>2, <1>1
    <3> QED BY <3>1, <1>1 DEF Rank
  <2>8. CASE f[k - 1] <= f[r]
    BY <2>2, <2>6, <2>7, <2>8
  <2>9. CASE f[r] <= f[k - 1]
    <3>1. ASSUME NEW s \in 0 .. k - 1 PROVE f[s] <= f[k - 1]
      <4>1. f[s] \in Nat /\ f[k - 1] \in Nat /\ f[r] \in Nat
        BY <2>4, <2>7, <1>2
      <4>2. CASE s = k - 1
        BY <4>1, <4>2
      <4>3. CASE s \in 0 .. k - 2
        <5>1. f[s] <= f[r]
          BY <4>3, <2>6
        <5> QED BY <4>1, <5>1, <2>9
      <4> QED BY <4>2, <4>3, <2>7
    <3> QED BY <2>2, <2>4, <3>1
  <2> QED BY <2>4, <2>8, <2>9, <1>2
<1>4. Bounds(NumRanks)
  <2> HIDE DEF Bounds
  <2>1. NumRanks \in 1 .. NumRanks
    BY <1>1
  <2> QED BY <2>1, <1>3
<1>5. PICK r \in Rank : \A s \in Rank : f[s] <= f[r]
  BY <1>4 DEF Rank
<1>6. f[r] \in {f[s] : s \in Rank}
  OBVIOUS
<1>7. \E n \in {f[s] : s \in Rank} : \A m \in {f[s] : s \in Rank} : m <= n
  BY <1>5, <1>6
<1>8. LET big == LargestOf({f[s] : s \in Rank})
      IN big \in {f[s] : s \in Rank} /\ \A m \in {f[s] : s \in Rank} : m <= big
  BY <1>7 DEF LargestOf
<1> QED BY <1>2, <1>8

\* Division with remainder.
LEMMA DivisionMod ==
  ASSUME NEW a \in Nat, NEW c \in Nat, c > 0
  PROVE  /\ a \div c \in Nat
         /\ a = (c * (a \div c)) + (a % c)
         /\ a % c \in 0 .. c - 1
OBVIOUS

\* The iterations of a pass cover the longest list.
LEMMA LoopsCover ==
  ASSUME maxSize \in Nat
  PROVE  NumLoops \in Nat /\ maxSize <= NumLoops * Chunk
<1> DEFINE a == maxSize + Chunk - 1
           q == a \div Chunk
<1>1. a \in Nat /\ Chunk \in Nat /\ Chunk > 0
  BY Constants
<1>2. q \in Nat /\ a = (Chunk * q) + (a % Chunk) /\ a % Chunk \in 0 .. Chunk - 1
  BY <1>1, DivisionMod
<1>3. Chunk * q = q * Chunk /\ Chunk * q \in Nat
  BY <1>1, <1>2
<1>4. a = maxSize + Chunk - 1
  OBVIOUS
<1>5. NumLoops = q
  BY DEF NumLoops
<1> HIDE DEF a, q
<1>6. maxSize <= Chunk * q
  BY <1>1, <1>2, <1>3, <1>4
<1> QED BY <1>2, <1>3, <1>5, <1>6

\* Multiples of the chunk size, for the provers.
LEMMA Products ==
  /\ \A k \in Nat : k * Chunk \in Nat /\ (k + 1) * Chunk = k * Chunk + Chunk
  /\ \A k \in Nat \ {0} : (k - 1) * Chunk = k * Chunk - Chunk /\ (k - 1) * Chunk \in Nat
  /\ \A j, k \in Nat : j <= k => j * Chunk <= k * Chunk
<1>1. Chunk \in Nat
  BY Constants
<1>2. \A k \in Nat : k * Chunk \in Nat /\ (k + 1) * Chunk = k * Chunk + Chunk
  BY <1>1
<1>3. ASSUME NEW k \in Nat \ {0} PROVE (k - 1) * Chunk = k * Chunk - Chunk /\ (k - 1) * Chunk \in Nat
  BY <1>1
<1>4. ASSUME NEW j \in Nat, NEW k \in Nat, j <= k PROVE j * Chunk <= k * Chunk
  BY <1>1, <1>4
<1> QED BY <1>2, <1>3, <1>4
-----------------------------------------------------------------------------
(* Sequences *)

\* The length and the elements of a part of a sequence.
LEMMA PartOf ==
  ASSUME NEW S, NEW s \in Seq(S), NEW m \in Nat, NEW n \in Int, m >= 1, n <= Len(s)
  PROVE  /\ SubSeq(s, m, n) \in Seq(S)
         /\ Len(SubSeq(s, m, n)) = IF m <= n THEN n - m + 1 ELSE 0
         /\ \A i \in 1 .. n - m + 1 : SubSeq(s, m, n)[i] = s[m + i - 1]
<1>1. \A i \in m .. n : s[i] \in S
  <2> SUFFICES ASSUME NEW i \in m .. n PROVE s[i] \in S
    OBVIOUS
  <2>1. i \in 1 .. Len(s)
    OBVIOUS
  <2> QED BY <2>1
<1>2. m \in Int
  OBVIOUS
<1> QED BY <1>1, <1>2, SubSeqProperties

\* What a write to the middle of the list leaves and what it changes.
LEMMA StoredParts ==
  ASSUME NEW S, NEW s \in Seq(S), NEW new \in Seq(S), NEW n \in Nat, n <= Len(s)
  PROVE  /\ Stored(s, n, new) \in Seq(S)
         /\ Len(Stored(s, n, new)) = IF Len(s) <= n + Len(new) THEN n + Len(new) ELSE Len(s)
         /\ \A i \in 1 .. n : Stored(s, n, new)[i] = s[i]
         /\ \A i \in 1 .. Len(new) : Stored(s, n, new)[n + i] = new[i]
         /\ \A i \in n + Len(new) + 1 .. Len(s) : Stored(s, n, new)[i] = s[i]
<1> DEFINE a == SubSeq(s, 1, n)
           c == SubSeq(s, n + Len(new) + 1, Len(s))
           t == Stored(s, n, new)
<1>1. Len(s) \in Nat /\ Len(new) \in Nat
  OBVIOUS
<1>2. a \in Seq(S) /\ Len(a) = n /\ \A i \in 1 .. n : a[i] = s[i]
  <2>1. 1 \in Nat /\ 1 >= 1 /\ n \in Int
    OBVIOUS
  <2>2. /\ a \in Seq(S) /\ Len(a) = IF 1 <= n THEN n - 1 + 1 ELSE 0
        /\ \A i \in 1 .. n - 1 + 1 : a[i] = s[1 + i - 1]
    BY <2>1, PartOf
  <2> HIDE DEF a
  <2>3. n - 1 + 1 = n /\ \A i \in 1 .. n : 1 + i - 1 = i
    OBVIOUS
  <2> QED BY <2>2, <2>3
<1>3. /\ c \in Seq(S)
      /\ Len(c) = IF n + Len(new) + 1 <= Len(s) THEN Len(s) - (n + Len(new) + 1) + 1 ELSE 0
      /\ \A i \in 1 .. Len(s) - (n + Len(new) + 1) + 1 : c[i] = s[n + Len(new) + 1 + i - 1]
  <2>1. n + Len(new) + 1 \in Nat /\ n + Len(new) + 1 >= 1 /\ Len(s) \in Int /\ Len(s) <= Len(s)
    BY <1>1
  <2> QED BY <2>1, PartOf
<1>4. t = (a \o new) \o c
  BY DEF Stored
<1> HIDE DEF a, c, t
<1>5. /\ a \o new \in Seq(S) /\ Len(a \o new) = n + Len(new)
      /\ \A i \in 1 .. n + Len(new) : (a \o new)[i] = IF i <= n THEN a[i] ELSE new[i - n]
  BY <1>2, ConcatProperties
<1> DEFINE b == a \o new
<1> HIDE DEF b
<1>6. /\ t \in Seq(S) /\ Len(t) = n + Len(new) + Len(c)
      /\ \A i \in 1 .. n + Len(new) + Len(c) : t[i] = IF i <= n + Len(new) THEN b[i] ELSE c[i - (n + Len(new))]
  <2>1. b \in Seq(S) /\ Len(b) = n + Len(new) /\ t = b \o c /\ c \in Seq(S)
    BY <1>3, <1>4, <1>5 DEF b
  <2>2. /\ t \in Seq(S) /\ Len(t) = Len(b) + Len(c)
        /\ \A i \in 1 .. Len(b) + Len(c) : t[i] = IF i <= Len(b) THEN b[i] ELSE c[i - Len(b)]
    BY <2>1, ConcatProperties
  <2> QED BY <2>1, <2>2
<1>7. Len(t) = IF Len(s) <= n + Len(new) THEN n + Len(new) ELSE Len(s)
  <2>1. Len(t) = n + Len(new) + Len(c)
    BY <1>6
  <2>2. Len(c) = IF n + Len(new) + 1 <= Len(s) THEN Len(s) - (n + Len(new) + 1) + 1 ELSE 0
    BY <1>3
  <2> DEFINE x == Len(s)
             y == n + Len(new)
  <2>3. x \in Nat /\ y \in Nat
    BY <1>1
  <2>4. Len(c) = IF y + 1 <= x THEN x - (y + 1) + 1 ELSE 0
    BY <2>2
  <2>5. Len(t) = y + Len(c)
    BY <2>1
  <2> HIDE DEF x, y
  <2>6. Len(t) = IF x <= y THEN y ELSE x
    BY <2>3, <2>4, <2>5
  <2> QED BY <2>6 DEF x, y
<1>8. Len(c) \in Nat
  BY <1>3
<1>9. ASSUME NEW i \in 1 .. n PROVE t[i] = s[i]
  <2>1. i \in 1 .. n + Len(new) + Len(c) /\ i \in 1 .. n + Len(new) /\ i <= n + Len(new) /\ i <= n
    BY <1>1, <1>8
  <2> QED BY <1>2, <1>5, <1>6, <2>1 DEF b
<1>10. ASSUME NEW i \in 1 .. Len(new) PROVE t[n + i] = new[i]
  <2>1. /\ n + i \in 1 .. n + Len(new) + Len(c) /\ n + i \in 1 .. n + Len(new)
        /\ n + i <= n + Len(new) /\ ~ (n + i <= n) /\ n + i - n = i
    BY <1>1, <1>8
  <2>2. t[n + i] = b[n + i]
    BY <1>6, <2>1
  <2>3. b[n + i] = new[n + i - n]
    BY <1>5, <2>1, SMTT(30) DEF b
  <2> QED BY <2>1, <2>2, <2>3
<1>11. ASSUME NEW i \in n + Len(new) + 1 .. Len(s) PROVE t[i] = s[i]
  <2> DEFINE k == i - (n + Len(new))
             y == n + Len(new)
  <2>0. Len(c) = IF n + Len(new) + 1 <= Len(s) THEN Len(s) - (n + Len(new) + 1) + 1 ELSE 0
    BY <1>3
  <2>1. /\ i \in 1 .. n + Len(new) + Len(c) /\ ~ (i <= n + Len(new))
        /\ k \in 1 .. Len(s) - (n + Len(new) + 1) + 1
        /\ n + Len(new) + 1 + k - 1 = i
    <3>1. y \in Nat /\ Len(c) = IF y + 1 <= Len(s) THEN Len(s) - (y + 1) + 1 ELSE 0
      BY <1>1, <2>0
    <3>2. i \in y + 1 .. Len(s) /\ k = i - y
      OBVIOUS
    <3> HIDE DEF y, k
    <3>3. i \in 1 .. y + Len(c) /\ ~ (i <= y) /\ k \in 1 .. Len(s) - (y + 1) + 1 /\ y + 1 + k - 1 = i
      BY <1>1, <3>1, <3>2
    <3> QED BY <3>3 DEF y
  <2> HIDE DEF k
  <2>2. t[i] = c[i - (n + Len(new))]
    BY <1>6, <2>1
  <2>3. c[k] = s[i]
    BY <1>3, <2>1
  <2> QED BY <2>2, <2>3 DEF k
<1> QED BY <1>6, <1>7, <1>9, <1>10, <1>11 DEF t

-----------------------------------------------------------------------------
(* Counting *)

\* Counting an element of a sequence gives a number.
LEMMA CountType ==
  ASSUME NEW S, NEW s \in Seq(S), NEW e
  PROVE  /\ IsFiniteSet({i \in DOMAIN s : s[i] = e})
         /\ Count(s, e) \in Nat
<1>1. DOMAIN s = 1 .. Len(s) /\ Len(s) \in Nat
  OBVIOUS
<1>2. IsFiniteSet(DOMAIN s)
  BY <1>1, FS_Interval
<1>3. IsFiniteSet({i \in DOMAIN s : s[i] = e})
  BY <1>2, FS_Subset
<1> QED BY <1>3, FS_CardinalityType DEF Count

\* Nothing is in the empty sequence.
LEMMA CountEmpty == \A e : Count(<<>>, e) = 0
<1>1. \A e : {i \in DOMAIN <<>> : <<>>[i] = e} = {}
  OBVIOUS
<1> QED BY <1>1, FS_EmptySet DEF Count

\* A sequence without e, and one with e at one place.
LEMMA CountOne ==
  ASSUME NEW S, NEW s \in Seq(S), NEW e
  PROVE  /\ (\A i \in 1 .. Len(s) : s[i] # e) => Count(s, e) = 0
         /\ \A k \in 1 .. Len(s) : (\A i \in 1 .. Len(s) : s[i] = e <=> i = k) => Count(s, e) = 1
         /\ Count(s, e) = 0 => \A i \in 1 .. Len(s) : s[i] # e
<1> DEFINE P == {i \in DOMAIN s : s[i] = e}
<1>0. DOMAIN s = 1 .. Len(s)
  OBVIOUS
<1>1. ASSUME \A i \in 1 .. Len(s) : s[i] # e PROVE Count(s, e) = 0
  <2>1. P = {}
    BY <1>0, <1>1
  <2> QED BY <2>1, FS_EmptySet DEF Count
<1>2. ASSUME NEW k \in 1 .. Len(s), \A i \in 1 .. Len(s) : s[i] = e <=> i = k
      PROVE Count(s, e) = 1
  <2>1. P = {k}
    BY <1>0, <1>2
  <2> QED BY <2>1, FS_Singleton DEF Count
<1>3. ASSUME Count(s, e) = 0 PROVE \A i \in 1 .. Len(s) : s[i] # e
  <2>1. IsFiniteSet(P)
    BY CountType
  <2>2. P = {}
    BY <1>3, <2>1, FS_EmptySet DEF Count
  <2> QED BY <1>0, <2>2
<1> QED BY <1>1, <1>2, <1>3

\* Counts add up when sequences are joined ...
LEMMA CountConcat ==
  ASSUME NEW S, NEW s \in Seq(S), NEW t \in Seq(S), NEW e
  PROVE  Count(s \o t, e) = Count(s, e) + Count(t, e)
<1> DEFINE P == {i \in DOMAIN s : s[i] = e}
           Q == {i \in DOMAIN t : t[i] = e}
           M == {i \in DOMAIN (s \o t) : (s \o t)[i] = e}
           n == Len(s)
           T == {i \in M : i > n}
           f == [i \in Q |-> n + i]
<1>1. /\ s \o t \in Seq(S) /\ n \in Nat /\ Len(t) \in Nat /\ Len(s \o t) = n + Len(t)
      /\ \A i \in 1 .. n + Len(t) : (s \o t)[i] = IF i <= n THEN s[i] ELSE t[i - n]
  BY ConcatProperties
<1>2. DOMAIN s = 1 .. n /\ DOMAIN t = 1 .. Len(t) /\ DOMAIN (s \o t) = 1 .. n + Len(t)
  BY <1>1, LenProperties
<1>3. /\ IsFiniteSet(P) /\ Cardinality(P) \in Nat
      /\ IsFiniteSet(Q) /\ Cardinality(Q) \in Nat
      /\ IsFiniteSet(M)
  BY <1>1, CountType DEF Count
<1>4. M = P \cup T /\ P \cap T = {}
  <2> DEFINE st == s \o t
  <2>1. DOMAIN st = 1 .. n + Len(t) /\ \A i \in 1 .. n + Len(t) : st[i] = IF i <= n THEN s[i] ELSE t[i - n]
    BY <1>1, <1>2
  <2>2. M = {i \in DOMAIN st : st[i] = e}
    OBVIOUS
  <2> HIDE DEF st, M
  <2>3. ASSUME NEW i \in P PROVE i \in M /\ ~ (i > n)
    <3>1. i \in 1 .. n /\ i \in 1 .. n + Len(t) /\ i <= n /\ s[i] = e
      BY <1>1, <1>2
    <3> QED BY <1>1, <2>1, <2>2, <3>1
  <2>4. ASSUME NEW i \in M, ~ (i > n) PROVE i \in P
    <3>1. i \in 1 .. n + Len(t) /\ st[i] = e
      BY <2>1, <2>2
    <3>2. i \in 1 .. n /\ i <= n
      BY <1>1, <2>4, <3>1
    <3> QED BY <1>2, <2>1, <3>1, <3>2
  <2> HIDE DEF P
  <2> QED BY <2>3, <2>4
<1>5. f \in Bijection(Q, T)
  <2> DEFINE st == s \o t
  <2>1. DOMAIN st = 1 .. n + Len(t) /\ \A i \in 1 .. n + Len(t) : st[i] = IF i <= n THEN s[i] ELSE t[i - n]
    BY <1>1, <1>2
  <2>2. T = {i \in 1 .. n + Len(t) : st[i] = e /\ i > n}
    BY <2>1
  <2> HIDE DEF st, T
  <2>3. \A i \in Q : i \in 1 .. Len(t) /\ t[i] = e /\ f[i] = n + i
    BY <1>2
  <2>4. ASSUME NEW i \in Q PROVE n + i \in T
    <3>1. i \in 1 .. Len(t) /\ t[i] = e
      BY <2>3
    <3>2. n + i \in 1 .. n + Len(t) /\ ~ (n + i <= n) /\ n + i > n /\ n + i - n = i
      BY <1>1, <3>1
    <3>3. st[n + i] = t[n + i - n]
      BY <2>1, <3>2
    <3> QED BY <2>2, <3>1, <3>2, <3>3
  <2>5. f \in [Q -> T]
    BY <2>4
  <2>6. ASSUME NEW i \in Q, NEW j \in Q, f[i] = f[j] PROVE i = j
    BY <1>1, <2>3, <2>6
  <2>7. ASSUME NEW j \in T PROVE \E i \in Q : f[i] = j
    <3>1. j \in 1 .. n + Len(t) /\ st[j] = e /\ j > n
      BY <2>2
    <3>2. j - n \in 1 .. Len(t) /\ ~ (j <= n) /\ n + (j - n) = j
      BY <1>1, <3>1
    <3>3. t[j - n] = e
      BY <2>1, <3>1, <3>2
    <3>4. j - n \in Q
      BY <1>2, <3>2, <3>3
    <3>5. f[j - n] = n + (j - n)
      BY <2>3, <3>4
    <3> QED BY <3>2, <3>4, <3>5
  <2> HIDE DEF f, Q
  <2> QED BY <2>5, <2>6, <2>7 DEF Bijection, Injection, Surjection, IsInjective
<1>6. IsFiniteSet(T) /\ Cardinality(T) = Cardinality(Q)
  <2> HIDE DEF f, Q, T
  <2> QED BY <1>3, <1>5, FS_Bijection DEF ExistsBijection
<1>7. Cardinality(M) = Cardinality(P) + Cardinality(T)
  <2> HIDE DEF M, P, T
  <2>1. Cardinality(P \cap T) = 0
    BY <1>4, FS_EmptySet
  <2>2. Cardinality(P \cup T) = Cardinality(P) + Cardinality(T) - Cardinality(P \cap T)
    BY <1>3, <1>6, FS_Union
  <2> QED BY <1>3, <1>4, <1>6, <2>1, <2>2
<1> QED BY <1>6, <1>7 DEF Count

\* ... and when one is cut in two.
LEMMA CountSplit ==
  ASSUME NEW S, NEW s \in Seq(S), NEW k \in 0 .. Len(s), NEW e
  PROVE  /\ SubSeq(s, 1, k) \in Seq(S) /\ SubSeq(s, k + 1, Len(s)) \in Seq(S)
         /\ Count(s, e) = Count(SubSeq(s, 1, k), e) + Count(SubSeq(s, k + 1, Len(s)), e)
<1>1. SubSeq(s, 1, k) \in Seq(S) /\ SubSeq(s, k + 1, Len(s)) \in Seq(S)
  BY PartOf
<1>2. SubSeq(s, 1, k) \o SubSeq(s, k + 1, Len(s)) = s
  <2>1. 1 \in 1 .. Len(s) + 1 /\ k \in 1 - 1 .. Len(s) /\ Len(s) \in k .. Len(s)
    OBVIOUS
  <2>2. SubSeq(s, 1, k) \o SubSeq(s, k + 1, Len(s)) = SubSeq(s, 1, Len(s))
    BY <2>1, ConcatAdjacentSubSeq
  <2> QED BY <2>2, SubSeqFull
<1> DEFINE a == SubSeq(s, 1, k)
           b == SubSeq(s, k + 1, Len(s))
<1>3. a \in Seq(S) /\ b \in Seq(S) /\ a \o b = s
  BY <1>1, <1>2
<1> HIDE DEF a, b
<1>4. Count(a \o b, e) = Count(a, e) + Count(b, e)
  BY <1>3, CountConcat
<1>5. Count(s, e) = Count(a, e) + Count(b, e)
  BY <1>3, <1>4
<1> QED BY <1>3, <1>5 DEF a, b
-----------------------------------------------------------------------------
(* The edges that a rank generates *)

Home(e) == ((e - 1) \div Chunk) % NumRanks

\* Quotient and remainder are unique.
LEMMA Quotient ==
  ASSUME NEW c \in Nat, c >= 1, NEW q \in Nat, NEW m \in 0 .. c - 1
  PROVE  (q * c + m) \div c = q /\ (q * c + m) % c = m
<1> DEFINE a == q * c + m
           q1 == a \div c
           m1 == a % c
<1>0. q * c \in Nat /\ a \in Nat
  OBVIOUS
<1>1. q1 \in Nat /\ a = c * q1 + m1 /\ m1 \in 0 .. c - 1
  BY <1>0, DivisionMod
<1>2. a = q * c + m
  OBVIOUS
<1> HIDE DEF a, q1, m1
<1>3. c * q1 = q1 * c /\ q1 * c \in Nat
  BY <1>1
<1>4. ASSUME q1 < q PROVE FALSE
  <2>1. q1 + 1 <= q
    BY <1>1, <1>4
  <2>2. (q1 + 1) * c <= q * c
    BY <1>1, <2>1
  <2>3. (q1 + 1) * c = q1 * c + c
    BY <1>1
  <2> QED BY <1>0, <1>1, <1>2, <1>3, <2>2, <2>3
<1>5. ASSUME q < q1 PROVE FALSE
  <2>1. q + 1 <= q1
    BY <1>1, <1>5
  <2>2. (q + 1) * c <= q1 * c
    BY <1>1, <2>1
  <2>3. (q + 1) * c = q * c + c
    BY <1>1
  <2> QED BY <1>0, <1>1, <1>2, <1>3, <2>2, <2>3
<1>6. q1 = q
  BY <1>1, <1>4, <1>5
<1>7. m1 = m
  BY <1>0, <1>1, <1>2, <1>3, <1>6
<1> QED BY <1>6, <1>7 DEF a, q1, m1

-----------------------------------------------------------------------------
\* The chunk of the i-th edge of a rank, its place there, and its home.
LEMMA DealtParts ==
  ASSUME NEW r \in Rank, NEW i \in Nat, i >= 1
  PROVE  LET q == (i - 1) \div Chunk
             m == (i - 1) % Chunk
         IN /\ q \in Nat /\ m \in 0 .. Chunk - 1 /\ i = q * Chunk + m + 1
            /\ Dealt(r, i) = (q * NumRanks + r) * Chunk + m + 1
            /\ Dealt(r, i) \in Nat /\ Dealt(r, i) >= 1
            /\ (Dealt(r, i) - 1) \div Chunk = q * NumRanks + r
            /\ (Dealt(r, i) - 1) % Chunk = m
            /\ (q * NumRanks + r) \div NumRanks = q
            /\ Home(Dealt(r, i)) = r
<1> DEFINE q == (i - 1) \div Chunk
           m == (i - 1) % Chunk
           k == q * NumRanks + r
           d == Dealt(r, i)
<1>0. Chunk \in Nat /\ Chunk >= 1 /\ NumRanks \in Nat /\ NumRanks >= 1 /\ r \in Nat /\ r \in 0 .. NumRanks - 1
  BY Constants DEF Rank
<1>1. q \in Nat /\ i - 1 = (Chunk * q) + m /\ m \in 0 .. Chunk - 1
  <2>1. i - 1 \in Nat
    OBVIOUS
  <2> QED BY <1>0, <2>1, DivisionMod
<1>2. d = k * Chunk + m + 1
  BY DEF Dealt
<1> HIDE DEF q, m, d
<1>3. Chunk * q = q * Chunk /\ q * Chunk \in Nat
  BY <1>0, <1>1
<1>4. i = q * Chunk + m + 1
  BY <1>0, <1>1, <1>3
<1>5. q * NumRanks \in Nat
  BY <1>0, <1>1
<1>6. k \in Nat
  BY <1>0, <1>5
<1>7. k \div NumRanks = q /\ k % NumRanks = r
  BY <1>0, <1>1, Quotient
<1> HIDE DEF k
<1>8. k * Chunk \in Nat
  BY <1>0, <1>6
<1>9. (k * Chunk + m) \div Chunk = k /\ (k * Chunk + m) % Chunk = m
  BY <1>0, <1>1, <1>6, Quotient
<1>10. d - 1 = k * Chunk + m /\ d \in Nat /\ d >= 1
  BY <1>1, <1>2, <1>8
<1>11. Home(d) = r
  BY <1>7, <1>9, <1>10 DEF Home
<1> QED BY <1>1, <1>2, <1>4, <1>7, <1>9, <1>10, <1>11 DEF q, m, k, d

\* No edge is dealt twice.
LEMMA DealtOnce ==
  ASSUME NEW r \in Rank, NEW s \in Rank, NEW i \in Nat, NEW j \in Nat, i >= 1, j >= 1,
         Dealt(r, i) = Dealt(s, j)
  PROVE  r = s /\ i = j
<1> DEFINE q == (i - 1) \div Chunk
           m == (i - 1) % Chunk
           p == (j - 1) \div Chunk
           l == (j - 1) % Chunk
<1>1. /\ i = q * Chunk + m + 1 /\ (Dealt(r, i) - 1) \div Chunk = q * NumRanks + r
      /\ (Dealt(r, i) - 1) % Chunk = m /\ (q * NumRanks + r) \div NumRanks = q
      /\ Home(Dealt(r, i)) = r
  BY DealtParts
<1>2. /\ j = p * Chunk + l + 1 /\ (Dealt(s, j) - 1) \div Chunk = p * NumRanks + s
      /\ (Dealt(s, j) - 1) % Chunk = l /\ (p * NumRanks + s) \div NumRanks = p
      /\ Home(Dealt(s, j)) = s
  BY DealtParts
<1> HIDE DEF q, m, p, l
<1>3. r = s /\ m = l /\ q = p
  BY <1>1, <1>2
<1> QED BY <1>1, <1>2, <1>3

\* Every edge is dealt to its home.
LEMMA DealtHome ==
  ASSUME NEW e \in Nat, e >= 1
  PROVE  Home(e) \in Rank /\ \E i \in 1 .. e : Dealt(Home(e), i) = e
<1> DEFINE k == (e - 1) \div Chunk
           m == (e - 1) % Chunk
           q == k \div NumRanks
           r == k % NumRanks
           i == q * Chunk + m + 1
<1>0. Chunk \in Nat /\ Chunk >= 1 /\ NumRanks \in Nat /\ NumRanks >= 1
  BY Constants
<1>1. k \in Nat /\ e - 1 = (Chunk * k) + m /\ m \in 0 .. Chunk - 1
  <2>1. e - 1 \in Nat
    OBVIOUS
  <2> QED BY <1>0, <2>1, DivisionMod
<1>2. Home(e) = r
  BY DEF Home
<1> HIDE DEF k, m
<1>3. q \in Nat /\ k = (NumRanks * q) + r /\ r \in 0 .. NumRanks - 1
  BY <1>0, <1>1, DivisionMod
<1>4. r \in Rank
  BY <1>3 DEF Rank
<1> HIDE DEF q, r
<1>5. q * Chunk \in Nat
  BY <1>0, <1>3
<1>6. i \in Nat /\ i >= 1 /\ i - 1 = q * Chunk + m
  BY <1>0, <1>1, <1>5
<1>7. (i - 1) \div Chunk = q /\ (i - 1) % Chunk = m
  BY <1>0, <1>1, <1>3, <1>6, Quotient
<1>8. Dealt(r, i) = (q * NumRanks + r) * Chunk + m + 1
  BY <1>7 DEF Dealt
<1>9. q * NumRanks = NumRanks * q /\ Chunk * k = k * Chunk
  BY <1>0, <1>1, <1>3
<1>10. Dealt(r, i) = e
  BY <1>1, <1>3, <1>8, <1>9
<1>11. i <= e
  <2>1. q <= k
    <3>1. q <= NumRanks * q
      BY <1>0, <1>3
    <3>2. NumRanks * q \in Nat
      BY <1>0, <1>3
    <3> QED BY <1>1, <1>3, <3>1, <3>2
  <2>2. q * Chunk <= k * Chunk
    BY <1>1, <1>3, <2>1, Products
  <2>3. k * Chunk \in Nat /\ e = k * Chunk + m + 1
    BY <1>0, <1>1, <1>9
  <2> QED BY <1>1, <1>5, <2>2, <2>3
<1>12. i \in 1 .. e
  BY <1>6, <1>11
<1> QED BY <1>2, <1>4, <1>10, <1>12

\* A rank is dealt its edges in increasing order.
LEMMA DealtInOrder ==
  ASSUME NEW r \in Rank, NEW i \in Nat, NEW j \in Nat, i >= 1, i < j
  PROVE  Dealt(r, i) < Dealt(r, j)
<1> DEFINE q == (i - 1) \div Chunk
           m == (i - 1) % Chunk
           p == (j - 1) \div Chunk
           l == (j - 1) % Chunk
<1>0. Chunk \in Nat /\ Chunk >= 1 /\ NumRanks \in Nat /\ NumRanks >= 1 /\ r \in Nat /\ j >= 1
  BY Constants DEF Rank
<1>1. /\ q \in Nat /\ m \in 0 .. Chunk - 1 /\ i = q * Chunk + m + 1
      /\ Dealt(r, i) = (q * NumRanks + r) * Chunk + m + 1
  BY DealtParts
<1>2. /\ p \in Nat /\ l \in 0 .. Chunk - 1 /\ j = p * Chunk + l + 1
      /\ Dealt(r, j) = (p * NumRanks + r) * Chunk + l + 1
  BY <1>0, DealtParts
<1> HIDE DEF q, m, p, l
<1>3. q * Chunk \in Nat /\ p * Chunk \in Nat /\ q * NumRanks \in Nat /\ p * NumRanks \in Nat
  BY <1>0, <1>1, <1>2
<1>4. ~ (p < q)
  <2> SUFFICES ASSUME p < q PROVE FALSE
    OBVIOUS
  <2>1. p + 1 <= q /\ p + 1 \in Nat
    BY <1>1, <1>2
  <2>2. (p + 1) * Chunk <= q * Chunk /\ (p + 1) * Chunk = p * Chunk + Chunk
    BY <1>1, <1>2, <2>1, Products
  <2> QED BY <1>0, <1>1, <1>2, <1>3, <2>2
<1>5. CASE q = p
  <2>1. m < l
    BY <1>1, <1>2, <1>3, <1>5
  <2>2. (q * NumRanks + r) * Chunk \in Nat
    BY <1>0, <1>3
  <2> QED BY <1>1, <1>2, <1>5, <2>1, <2>2
<1>6. CASE q < p
  <2>1. q + 1 <= p /\ q + 1 \in Nat
    BY <1>1, <1>2, <1>6
  <2>2. (q + 1) * NumRanks <= p * NumRanks
    BY <1>0, <1>1, <1>2, <2>1
  <2>3. (q + 1) * NumRanks = q * NumRanks + NumRanks
    BY <1>0, <1>1
  <2> DEFINE a == q * NumRanks + r
             b == p * NumRanks + r
  <2>4. a \in Nat /\ b \in Nat /\ a + 1 <= b
    BY <1>0, <1>3, <2>2, <2>3
  <2>5. Dealt(r, i) = a * Chunk + m + 1 /\ Dealt(r, j) = b * Chunk + l + 1
    BY <1>1, <1>2
  <2> HIDE DEF a, b
  <2>6. (a + 1) * Chunk <= b * Chunk /\ (a + 1) * Chunk = a * Chunk + Chunk
    BY <2>4, Products
  <2>7. a * Chunk \in Nat /\ b * Chunk \in Nat
    BY <1>0, <2>4
  <2> QED BY <1>0, <1>1, <1>2, <2>5, <2>6, <2>7
<1> QED BY <1>1, <1>2, <1>4, <1>5, <1>6

\* The list of a rank: the edges whose home it is, each once.
LEMMA GeneratedList ==
  ASSUME NEW n \in Nat, NEW r \in Rank
  PROVE  LET s == Generated(n, r)
         IN /\ s \in Seq(1 .. n) /\ Len(s) \in Nat
            /\ \A i \in 1 .. Len(s) : Home(s[i]) = r
            /\ \A i, j \in 1 .. Len(s) : s[i] = s[j] => i = j
            /\ \A e \in 1 .. n : Home(e) = r => \E i \in 1 .. Len(s) : s[i] = e
<1> DEFINE D == {i \in 1 .. n : Dealt(r, i) <= n}
           s == Generated(n, r)
           T == {k \in 1 .. n + 1 : k \notin D}
<1>1. n + 1 \in T /\ T \in SUBSET Nat /\ T # {}
  OBVIOUS
<1>2. PICK k \in T : \A j \in T : k <= j
  BY <1>1, LeastNatural
<1>3. D = 1 .. k - 1 /\ k - 1 \in Nat
  <2>1. k \in Nat /\ k >= 1 /\ k <= n + 1 /\ k \notin D
    OBVIOUS
  <2>2. ASSUME NEW i \in 1 .. k - 1 PROVE i \in D
    <3>1. i \in 1 .. n + 1 /\ ~ (k <= i)
      BY <2>1
    <3>2. i \notin T
      BY <1>2, <3>1
    <3> QED BY <3>1, <3>2
  <2>3. ASSUME NEW i \in D PROVE i \in 1 .. k - 1
    <3>1. i \in 1 .. n /\ Dealt(r, i) <= n /\ i # k
      BY <2>1
    <3>2. ~ (k < i)
      <4> SUFFICES ASSUME k < i PROVE FALSE
        OBVIOUS
      <4>1. Dealt(r, k) < Dealt(r, i) /\ k \in 1 .. n
        BY <2>1, <3>1, DealtInOrder
      <4>2. Dealt(r, k) \in Nat /\ Dealt(r, i) \in Nat
        BY <2>1, <3>1, DealtParts
      <4>3. Dealt(r, k) <= n
        BY <3>1, <4>1, <4>2
      <4> QED BY <2>1, <4>1, <4>3
    <3> QED BY <2>1, <3>1, <3>2
  <2>4. k - 1 \in Nat
    BY <2>1
  <2> HIDE DEF D
  <2>5. D = 1 .. k - 1
    BY <2>2, <2>3
  <2> QED BY <2>4, <2>5
<1>4. s = [i \in D |-> Dealt(r, i)]
  BY DEF Generated
<1>5. \A i \in D : i \in Nat /\ i >= 1 /\ Dealt(r, i) \in 1 .. n
  BY DealtParts
<1> HIDE DEF D, T
<1>6. s = [i \in 1 .. k - 1 |-> Dealt(r, i)] /\ \A i \in 1 .. k - 1 : Dealt(r, i) \in 1 .. n
  BY <1>3, <1>4, <1>5
<1> HIDE DEF s
<1>7. s \in Seq(1 .. n) /\ Len(s) = k - 1 /\ \A i \in 1 .. k - 1 : s[i] = Dealt(r, i)
  BY <1>3, <1>6
<1>8. ASSUME NEW i \in 1 .. k - 1 PROVE Home(s[i]) = r
  BY <1>3, <1>5, <1>7, DealtParts
<1>9. ASSUME NEW i \in 1 .. k - 1, NEW j \in 1 .. k - 1, s[i] = s[j] PROVE i = j
  BY <1>3, <1>5, <1>7, <1>9, DealtOnce
<1>10. ASSUME NEW e \in 1 .. n, Home(e) = r PROVE \E i \in 1 .. k - 1 : s[i] = e
  <2>1. PICK i \in 1 .. e : Dealt(r, i) = e
    BY <1>10, DealtHome
  <2>2. i \in D
    BY <2>1 DEF D
  <2> QED BY <1>3, <1>7, <2>1, <2>2
<1> QED BY <1>3, <1>7, <1>8, <1>9, <1>10 DEF s

-----------------------------------------------------------------------------
(* The steps of a rank *)

\* What the five passes are.
LEMMA PassKinds ==
  /\ Len(Passes) = 5
  /\ \A p \in 1 .. 5 : /\ Rewrites(p) <=> p = 3
                       /\ Checks(p) <=> p > 3
                       /\ Releases(p) <=> p \in {2, 3}
<1>1. Passes = <<"scan", "store", "redistribute", "validate", "validate">>
  BY DEF Passes
<1>2. /\ Passes[1] = "scan" /\ Passes[2] = "store" /\ Passes[3] = "redistribute"
      /\ Passes[4] = "validate" /\ Passes[5] = "validate" /\ Len(Passes) = 5
  BY <1>1
<1>3. \A p \in 1 .. 5 : p = 1 \/ p = 2 \/ p = 3 \/ p = 4 \/ p = 5
  OBVIOUS
<1> QED BY <1>2, <1>3 DEF Rewrites, Checks, Releases

\* Edges are the numbers from 1.
LEMMA EdgeNumber ==
  ASSUME TypeOK
  PROVE  NumEdges \in Nat /\ Edge = 1 .. NumEdges
BY DEF TypeOK, Edge

\* What the parts of the state of a rank are.
LEMMA Facts ==
  ASSUME TypeOK, NEW r \in Rank
  PROVE  /\ NumEdges \in Nat /\ Edge = 1 .. NumEdges
         /\ Chunk \in Nat /\ Chunk >= 1
         /\ G(r) \in Seq(Edge) /\ Len(G(r)) \in Nat
         /\ data[r] \in Seq(Edge) /\ Len(data[r]) \in Nat
         /\ Source(r) \in Seq(Edge)
         /\ over[r] \in Seq(Edge) /\ Len(over[r]) \in Nat
         /\ recv[r] \in Seq(Edge) /\ Len(recv[r]) \in Nat
         /\ seen[r] \in Seq(Edge)
         /\ block[r] \in Nat /\ filled[r] \in Nat /\ offset[r] \in Nat /\ loop[r] \in Nat
         /\ ReadPosition(r) \in Nat /\ ReadPosition(r) = block[r] * Chunk
         /\ maxSize \in Nat /\ NumLoops \in Nat
         /\ pass[r] \in 1 .. 6 /\ request[r] \in Requests
         /\ pc[r] \in Looping \cup {"begin", "end"}
         /\ Done(r) \in Int
<1>1. NumEdges \in Nat /\ Edge = 1 .. NumEdges
  BY EdgeNumber
<1>2. G(r) \in Seq(Edge) /\ Len(G(r)) \in Nat
  BY <1>1, GeneratedList DEF G
<1>3. Chunk \in Nat /\ Chunk >= 1
  BY Constants
<1>4. /\ block[r] \in Nat /\ filled[r] \in Nat /\ offset[r] \in Nat /\ loop[r] \in Nat
      /\ maxSize \in Nat /\ pass[r] \in 1 .. 6 /\ request[r] \in Requests
      /\ pc[r] \in Looping \cup {"begin", "end"}
  BY DEF TypeOK
<1>5. /\ data[r] \in Seq(Edge) /\ over[r] \in Seq(Edge) /\ recv[r] \in Seq(Edge)
      /\ seen[r] \in Seq(Edge)
  BY DEF TypeOK
<1>6. Len(data[r]) \in Nat /\ Len(over[r]) \in Nat /\ Len(recv[r]) \in Nat
  BY <1>5
<1>7. ReadPosition(r) = block[r] * Chunk /\ ReadPosition(r) \in Nat
  BY <1>3, <1>4 DEF ReadPosition
<1>8. NumLoops \in Nat
  BY <1>4, LoopsCover
<1>9. Source(r) \in Seq(Edge)
  BY <1>2, <1>5 DEF Source
<1>10. Done(r) \in Int
  BY <1>3, <1>7 DEF Done
<1> QED BY <1>1, <1>2, <1>3, <1>4, <1>5, <1>6, <1>7, <1>8, <1>9, <1>10

\* A step that leaves the state of a rank alone leaves its invariant.
LEMMA Frame ==
  ASSUME NEW s \in Rank, LocalOf(s), owner' = owner, maxSize' = maxSize,
         data'[s] = data[s], filled'[s] = filled[s], memory'[s] = memory[s],
         block'[s] = block[s], request'[s] = request[s], buffer'[s] = buffer[s],
         offset'[s] = offset[s], over'[s] = over[s], pass'[s] = pass[s],
         loop'[s] = loop[s], pc'[s] = pc[s], recv'[s] = recv[s], seen'[s] = seen[s]
  PROVE  LocalOf(s)'
<1>1. NumEdges' = NumEdges /\ NumLoops' = NumLoops
  BY DEF NumEdges, Edge, NumLoops
<1>2. G(s)' = G(s) /\ ReadPosition(s)' = ReadPosition(s)
  BY <1>1 DEF G, ReadPosition
<1>3. Source(s)' = Source(s) /\ Late(s)' = Late(s) /\ Done(s)' = Done(s)
  BY <1>2 DEF Source, Late, Done
<1>4. Sizes(s)'
  BY <1>2, <1>3 DEF LocalOf, Sizes
<1>5. Steps(s)'
  BY <1>1, <1>2 DEF LocalOf, Steps
<1>6. ReadsOK(s)'
  BY <1>2 DEF LocalOf, ReadsOK
<1>7. BuffersOK(s)'
  BY <1>2, <1>3 DEF LocalOf, BuffersOK, ChunkAt
<1>8. Behind(s)' = Behind(s)
  BY <1>2 DEF Behind
<1>9. Unread(s)'
  BY <1>2, <1>3, <1>8 DEF LocalOf, Unread
<1>10. SeenOK(s)'
  BY <1>3 DEF LocalOf, SeenOK
<1> QED BY <1>4, <1>5, <1>6, <1>7, <1>9, <1>10 DEF LocalOf

\* Sequences that agree on a range have the same part there.
LEMMA SameParts ==
  ASSUME NEW S, NEW s \in Seq(S), NEW t \in Seq(S), NEW m \in Nat, NEW n \in Int,
         m >= 1, n <= Len(s), n <= Len(t), \A i \in m .. n : s[i] = t[i]
  PROVE  SubSeq(s, m, n) = SubSeq(t, m, n)
<1> DEFINE a == SubSeq(s, m, n)
           b == SubSeq(t, m, n)
<1>1. /\ a \in Seq(S) /\ Len(a) = (IF m <= n THEN n - m + 1 ELSE 0)
      /\ \A i \in 1 .. n - m + 1 : a[i] = s[m + i - 1]
  BY PartOf
<1>2. /\ b \in Seq(S) /\ Len(b) = (IF m <= n THEN n - m + 1 ELSE 0)
      /\ \A i \in 1 .. n - m + 1 : b[i] = t[m + i - 1]
  BY PartOf
<1> HIDE DEF a, b
<1>3. ASSUME NEW i \in 1 .. Len(a) PROVE a[i] = b[i]
  <2>1. Len(a) = (IF m <= n THEN n - m + 1 ELSE 0)
    BY <1>1
  <2>2. i \in 1 .. n - m + 1 /\ m + i - 1 \in m .. n
    BY <2>1
  <2> QED BY <1>1, <1>2, <2>2
<1>4. a = b
  BY <1>1, <1>2, <1>3, SeqEqual
<1> QED BY <1>4 DEF a, b

\* Writing nothing changes nothing.
LEMMA StoredNothing ==
  ASSUME NEW S, NEW s \in Seq(S), NEW e \in Seq(S), NEW n \in Nat, n <= Len(s)
  PROVE  e = <<>> => Stored(s, n, e) = s
<1> DEFINE t == Stored(s, n, e)
<1>1. Len(s) \in Nat
  OBVIOUS
<1>2. /\ t \in Seq(S)
      /\ Len(t) = IF Len(s) <= n + Len(e) THEN n + Len(e) ELSE Len(s)
      /\ \A i \in 1 .. n : t[i] = s[i]
      /\ \A i \in n + Len(e) + 1 .. Len(s) : t[i] = s[i]
  BY StoredParts
<1> HIDE DEF t
<1> SUFFICES ASSUME e = <<>> PROVE t = s
  BY DEF t
<1>3. Len(e) = 0
  OBVIOUS
<1>4. Len(t) = Len(s)
  BY <1>1, <1>2, <1>3
<1>5. ASSUME NEW i \in 1 .. Len(t) PROVE t[i] = s[i]
  <2>1. i \in 1 .. n \/ i \in n + Len(e) + 1 .. Len(s)
    BY <1>1, <1>3, <1>4
  <2> QED BY <1>2, <2>1
<1> QED BY <1>2, <1>4, <1>5, SeqEqual

\* The chunk that a rank was given is the next one of what it reads.
LEMMA GivenChunk ==
  ASSUME TypeOK, NEW r \in Rank, LocalOf(r), pc[r] = "given"
  PROVE  /\ Given(r) = SubSeq(Source(r), ReadPosition(r) - Chunk + 1, Least(ReadPosition(r), filled[r]))
         /\ ReadPosition(r) - Chunk \in Nat /\ ReadPosition(r) - Chunk < filled[r]
         /\ filled[r] <= Len(Source(r))
<1>0. /\ block[r] \in Nat /\ filled[r] \in Nat /\ ReadPosition(r) = block[r] * Chunk
      /\ ReadPosition(r) \in Nat /\ Chunk \in Nat /\ Chunk >= 1 /\ pass[r] \in 1 .. 6
      /\ data[r] \in Seq(Edge) /\ Source(r) \in Seq(Edge)
      /\ Len(data[r]) \in Nat /\ Len(G(r)) \in Nat
  BY Facts
<1>1. /\ block[r] >= 1 /\ ReadPosition(r) - Chunk < filled[r]
      /\ filled[r] <= Len(data[r]) /\ (~ Late(r) => filled[r] = Len(G(r)))
  BY DEF LocalOf, Steps, Sizes
<1>2. (block[r] - 1) * Chunk = ReadPosition(r) - Chunk /\ ReadPosition(r) - Chunk \in Nat
  <2>1. block[r] \in Nat \ {0}
    BY <1>0, <1>1
  <2>2. (block[r] - 1) * Chunk = block[r] * Chunk - Chunk /\ (block[r] - 1) * Chunk \in Nat
    BY <2>1, Products
  <2> QED BY <1>0, <2>2
<1>3. filled[r] <= Len(Source(r))
  <2>1. CASE pass[r] <= 3
    <3>1. Source(r) = G(r) /\ ~ Late(r)
      BY <1>0, <2>1 DEF Source, Late
    <3> QED BY <1>0, <1>1, <3>1
  <2>2. CASE ~ (pass[r] <= 3)
    <3>1. Source(r) = data[r]
      BY <1>0, <2>2 DEF Source
    <3> QED BY <1>0, <1>1, <3>1
  <2> QED BY <2>1, <2>2
<1>4. CASE ~ memory[r]
  <2>1. Given(r) = ChunkAt(r, block[r] - 1)
    BY <1>4 DEF Given, LocalOf, BuffersOK
  <2>2. (block[r] - 1) * Chunk + Chunk = ReadPosition(r)
    BY <1>2, <1>0
  <2> QED BY <1>1, <1>2, <1>3, <2>1, <2>2 DEF ChunkAt
<1>5. CASE memory[r]
  <2> DEFINE m == ReadPosition(r) - Chunk + 1
             n == Least(ReadPosition(r), filled[r])
  <2>1. Given(r) = SubSeq(data[r], m, n)
    BY <1>5 DEF Given
  <2>2. m \in Nat /\ m >= 1 /\ n \in Int /\ n <= filled[r] /\ filled[r] \in Nat
    BY <1>2, <1>0, SMTT(30) DEF Least
  <2>3. n <= Len(data[r]) /\ n <= Len(Source(r))
    <3> HIDE DEF m, n
    <3>1. Len(Source(r)) \in Nat
      BY <1>0
    <3> QED BY <1>0, <1>1, <1>3, <2>2, <3>1
  <2>4. \A i \in m .. n : data[r][i] = Source(r)[i]
    <3>1. CASE pass[r] > 3
      <4>1. Source(r) = data[r]
        BY <3>1, <1>0 DEF Source
      <4> QED BY <4>1
    <3>2. CASE pass[r] <= 2
      BY <3>2, <1>0 DEF Source, LocalOf, Sizes
    <3>3. CASE pass[r] = 3
      <4>1. \A i \in Done(r) + 1 .. filled[r] : data[r][i] = G(r)[i]
        BY <3>3 DEF LocalOf, Unread, Looping
      <4>2. Done(r) + 1 = m
        BY DEF Done
      <4> HIDE DEF m, n
      <4>3. \A i \in m .. n : i \in m .. filled[r]
        BY <2>2
      <4> QED BY <3>3, <4>1, <4>2, <4>3 DEF Source
    <3>4. pass[r] > 3 \/ pass[r] <= 2 \/ pass[r] = 3
      BY <1>0
    <3> QED BY <3>1, <3>2, <3>3, <3>4
  <2> HIDE DEF m, n
  <2>5. SubSeq(data[r], m, n) = SubSeq(Source(r), m, n)
    BY <2>2, <2>3, <2>4, <1>0, SameParts
  <2> QED BY <1>1, <1>2, <1>3, <2>1, <2>5 DEF m, n
<1> QED BY <1>4, <1>5

-----------------------------------------------------------------------------
\* The generated lists depend on the graph only.
LEMMA Same ==
  ASSUME owner' = owner
  PROVE  NumEdges' = NumEdges /\ Edge' = Edge /\ \A r : G(r)' = G(r)
BY DEF NumEdges, Edge, G

\* The number of iterations depends on the largest list only.
LEMMA SameLoops ==
  ASSUME maxSize' = maxSize
  PROVE  NumLoops' = NumLoops
BY DEF NumLoops

\* Consecutive chunks go to different halves of the buffer.
LEMMA HalfType == \A k \in Nat : Half(k) \in 1 .. 2 /\ Half(k + 1) # Half(k)
BY DEF Half

\* The fields of a read that is started.
LEMMA RequestType ==
  ASSUME TypeOK, NEW r \in Rank, NEW k \in Nat
  PROVE  /\ IRead(r, k) \in Requests /\ IRead(r, k).state = "pending"
         /\ IRead(r, k).from = k * Chunk
         /\ IRead(r, k).len = Least(filled[r] - k * Chunk, Chunk)
         /\ IRead(r, k).half = Half(k)
<1>1. k * Chunk \in Nat /\ Chunk \in Nat /\ filled[r] \in Nat
  BY Products, Constants DEF TypeOK
<1>2. Least(filled[r] - k * Chunk, Chunk) \in Int
  BY <1>1 DEF Least
<1>3. Half(k) \in 1 .. 2
  BY HalfType
<1> QED BY <1>1, <1>2, <1>3 DEF IRead, Requests

\* A part up to nowhere is empty.
LEMMA NoPart ==
  ASSUME NEW S, NEW s \in Seq(S), NEW n \in Int, n <= 0
  PROVE  SubSeq(s, 1, n) = <<>>
OBVIOUS

\* beginRead: the read position, the write position and what was seen start over.
LEMMA BeginReadKeeps ==
  ASSUME TypeOK, NEW r \in Rank, LocalOf(r), BeginRead(r)
  PROVE  TypeOK' /\ LocalOf(r)'
<1>0. /\ filled[r] \in Nat /\ data[r] \in Seq(Edge) /\ Source(r) \in Seq(Edge)
      /\ maxSize \in Nat /\ NumLoops \in Nat /\ Len(data[r]) \in Nat
      /\ G(r) \in Seq(Edge) /\ request[r] \in Requests
  BY Facts
<1>1. /\ pc[r] = "begin" /\ pass[r] \in 1 .. 5
      /\ pc'[r] = "read" /\ pass' = pass /\ block'[r] = 0 /\ loop'[r] = 0 /\ seen'[r] = <<>>
      /\ recv' = recv /\ data' = data /\ filled' = filled /\ maxSize' = maxSize /\ owner' = owner
      /\ buffer' = buffer
  BY PassKinds DEF TypeOK, BeginRead
<1>2. /\ G(r)' = G(r) /\ NumEdges' = NumEdges /\ Edge' = Edge /\ NumLoops' = NumLoops
  BY <1>1, Same, SameLoops
<1>3. ReadPosition(r)' = 0
  BY <1>1, Constants DEF ReadPosition
<1>4. Late(r)' = Late(r) /\ Done(r)' = 0 /\ Source(r)' = Source(r)
  BY <1>1, <1>2, <1>3 DEF Late, Done, Source
<1>5. /\ pass[r] = 3 => offset'[r] = 0 /\ over'[r] = <<>>
      /\ pass[r] # 3 => offset' = offset /\ over' = over
  BY <1>1, PassKinds DEF BeginRead, TypeOK
<1>6. request[r].state \notin {"pending", "done"}
  BY <1>1 DEF LocalOf, ReadsOK
<1>7. \/ /\ request'[r] = IRead(r, 0) /\ ~ memory'[r] /\ filled[r] > 0
      \/ /\ request'[r] = request[r] /\ (memory'[r] \/ filled[r] <= 0)
  BY <1>0 DEF BeginRead, TypeOK
<1>8. TypeOK'
  <2>1. /\ memory' \in [Rank -> BOOLEAN] /\ block' \in [Rank -> Nat] /\ loop' \in [Rank -> Nat]
        /\ pc' \in [Rank -> Looping \cup {"begin", "end"}] /\ inFile' = inFile
    BY DEF TypeOK, BeginRead, Looping
  <2>2. seen' \in [Rank -> Seq(Edge)]
    <3>1. <<>> \in Seq(Edge)
      OBVIOUS
    <3> QED BY <3>1 DEF TypeOK, BeginRead
  <2>3. request' \in [Rank -> Requests]
    BY RequestType DEF TypeOK, BeginRead
  <2>4. offset' \in [Rank -> Nat] /\ over' \in [Rank -> Seq(Edge)]
    <3>1. <<>> \in Seq(Edge)
      OBVIOUS
    <3>2. \/ offset' = [offset EXCEPT ![r] = 0] /\ over' = [over EXCEPT ![r] = <<>>]
          \/ offset' = offset /\ over' = over
      BY DEF BeginRead
    <3>3. offset \in [Rank -> Nat] /\ over \in [Rank -> Seq(Edge)]
      BY DEF TypeOK
    <3>4. offset' \in [Rank -> Nat]
      BY <3>2, <3>3
    <3>5. over' \in [Rank -> Seq(Edge)]
      BY <3>1, <3>2, <3>3
    <3> QED BY <3>4, <3>5
  <2> QED BY <1>1, <1>2, <2>1, <2>2, <2>3, <2>4 DEF TypeOK
<1>9. Sizes(r)'
  BY <1>0, <1>1, <1>2, <1>4, <1>5 DEF LocalOf, Sizes, Late
<1>10. Steps(r)'
  BY <1>0, <1>1, <1>2, <1>3 DEF Steps, Looping
<1>11. ReadsOK(r)'
  <2>1. CASE request'[r] = IRead(r, 0) /\ ~ memory'[r] /\ filled[r] > 0
    <3>1. 0 * Chunk = 0
      BY Constants
    <3>2. /\ request'[r].from = 0 /\ request'[r].len = Least(filled[r] - 0, Chunk)
          /\ request'[r].half = Half(0) /\ request'[r].state = "pending"
      BY <2>1, <3>1, RequestType
    <3> QED BY <1>0, <1>1, <1>3, <2>1, <3>2 DEF ReadsOK
  <2>2. CASE request'[r] = request[r] /\ (memory'[r] \/ filled[r] <= 0)
    BY <1>0, <1>1, <1>3, <1>6, <2>2 DEF ReadsOK
  <2> QED BY <1>7, <2>1, <2>2
<1>12. BuffersOK(r)'
  <2>1. request'[r].state # "done"
    BY <1>6, <1>7, RequestType
  <2> QED BY <1>1, <2>1 DEF BuffersOK
<1>13. Unread(r)'
  <2>1. CASE pass[r] = 3
    <3>1. data[r] = G(r)
      BY <1>1, <2>1 DEF LocalOf, Sizes
    <3>2. Behind(r)'
      BY <1>1, <1>3, <1>5, <2>1 DEF Behind
    <3> QED BY <1>1, <1>2, <3>1, <3>2 DEF Unread
  <2> QED BY <1>1, <2>1 DEF Unread
<1>14. SeenOK(r)'
  <2>1. Least(0, filled[r]) \in Int /\ Least(0, filled[r]) <= 0
    BY <1>0 DEF Least
  <2>2. SubSeq(Source(r), 1, Least(0, filled[r])) = <<>>
    BY <1>0, <2>1, NoPart
  <2> QED BY <1>1, <1>4, <2>2 DEF SeenOK
<1> QED BY <1>8, <1>9, <1>10, <1>11, <1>12, <1>13, <1>14 DEF LocalOf

\* The file system fills the half for the chunk at the read position, never
\* the half that the rank holds.
LEMMA CompleteReadKeeps ==
  ASSUME TypeOK, NEW r \in Rank, LocalOf(r), CompleteRead(r)
  PROVE  TypeOK' /\ LocalOf(r)'
<1> DEFINE q == request[r]
<1>0. /\ filled[r] \in Nat /\ data[r] \in Seq(Edge) /\ Source(r) \in Seq(Edge) /\ block[r] \in Nat
      /\ ReadPosition(r) \in Nat /\ ReadPosition(r) = block[r] * Chunk /\ Chunk \in Nat /\ Chunk >= 1
      /\ Len(data[r]) \in Nat /\ Len(G(r)) \in Nat /\ pass[r] \in 1 .. 6 /\ q \in Requests
      /\ pc[r] \in Looping \cup {"begin", "end"} /\ G(r) \in Seq(Edge)
  BY Facts
<1>1. /\ q.state = "pending" /\ q.from = ReadPosition(r) /\ q.half = Half(block[r])
      /\ q.len = Least(filled[r] - ReadPosition(r), Chunk) /\ ReadPosition(r) < filled[r]
      /\ pc[r] # "begin" /\ ~ (pass[r] = 3 /\ pc[r] = "end") /\ ~ memory[r]
  BY DEF CompleteRead, LocalOf, ReadsOK
<1>2. /\ owner' = owner /\ inFile' = inFile /\ memory' = memory /\ data' = data
      /\ filled' = filled /\ maxSize' = maxSize /\ block' = block /\ offset' = offset
      /\ over' = over /\ pass' = pass /\ loop' = loop /\ pc' = pc /\ recv' = recv /\ seen' = seen
  BY DEF CompleteRead, progVars
<1>3. q.half \in 1 .. 2
  BY <1>0, <1>1, HalfType
<1>4. /\ q.from + 1 = ReadPosition(r) + 1
      /\ q.from + q.len = Least(ReadPosition(r) + Chunk, filled[r])
      /\ q.from + q.len <= filled[r] /\ q.from + q.len \in Int
  <2> DEFINE p == ReadPosition(r)
             f == filled[r]
  <2>1. p \in Nat /\ f \in Nat /\ Chunk \in Nat /\ q.from = p /\ q.len = Least(f - p, Chunk)
    BY <1>0, <1>1
  <2> HIDE DEF p, f, q
  <2>2. /\ q.from + 1 = p + 1 /\ q.from + q.len = Least(p + Chunk, f)
        /\ q.from + q.len <= f /\ q.from + q.len \in Int
    BY <2>1 DEF Least
  <2> QED BY <2>2 DEF p, f
<1>5. SubSeq(data[r], q.from + 1, q.from + q.len) = ChunkAt(r, block[r])
  <2> DEFINE m == ReadPosition(r) + 1
             n == Least(ReadPosition(r) + Chunk, filled[r])
  <2>1. SubSeq(data[r], q.from + 1, q.from + q.len) = SubSeq(data[r], m, n)
    BY <1>4
  <2>2. ChunkAt(r, block[r]) = SubSeq(Source(r), m, n)
    BY <1>0 DEF ChunkAt
  <2>3. n \in Int /\ n <= filled[r] /\ m \in Nat /\ m >= 1
    BY <1>0, SMTT(30) DEF Least
  <2> HIDE DEF m
  <2>4. n <= Len(data[r]) /\ n <= Len(Source(r))
    <3> HIDE DEF n
    <3>1. filled[r] <= Len(data[r]) /\ filled[r] <= Len(Source(r))
      BY <1>0, <1>1 DEF LocalOf, Sizes, Source, Late
    <3>2. Len(Source(r)) \in Nat
      BY <1>0
    <3> QED BY <1>0, <2>3, <3>1, <3>2
  <2>5. \A i \in m .. n : data[r][i] = Source(r)[i]
    <3>1. CASE pass[r] > 3
      <4>1. Source(r) = data[r]
        BY <1>0, <3>1 DEF Source
      <4> QED BY <4>1
    <3>2. CASE pass[r] <= 2
      <4>1. Source(r) = data[r]
        BY <1>0, <3>2 DEF Source, LocalOf, Sizes
      <4> QED BY <4>1
    <3>3. CASE pass[r] = 3
      <4>1. \A i \in Done(r) + 1 .. filled[r] : data[r][i] = G(r)[i]
        BY <1>0, <1>1, <3>3 DEF LocalOf, Unread
      <4>2. Done(r) \in Int /\ Done(r) <= ReadPosition(r)
        BY <1>0 DEF Done
      <4> HIDE DEF n
      <4>3. \A i \in m .. n : i \in Done(r) + 1 .. filled[r]
        BY <1>0, <2>3, <4>2, SMTT(30) DEF m
      <4> QED BY <3>3, <4>1, <4>3 DEF Source
    <3>4. pass[r] > 3 \/ pass[r] <= 2 \/ pass[r] = 3
      BY <1>0
    <3> QED BY <3>1, <3>2, <3>3, <3>4
  <2> HIDE DEF n
  <2>6. data[r] \in Seq(Edge) /\ Source(r) \in Seq(Edge)
    BY <1>0
  <2>7. SubSeq(data[r], m, n) = SubSeq(Source(r), m, n)
    BY <2>3, <2>4, <2>5, <2>6, SameParts
  <2> QED BY <2>1, <2>2, <2>7
<1>6. /\ G(r)' = G(r) /\ NumEdges' = NumEdges /\ Edge' = Edge /\ NumLoops' = NumLoops
  BY <1>2, Same, SameLoops
<1>7. ReadPosition(r)' = ReadPosition(r) /\ Source(r)' = Source(r) /\ Done(r)' = Done(r)
      /\ Late(r)' = Late(r) /\ Behind(r)' = Behind(r)
  BY <1>2, <1>6 DEF ReadPosition, Source, Done, Late, Behind
<1>8. /\ buffer'[r][Half(block[r])] = ChunkAt(r, block[r])
      /\ \A h \in 1 .. 2 : h # Half(block[r]) => buffer'[r][h] = buffer[r][h]
  <2>1. buffer' = [buffer EXCEPT ![r][Half(block[r])] = ChunkAt(r, block[r])]
    BY <1>1, <1>5 DEF CompleteRead
  <2>2. buffer \in [Rank -> [1 .. 2 -> Seq(Edge)]]
    BY DEF TypeOK
  <2> QED BY <1>1, <1>3, <2>1, <2>2
<1>9. ChunkAt(r, block[r]) \in Seq(Edge)
  <2> DEFINE a == q.from + 1
             b == q.from + q.len
  <2>1. a \in Nat /\ a >= 1 /\ b \in Int /\ b <= filled[r] /\ filled[r] <= Len(data[r])
    <3>1. filled[r] <= Len(data[r])
      BY DEF LocalOf, Sizes
    <3> QED BY <1>0, <1>4, <3>1, SMTT(30)
  <2> HIDE DEF a, b
  <2>2. b <= Len(data[r])
    BY <1>0, <2>1
  <2>3. SubSeq(data[r], a, b) \in Seq(Edge)
    BY <1>0, <2>1, <2>2, PartOf
  <2> QED BY <1>5, <2>3 DEF a, b
<1>10. /\ request'[r].state = "done" /\ request'[r].from = q.from /\ request'[r].len = q.len
       /\ request'[r].half = q.half /\ request' \in [Rank -> Requests]
  BY SMTT(30) DEF CompleteRead, TypeOK, Requests
<1>11. TypeOK'
  <2>1. buffer' \in [Rank -> [1 .. 2 -> Seq(Edge)]]
    <3>1. buffer' = [buffer EXCEPT ![r][q.half] = ChunkAt(r, block[r])]
      BY <1>5 DEF CompleteRead
    <3>2. buffer \in [Rank -> [1 .. 2 -> Seq(Edge)]]
      BY DEF TypeOK
    <3> QED BY <1>3, <1>9, <3>1, <3>2
  <2> QED BY <1>2, <1>6, <1>10, <2>1 DEF TypeOK
<1>12. Sizes(r)'
  BY <1>2, <1>6, <1>7 DEF LocalOf, Sizes
<1>13. Steps(r)'
  BY <1>2, <1>6, <1>7 DEF LocalOf, Steps
<1>14. ReadsOK(r)'
  BY <1>1, <1>2, <1>7, <1>10 DEF ReadsOK, LocalOf
<1>15. BuffersOK(r)'
  <2>1. ChunkAt(r, block[r])' = ChunkAt(r, block[r]) /\ ChunkAt(r, block[r] - 1)' = ChunkAt(r, block[r] - 1)
    BY <1>2, <1>7 DEF ChunkAt
  <2>2. CASE pc[r] = "given"
    <3>1. block[r] - 1 \in Nat
      BY <1>0, <2>2 DEF LocalOf, Steps
    <3>2. Half(block[r] - 1) \in 1 .. 2 /\ Half(block[r] - 1) # Half(block[r])
      <4>1. block[r] - 1 + 1 = block[r]
        BY <1>0
      <4> QED BY <3>1, <4>1, HalfType
    <3> QED BY <1>1, <1>2, <1>8, <2>1, <2>2, <3>2 DEF BuffersOK, LocalOf
  <2>3. CASE pc[r] # "given"
    BY <1>2, <1>8, <2>1, <2>3 DEF BuffersOK
  <2> QED BY <2>2, <2>3
<1>16. Unread(r)' /\ SeenOK(r)'
  BY <1>2, <1>6, <1>7 DEF LocalOf, Unread, SeenOK
<1> QED BY <1>11, <1>12, <1>13, <1>14, <1>15, <1>16 DEF LocalOf

-----------------------------------------------------------------------------
\* SetToSeq lists every element of the set once.
LEMMA SetAsSeq ==
  ASSUME NEW S, IsFiniteSet(S)
  PROVE  /\ Cardinality(S) \in Nat
         /\ SetToSeq(S) \in [1 .. Cardinality(S) -> S]
         /\ \A i, j \in 1 .. Cardinality(S) : SetToSeq(S)[i] = SetToSeq(S)[j] => i = j
         /\ \A x \in S : \E i \in 1 .. Cardinality(S) : SetToSeq(S)[i] = x
<1> DEFINE n == Cardinality(S)
           f == SetToSeq(S)
           R == {f[i] : i \in 1 .. n}
<1>1. n \in Nat /\ ExistsBijection(1 .. n, S)
  BY FS_CardinalityType
<1>2. \E g \in [1 .. n -> S] : IsInjective(g)
  BY <1>1 DEF ExistsBijection, Bijection, Injection
<1>3. f \in [1 .. n -> S] /\ IsInjective(f)
  BY <1>2 DEF SetToSeq
<1> HIDE DEF n, f
<1>4. \A i, j \in 1 .. n : f[i] = f[j] => i = j
  BY <1>3 DEF IsInjective
<1>5. f \in Bijection(1 .. n, R)
  <2>1. f \in [1 .. n -> R]
    BY <1>3
  <2>2. \A x \in R : \E i \in 1 .. n : f[i] = x
    OBVIOUS
  <2> HIDE DEF R
  <2> QED BY <1>3, <2>1, <2>2 DEF Bijection, Injection, Surjection
<1>6. R \in SUBSET S
  BY <1>3
<1>7. IsFiniteSet(1 .. n) /\ Cardinality(1 .. n) = n
  BY <1>1, FS_Interval
<1>8. Cardinality(R) = n
  <2> HIDE DEF R
  <2> QED BY <1>5, <1>7, FS_Bijection DEF ExistsBijection
<1>9. R = S
  <2> HIDE DEF R
  <2> QED BY <1>6, <1>8, FS_Subset DEF n
<1>10. \A x \in S : \E i \in 1 .. n : f[i] = x
  BY <1>9
<1> QED BY <1>1, <1>3, <1>4, <1>10 DEF n, f

\* What a rank receives: every edge it owns that a chunk holds, once for each
\* time that one does.
LEMMA ReceivedList ==
  ASSUME NEW S, NEW r \in Rank, \A s \in Rank : ChunkOf(s) \in Seq(S)
  PROVE  /\ Received(r) \in Seq(S)
         /\ \A k \in 1 .. Len(Received(r)) :
              \E s \in Rank : \E i \in 1 .. Len(ChunkOf(s)) :
                ChunkOf(s)[i] = Received(r)[k] /\ owner[Received(r)[k]] = r
         /\ \A s \in Rank : \A i \in 1 .. Len(ChunkOf(s)) :
              owner[ChunkOf(s)[i]] = r =>
                \E k \in 1 .. Len(Received(r)) : Received(r)[k] = ChunkOf(s)[i]
         /\ \A k, l \in 1 .. Len(Received(r)) :
              k # l /\ Received(r)[k] = Received(r)[l] =>
                \E s, t \in Rank : \E i \in 1 .. Len(ChunkOf(s)), j \in 1 .. Len(ChunkOf(t)) :
                  /\ <<s, i>> # <<t, j>>
                  /\ ChunkOf(s)[i] = Received(r)[k] /\ ChunkOf(t)[j] = Received(r)[k]
<1> DEFINE chunk == [s \in Rank |-> ChunkOf(s)]
           At(s) == {i \in DOMAIN chunk[s] : owner[chunk[s][i]] = r}
           Of(s) == {<<s, i>> : i \in At(s)}
           from == UNION {Of(s) : s \in Rank}
           order == SetToSeq(from)
           n == Cardinality(from)
           R == [k \in 1 .. n |-> chunk[order[k][1]][order[k][2]]]
<1>1. \A s \in Rank : chunk[s] \in Seq(S) /\ Len(chunk[s]) \in Nat /\ DOMAIN chunk[s] = 1 .. Len(chunk[s])
  OBVIOUS
<1>2. \A s \in Rank : \A i : <<s, i>> \in from <=> i \in 1 .. Len(chunk[s]) /\ owner[chunk[s][i]] = r
  <2> HIDE DEF chunk
  <2> QED BY <1>1
<1>3. \A x \in from : \E s \in Rank : \E i \in 1 .. Len(chunk[s]) : x = <<s, i>>
  <2> HIDE DEF chunk
  <2> QED BY <1>1
<1>4. IsFiniteSet(from)
  <2> DEFINE f == [s \in Rank |-> Len(chunk[s])]
             L == LargestOf({f[s] : s \in Rank})
             D == 1 .. L
  <2>1. f \in [Rank -> Nat] /\ \A s \in Rank : f[s] = Len(chunk[s])
    BY <1>1
  <2> HIDE DEF f
  <2>2. L \in Nat /\ \A s \in Rank : f[s] <= L
    BY <2>1, LargestRank
  <2> HIDE DEF L
  <2>3. IsFiniteSet(D) /\ IsFiniteSet(Rank)
    BY <2>2, Constants, FS_Interval DEF Rank
  <2>4. \A s \in Rank : \A i \in 1 .. Len(chunk[s]) : i \in D
    <3> HIDE DEF chunk
    <3> QED BY <1>1, <2>1, <2>2
  <2> HIDE DEF D
  <2>5. IsFiniteSet(Rank \X D)
    BY <2>3, FS_Product
  <2>6. from \in SUBSET (Rank \X D)
    <3> HIDE DEF from, chunk
    <3> QED BY <1>3, <2>4
  <2> HIDE DEF from
  <2> QED BY <2>5, <2>6, FS_Subset
<1> HIDE DEF from
<1>5. /\ n \in Nat /\ order \in [1 .. n -> from]
      /\ \A k, l \in 1 .. n : order[k] = order[l] => k = l
      /\ \A x \in from : \E k \in 1 .. n : order[k] = x
  BY <1>4, SetAsSeq
<1>6. Received(r) = R
  <2>1. DOMAIN order = 1 .. n
    BY <1>5
  <2>2. Received(r) = [k \in DOMAIN order |-> chunk[order[k][1]][order[k][2]]]
    BY DEF Received, from
  <2> HIDE DEF order, n
  <2> QED BY <2>1, <2>2
<1> HIDE DEF order, n
<1>7. ASSUME NEW k \in 1 .. n
      PROVE  \E s \in Rank : \E i \in 1 .. Len(chunk[s]) :
               order[k] = <<s, i>> /\ owner[chunk[s][i]] = r /\ R[k] = chunk[s][i] /\ chunk[s][i] \in S
  <2>1. order[k] \in from
    BY <1>5
  <2>2. PICK s \in Rank : \E i \in 1 .. Len(chunk[s]) : order[k] = <<s, i>>
    BY <1>3, <2>1
  <2>3. PICK i \in 1 .. Len(chunk[s]) : order[k] = <<s, i>>
    BY <2>2
  <2>4. owner[chunk[s][i]] = r
    BY <1>2, <2>1, <2>3
  <2>5. R[k] = chunk[s][i]
    BY <2>3
  <2>6. chunk[s][i] \in S
    <3> HIDE DEF chunk
    <3> QED BY <1>1
  <2> QED BY <2>3, <2>4, <2>5, <2>6
<1>8. R \in Seq(S) /\ Len(R) = n
  <2>1. \A k \in 1 .. n : R[k] \in S
    BY <1>7
  <2>2. R \in [1 .. n -> S]
    BY <2>1
  <2> HIDE DEF R
  <2> QED BY <1>5, <2>2
<1>9. \A s \in Rank : chunk[s] = ChunkOf(s)
  OBVIOUS
<1>10. ASSUME NEW s \in Rank, NEW i \in 1 .. Len(chunk[s]), owner[chunk[s][i]] = r
       PROVE  \E k \in 1 .. n : R[k] = chunk[s][i]
  <2>1. <<s, i>> \in from
    BY <1>2, <1>10
  <2>2. PICK k \in 1 .. n : order[k] = <<s, i>>
    BY <1>5, <2>1
  <2>3. R[k] = chunk[s][i]
    BY <2>2
  <2> QED BY <2>3
<1>11. ASSUME NEW k \in 1 .. n, NEW l \in 1 .. n, k # l, R[k] = R[l]
       PROVE  \E s, t \in Rank : \E i \in 1 .. Len(ChunkOf(s)), j \in 1 .. Len(ChunkOf(t)) :
                <<s, i>> # <<t, j>> /\ ChunkOf(s)[i] = R[k] /\ ChunkOf(t)[j] = R[k]
  <2>1. order[k] # order[l]
    BY <1>5, <1>11
  <2> HIDE DEF R, chunk
  <2>2. PICK s \in Rank : \E i \in 1 .. Len(chunk[s]) : order[k] = <<s, i>> /\ R[k] = chunk[s][i]
    BY <1>7
  <2>3. PICK i \in 1 .. Len(chunk[s]) : order[k] = <<s, i>> /\ R[k] = chunk[s][i]
    BY <2>2
  <2>4. PICK t \in Rank : \E j \in 1 .. Len(chunk[t]) : order[l] = <<t, j>> /\ R[l] = chunk[t][j]
    BY <1>7
  <2>5. PICK j \in 1 .. Len(chunk[t]) : order[l] = <<t, j>> /\ R[l] = chunk[t][j]
    BY <2>4
  <2>6. <<s, i>> # <<t, j>>
    BY <2>1, <2>3, <2>5
  <2>7. chunk[s] = ChunkOf(s) /\ chunk[t] = ChunkOf(t)
    BY <1>9
  <2>8. i \in 1 .. Len(ChunkOf(s)) /\ j \in 1 .. Len(ChunkOf(t))
        /\ ChunkOf(s)[i] = R[k] /\ ChunkOf(t)[j] = R[k]
    BY <1>11, <2>3, <2>5, <2>7
  <2> QED BY <2>6, <2>8
<1> HIDE DEF R, chunk
<1>12. \A k \in 1 .. n : \E s \in Rank : \E i \in 1 .. Len(chunk[s]) :
         chunk[s][i] = R[k] /\ owner[R[k]] = r
  <2> TAKE k \in 1 .. n
  <2>1. PICK s \in Rank : \E i \in 1 .. Len(chunk[s]) : owner[chunk[s][i]] = r /\ R[k] = chunk[s][i]
    BY <1>7
  <2>2. PICK i \in 1 .. Len(chunk[s]) : owner[chunk[s][i]] = r /\ R[k] = chunk[s][i]
    BY <2>1
  <2> QED BY <2>2
<1>13. R \in Seq(S)
  BY <1>8
<1>14. \A k \in 1 .. Len(R) : \E s \in Rank : \E i \in 1 .. Len(ChunkOf(s)) :
         ChunkOf(s)[i] = R[k] /\ owner[R[k]] = r
  BY <1>8, <1>9, <1>12, SMTT(30)
<1>15. \A s \in Rank : \A i \in 1 .. Len(ChunkOf(s)) :
         owner[ChunkOf(s)[i]] = r => \E k \in 1 .. Len(R) : R[k] = ChunkOf(s)[i]
  BY <1>8, <1>9, <1>10
<1>16. \A k, l \in 1 .. Len(R) : k # l /\ R[k] = R[l] =>
         \E s, t \in Rank : \E i \in 1 .. Len(ChunkOf(s)), j \in 1 .. Len(ChunkOf(t)) :
           <<s, i>> # <<t, j>> /\ ChunkOf(s)[i] = R[k] /\ ChunkOf(t)[j] = R[k]
  BY <1>8, <1>11
<1> QED BY <1>6, <1>13, <1>14, <1>15, <1>16

-----------------------------------------------------------------------------
\* read: the rank gets the chunk that was read for this iteration.
LEMMA ReadKeeps ==
  ASSUME TypeOK, NEW r \in Rank, LocalOf(r), Read(r)
  PROVE  TypeOK' /\ LocalOf(r)'
<1>0. /\ filled[r] \in Nat /\ block[r] \in Nat /\ loop[r] \in Nat /\ NumLoops \in Nat
      /\ ReadPosition(r) \in Nat /\ ReadPosition(r) = block[r] * Chunk /\ Chunk \in Nat /\ Chunk >= 1
      /\ pass[r] \in 1 .. 6 /\ request[r] \in Requests
  BY Facts
<1>1. /\ owner' = owner /\ inFile' = inFile /\ memory' = memory /\ data' = data
      /\ filled' = filled /\ maxSize' = maxSize /\ offset' = offset /\ buffer' = buffer
      /\ over' = over /\ pass' = pass /\ loop' = loop /\ recv' = recv /\ seen' = seen
      /\ pc[r] = "read" /\ loop[r] < NumLoops /\ pc' \in [Rank -> Looping \cup {"begin", "end"}]
  BY DEF Read, TypeOK, Looping
<1>2. /\ G(r)' = G(r) /\ NumEdges' = NumEdges /\ Edge' = Edge /\ NumLoops' = NumLoops
  BY <1>1, Same, SameLoops
<1>3. Late(r) <=> pass[r] > 3
  BY <1>1 DEF Late
<1>4. CASE HasChunk(r)
  <2> DEFINE p == ReadPosition(r)
             k == block[r] + 1
  <2>1. p < filled[r] /\ (block[r] = loop[r])
    BY <1>0, <1>1, <1>4 DEF HasChunk, LocalOf, Steps, Looping
  <2>2. k \in Nat /\ k * Chunk = p + Chunk
    <3>1. (block[r] + 1) * Chunk = block[r] * Chunk + Chunk
      BY <1>0, Products
    <3> QED BY <1>0, <3>1
  <2>3. /\ block'[r] = k /\ pc'[r] = "given" /\ block' \in [Rank -> Nat]
        /\ ~ memory[r] => Waited(request[r])
    <3>1. /\ block' = [block EXCEPT ![r] = @ + 1] /\ pc' = [pc EXCEPT ![r] = "given"]
          /\ ~ memory[r] => Waited(request[r])
      BY <1>4 DEF Read
    <3>2. block \in [Rank -> Nat] /\ pc \in [Rank -> Looping \cup {"begin", "end"}]
      BY DEF TypeOK
    <3> QED BY <3>1, <3>2
  <2>4. request' = IF ~ memory[r]
                   THEN [request EXCEPT ![r] = IF filled[r] > k * Chunk THEN IRead(r, k) ELSE Null]
                   ELSE request
    BY <1>4 DEF Read
  <2>5. request \in [Rank -> Requests]
    BY DEF TypeOK
  <2> HIDE DEF k
  <2>6. ReadPosition(r)' = p + Chunk
    BY <2>2, <2>3 DEF ReadPosition
  <2>7. Done(r)' = p /\ Done(r) = p /\ Source(r)' = Source(r) /\ Late(r)' = Late(r)
    BY <1>0, <1>1, <1>2, <1>3, <2>3, <2>6 DEF Done, Source, Late
  <2>8. Null \in Requests /\ Null.state = "null"
    BY DEF Null, Requests
  <2>9. /\ IRead(r, k) \in Requests /\ IRead(r, k).state = "pending"
        /\ IRead(r, k).from = k * Chunk
        /\ IRead(r, k).len = Least(filled[r] - k * Chunk, Chunk)
        /\ IRead(r, k).half = Half(k)
    BY <2>2, RequestType
  <2>10. request' \in [Rank -> Requests]
    BY <2>4, <2>5, <2>8, <2>9
  <2>11. \/ request'[r] = IRead(r, k) /\ ~ memory[r] /\ filled[r] > p + Chunk
         \/ request'[r] = Null /\ ~ memory[r] /\ filled[r] <= p + Chunk
         \/ request'[r] = request[r] /\ memory[r]
    BY <1>0, <2>2, <2>4, <2>5
  <2>12. TypeOK'
    BY <1>1, <1>2, <2>3, <2>10 DEF TypeOK
  <2>13. Sizes(r)'
    BY <1>1, <1>2, <2>3, <2>7 DEF LocalOf, Sizes
  <2>14. Steps(r)'
    <3>1. p \in Nat /\ Chunk \in Nat /\ k = loop[r] + 1 /\ p < filled[r] /\ k >= 1 /\ p + Chunk - Chunk = p /\ loop[r] <= NumLoops
      BY <1>0, <1>1, <2>1 DEF k
    <3> HIDE DEF p
    <3>2. /\ pc'[r] = "given" /\ block'[r] = k /\ loop'[r] = loop[r] /\ NumLoops' = NumLoops
          /\ filled'[r] = filled[r] /\ loop[r] < NumLoops /\ block'[r] = loop'[r] + 1
      BY <1>1, <1>2, <2>3, <3>1
    <3>3. ReadPosition(r)' - Chunk = p
      BY <2>6, <3>1
    <3> QED BY <3>1, <3>2, <3>3 DEF Steps
  <2>15. ReadsOK(r)'
    <3>1. CASE request'[r] = IRead(r, k) /\ ~ memory[r] /\ filled[r] > p + Chunk
      BY <1>1, <2>2, <2>3, <2>6, <2>9, <3>1 DEF ReadsOK
    <3>2. CASE request'[r] = Null /\ ~ memory[r] /\ filled[r] <= p + Chunk
      <4>1. ~ (p + Chunk < filled[r])
        BY <1>0, <3>2
      <4> HIDE DEF p
      <4> QED BY <1>1, <2>3, <2>6, <2>8, <3>2, <4>1 DEF ReadsOK
    <3>3. CASE request'[r] = request[r] /\ memory[r]
      BY <1>1, <2>3, <3>3 DEF ReadsOK, LocalOf
    <3> QED BY <2>11, <3>1, <3>2, <3>3
  <2>16. BuffersOK(r)'
    <3>1. request'[r].state # "done"
      BY <2>8, <2>9, <2>11 DEF LocalOf, ReadsOK
    <3>2. ASSUME ~ memory[r] PROVE buffer[r][Half(block[r])] = ChunkAt(r, block[r])
      <4>1. request[r].state \in {"pending", "done"}
        BY <1>1, <2>1, <3>2 DEF LocalOf, ReadsOK, Looping
      <4>2. request[r].state = "done"
        BY <2>3, <3>2, <4>1 DEF Waited
      <4> QED BY <4>2 DEF LocalOf, BuffersOK
    <3>3. block'[r] - 1 = block[r]
      BY <1>0, <2>3 DEF k
    <3>4. ChunkAt(r, block[r])' = ChunkAt(r, block[r])'
      OBVIOUS
    <3>5. ~ memory[r] => buffer'[r][Half(block'[r] - 1)] = ChunkAt(r, block[r])
      BY <1>1, <3>2, <3>3
    <3>6. SubSeq(Source(r)', (block'[r] - 1) * Chunk + 1, Least((block'[r] - 1) * Chunk + Chunk, filled'[r]))
          = ChunkAt(r, block[r])
      BY <1>1, <2>7, <3>3 DEF ChunkAt
    <3> QED BY <1>1, <3>1, <3>5, <3>6 DEF BuffersOK, ChunkAt, Least, Half
  <2>17. Unread(r)'
    <3>1. CASE pass[r] = 3
      <4>1. Behind(r) /\ \A i \in Done(r) + 1 .. filled[r] : data[r][i] = G(r)[i]
        BY <1>1, <3>1 DEF LocalOf, Unread, Looping
      <4>2. offset[r] <= p /\ (over[r] # <<>> => offset[r] = p)
        <5> HIDE DEF p
        <5>1. ~ (filled[r] <= p)
          BY <1>0, <2>1 DEF p
        <5> QED BY <1>1, <4>1, <5>1 DEF Behind, p
      <4>3. p + Chunk - Chunk = p /\ p \in Nat /\ Chunk \in Nat
        BY <1>0
      <4> HIDE DEF p
      <4>4. Behind(r)'
        <5>1. ReadPosition(r)' - Chunk = p
          BY <2>6, <4>3
        <5>2. pc'[r] = "given" /\ offset' = offset /\ over' = over
          BY <1>1, <2>3
        <5> QED BY <4>2, <5>1, <5>2 DEF Behind
      <4> QED BY <1>1, <1>2, <2>7, <4>1, <4>4 DEF Unread
    <3> QED BY <1>1, <3>1 DEF Unread
  <2>18. SeenOK(r)'
    BY <1>1, <2>3, <2>7 DEF LocalOf, SeenOK, Looping
  <2> QED BY <2>12, <2>13, <2>14, <2>15, <2>16, <2>17, <2>18 DEF LocalOf
<1>5. CASE ~ HasChunk(r)
  <2>1. pc'[r] = "empty" /\ block' = block /\ request' = request /\ filled[r] <= ReadPosition(r)
    BY <1>0, <1>5 DEF Read, TypeOK, HasChunk
  <2>2. ReadPosition(r)' = ReadPosition(r) /\ Done(r)' = Done(r) /\ Source(r)' = Source(r)
        /\ Late(r)' = Late(r) /\ Behind(r)'
    BY <1>1, <1>2, <1>3, <2>1 DEF Done, Source, ReadPosition, Late, Behind
  <2>3. TypeOK'
    BY <1>1, <1>2, <2>1 DEF TypeOK
  <2>4. Sizes(r)' /\ Steps(r)'
    BY <1>1, <1>2, <2>1, <2>2 DEF LocalOf, Sizes, Steps, Looping
  <2>5. ReadsOK(r)' /\ BuffersOK(r)'
    BY <1>0, <1>1, <2>1, <2>2 DEF LocalOf, ReadsOK, BuffersOK, Looping, ChunkAt
  <2>6. Unread(r)' /\ SeenOK(r)'
    BY <1>1, <1>2, <2>1, <2>2 DEF LocalOf, Unread, SeenOK, Looping
  <2> QED BY <2>3, <2>4, <2>5, <2>6 DEF LocalOf
<1> QED BY <1>4, <1>5

\* Adjacent parts of a sequence join.
LEMMA JoinParts ==
  ASSUME NEW S, NEW s \in Seq(S), NEW m \in Nat, NEW n \in Nat, m <= n, n <= Len(s)
  PROVE  /\ SubSeq(s, 1, m) \o SubSeq(s, m + 1, n) = SubSeq(s, 1, n)
         /\ SubSeq(s, 1, n) \in Seq(S) /\ SubSeq(s, m + 1, n) \in Seq(S)
<1> DEFINE a == SubSeq(s, 1, m)
           b == SubSeq(s, m + 1, n)
           c == SubSeq(s, 1, n)
<1>1. Len(s) \in Nat
  OBVIOUS
<1>2. a \in Seq(S) /\ Len(a) = m /\ \A i \in 1 .. m : a[i] = s[i]
  <2>1. 1 \in Nat /\ 1 >= 1 /\ m \in Int /\ m <= Len(s)
    BY <1>1
  <2>2. a \in Seq(S) /\ Len(a) = (IF 1 <= m THEN m - 1 + 1 ELSE 0)
        /\ \A i \in 1 .. m - 1 + 1 : a[i] = s[1 + i - 1]
    BY <2>1, PartOf
  <2> HIDE DEF a
  <2>3. m - 1 + 1 = m /\ \A i \in 1 .. m : 1 + i - 1 = i
    OBVIOUS
  <2> QED BY <2>2, <2>3
<1>3. c \in Seq(S) /\ Len(c) = n /\ \A i \in 1 .. n : c[i] = s[i]
  <2>1. 1 \in Nat /\ 1 >= 1 /\ n \in Int /\ n <= Len(s)
    BY <1>1
  <2>2. c \in Seq(S) /\ Len(c) = (IF 1 <= n THEN n - 1 + 1 ELSE 0)
        /\ \A i \in 1 .. n - 1 + 1 : c[i] = s[1 + i - 1]
    BY <2>1, PartOf
  <2> HIDE DEF c
  <2>3. n - 1 + 1 = n /\ \A i \in 1 .. n : 1 + i - 1 = i
    OBVIOUS
  <2> QED BY <2>2, <2>3
<1>4. b \in Seq(S) /\ Len(b) = n - m /\ \A i \in 1 .. n - m : b[i] = s[m + i]
  <2>1. m + 1 \in Nat /\ m + 1 >= 1 /\ n \in Int /\ n <= Len(s)
    BY <1>1
  <2>2. b \in Seq(S) /\ Len(b) = (IF m + 1 <= n THEN n - (m + 1) + 1 ELSE 0)
        /\ \A i \in 1 .. n - (m + 1) + 1 : b[i] = s[m + 1 + i - 1]
    BY <2>1, PartOf
  <2> HIDE DEF b
  <2>3. n - (m + 1) + 1 = n - m /\ \A i \in 1 .. n - m : m + 1 + i - 1 = m + i
    OBVIOUS
  <2> QED BY <2>2, <2>3
<1> HIDE DEF a, b, c
<1>5. /\ a \o b \in Seq(S) /\ Len(a \o b) = Len(a) + Len(b)
      /\ \A i \in 1 .. Len(a) + Len(b) : (a \o b)[i] = IF i <= Len(a) THEN a[i] ELSE b[i - Len(a)]
  BY <1>2, <1>4, ConcatProperties, ZenonT(60)
<1> DEFINE d == a \o b
<1> HIDE DEF d
<1>6. d \in Seq(S) /\ Len(d) = n
  BY <1>2, <1>4, <1>5 DEF d
<1>7. ASSUME NEW i \in 1 .. n PROVE d[i] = c[i]
  <2>1. CASE i <= m
    <3>1. i \in 1 .. m /\ i \in 1 .. Len(a) + Len(b) /\ i <= Len(a)
      BY <1>2, <1>4, <2>1
    <3>2. d[i] = a[i]
      BY <1>5, <3>1 DEF d
    <3> QED BY <1>2, <1>3, <3>1, <3>2
  <2>2. CASE ~ (i <= m)
    <3>1. i - m \in 1 .. n - m /\ i \in 1 .. Len(a) + Len(b) /\ ~ (i <= Len(a)) /\ m + (i - m) = i
      BY <1>2, <1>4, <2>2
    <3>2. d[i] = b[i - m]
      BY <1>2, <1>5, <3>1 DEF d
    <3> QED BY <1>3, <1>4, <3>1, <3>2
  <2> QED BY <2>1, <2>2
<1>8. d = c
  BY <1>3, <1>6, <1>7, SeqEqual
<1> QED BY <1>3, <1>4, <1>8 DEF a, b, c, d

-----------------------------------------------------------------------------
\* A chunk is a list of edges ...
LEMMA ChunkType ==
  ASSUME TypeOK, NEW r \in Rank, LocalOf(r)
  PROVE  ChunkOf(r) \in Seq(Edge)
<1>1. CASE pc[r] = "given"
  <2> DEFINE m == ReadPosition(r) - Chunk + 1
             n == Least(ReadPosition(r), filled[r])
  <2>1. /\ Given(r) = SubSeq(Source(r), m, n)
        /\ ReadPosition(r) - Chunk \in Nat /\ ReadPosition(r) - Chunk < filled[r]
        /\ filled[r] <= Len(Source(r))
    BY <1>1, GivenChunk
  <2>2. Source(r) \in Seq(Edge) /\ ReadPosition(r) \in Nat /\ filled[r] \in Nat
    BY Facts
  <2>3. m \in Nat /\ m >= 1 /\ n \in Int /\ n <= filled[r]
    BY <2>1, <2>2 DEF Least
  <2> HIDE DEF m, n
  <2>4. Len(Source(r)) \in Nat
    BY <2>2
  <2>5. n <= Len(Source(r))
    BY <2>1, <2>2, <2>3, <2>4
  <2>6. SubSeq(Source(r), m, n) \in Seq(Edge)
    BY <2>2, <2>3, <2>5, PartOf
  <2> QED BY <1>1, <2>1, <2>6 DEF ChunkOf
<1>2. CASE pc[r] # "given"
  BY <1>2 DEF ChunkOf
<1> QED BY <1>1, <1>2

\* What a pass has been given grows by the chunk.
LEMMA SeenGrows ==
  ASSUME TypeOK, NEW r \in Rank, LocalOf(r), pc[r] \in {"given", "empty"}, pass[r] # 3
  PROVE  seen[r] \o ChunkOf(r) = SubSeq(Source(r), 1, Least(ReadPosition(r), filled[r]))
<1> DEFINE p == ReadPosition(r)
           f == filled[r]
           s == Source(r)
<1>0. s \in Seq(Edge) /\ p \in Nat /\ f \in Nat /\ Chunk \in Nat /\ Chunk >= 1 /\ seen[r] \in Seq(Edge)
  BY Facts
<1>1. seen[r] = SubSeq(s, 1, Least(Done(r), f))
  BY DEF LocalOf, SeenOK, Looping
<1>2. CASE pc[r] = "given"
  <2>1. /\ Given(r) = SubSeq(s, p - Chunk + 1, Least(p, f))
        /\ p - Chunk \in Nat /\ p - Chunk < f /\ f <= Len(s)
    BY <1>2, GivenChunk
  <2>2. Done(r) = p - Chunk
    BY <1>2 DEF Done
  <2> DEFINE m == p - Chunk
             n == Least(p, f)
  <2> HIDE DEF p, f, s
  <2>3. Least(m, f) = m
    BY <1>0, <2>1 DEF Least
  <2>4. n \in Nat /\ m <= n /\ n <= f
    BY <1>0, <2>1 DEF Least
  <2>5. Len(s) \in Nat
    BY <1>0
  <2>6. m \in Nat /\ n \in Nat /\ m <= n /\ n <= Len(s)
    BY <1>0, <2>1, <2>4, <2>5
  <2>7. Given(r) = SubSeq(s, m + 1, n) /\ seen[r] = SubSeq(s, 1, m)
    BY <1>1, <2>1, <2>2, <2>3
  <2>8. ChunkOf(r) = Given(r)
    BY <1>2 DEF ChunkOf
  <2> HIDE DEF m, n
  <2>9. SubSeq(s, 1, m) \o SubSeq(s, m + 1, n) = SubSeq(s, 1, n)
    BY <1>0, <2>6, JoinParts
  <2> QED BY <2>7, <2>8, <2>9 DEF n, p, f, s
<1>3. CASE pc[r] = "empty"
  <2>1. ChunkOf(r) = <<>> /\ Done(r) = p
    BY <1>3 DEF ChunkOf, Done
  <2>2. seen[r] \o <<>> = seen[r]
    BY <1>0
  <2> QED BY <1>1, <2>1, <2>2
<1> QED BY <1>2, <1>3

\* A rank ends an iteration of a pass that does not write.
LEMMA NextLoop ==
  ASSUME TypeOK, NEW r \in Rank, LocalOf(r), pc[r] \in {"given", "empty"}, pass[r] # 3,
         owner' = owner, maxSize' = maxSize, data' = data, filled' = filled, memory' = memory,
         block' = block, request' = request, buffer' = buffer, offset' = offset, over' = over,
         pass' = pass, recv'[r] = <<>>, seen'[r] = seen[r] \o ChunkOf(r),
         pc'[r] = "read", loop'[r] = loop[r] + 1
  PROVE  LocalOf(r)'
<1>0. /\ filled[r] \in Nat /\ block[r] \in Nat /\ loop[r] \in Nat /\ NumLoops \in Nat
      /\ ReadPosition(r) \in Nat /\ pass[r] \in 1 .. 6
  BY Facts
<1>1. /\ G(r)' = G(r) /\ NumLoops' = NumLoops
  BY Same, SameLoops
<1>2. /\ ReadPosition(r)' = ReadPosition(r) /\ Source(r)' = Source(r)
      /\ Done(r)' = ReadPosition(r) /\ Late(r)' = Late(r)
  BY <1>1 DEF ReadPosition, Source, Done, Late
<1>3. Sizes(r)'
  BY <1>1, <1>2 DEF LocalOf, Sizes
<1>4. Steps(r)'
  <2>1. loop[r] < NumLoops /\ (filled[r] <= ReadPosition(r) \/ block[r] = loop[r] + 1)
    BY DEF LocalOf, Steps, Looping
  <2>2. loop[r] + 1 <= NumLoops
    BY <1>0, <2>1
  <2> QED BY <1>0, <1>1, <1>2, <2>1, <2>2 DEF Steps
<1>5. ReadsOK(r)'
  BY <1>2 DEF LocalOf, ReadsOK, Looping
<1>6. BuffersOK(r)'
  BY <1>2 DEF LocalOf, BuffersOK, ChunkAt
<1>7. Unread(r)'
  BY DEF Unread
<1>8. SeenOK(r)'
  BY <1>2, SeenGrows DEF SeenOK
<1> QED BY <1>3, <1>4, <1>5, <1>6, <1>7, <1>8 DEF LocalOf

\* ... and so is what a pass was given with it.
LEMMA JoinType ==
  ASSUME TypeOK, NEW r \in Rank, LocalOf(r)
  PROVE  seen[r] \o ChunkOf(r) \in Seq(Edge)
<1>1. seen[r] \in Seq(Edge) /\ ChunkOf(r) \in Seq(Edge)
  BY Facts, ChunkType
<1> QED BY <1>1

\* An iteration of a validation.
LEMMA LookKeeps ==
  ASSUME TypeOK, NEW r \in Rank, LocalOf(r), Look(r)
  PROVE  TypeOK' /\ LocalOf(r)'
<1>1. /\ pc[r] \in {"given", "empty"} /\ pass[r] \in 1 .. 6 /\ pass[r] # 6
  BY DEF Look, TypeOK, LocalOf, Sizes
<1>2. pass[r] > 3 /\ pass[r] # 3
  BY <1>1, PassKinds DEF Look
<1>3. /\ owner' = owner /\ inFile' = inFile /\ memory' = memory /\ data' = data
      /\ filled' = filled /\ maxSize' = maxSize /\ offset' = offset /\ over' = over
      /\ block' = block /\ request' = request /\ buffer' = buffer
      /\ pass' = pass /\ recv' = recv
      /\ pc' = [pc EXCEPT ![r] = "read"] /\ loop' = [loop EXCEPT ![r] = @ + 1]
      /\ seen' = [seen EXCEPT ![r] = seen[r] \o ChunkOf(r)]
  BY DEF Look, readVars
<1>4. TypeOK'
  <2>1. pc' \in [Rank -> Looping \cup {"begin", "end"}] /\ loop' \in [Rank -> Nat]
    BY <1>3 DEF TypeOK, Looping
  <2>2. seen' \in [Rank -> Seq(Edge)]
    BY <1>3, JoinType DEF TypeOK
  <2>3. NumEdges' = NumEdges /\ Edge' = Edge
    BY <1>3, Same
  <2> QED BY <1>3, <2>1, <2>2, <2>3 DEF TypeOK
<1>5. pc'[r] = "read" /\ loop'[r] = loop[r] + 1 /\ seen'[r] = seen[r] \o ChunkOf(r)
  BY <1>3 DEF TypeOK
<1>6. recv'[r] = <<>>
  BY <1>1, <1>3 DEF LocalOf, Sizes
<1>7. LocalOf(r)'
  BY <1>1, <1>2, <1>3, <1>5, <1>6, NextLoop
<1> QED BY <1>4, <1>7

\* The end of a pass without writing.
LEMMA LeaveLoopKeeps ==
  ASSUME TypeOK, NEW r \in Rank, LocalOf(r), LeaveLoop(r)
  PROVE  TypeOK' /\ LocalOf(r)'
<1>0. pass[r] \in 1 .. 6 /\ ReadPosition(r) \in Nat /\ filled[r] \in Nat
  BY Facts
<1>1. pc[r] = "read" /\ pass[r] # 3 /\ pass[r] # 6 /\ (loop[r] = NumLoops \/ pass[r] > 3)
  <2>1. pc[r] = "read" /\ pass[r] # 6
    BY DEF LeaveLoop, LocalOf, Sizes
  <2> QED BY <1>0, <2>1, PassKinds DEF LeaveLoop
<1>2. /\ owner' = owner /\ inFile' = inFile /\ memory' = memory /\ data' = data
      /\ filled' = filled /\ maxSize' = maxSize /\ offset' = offset /\ over' = over
      /\ block' = block /\ request' = request /\ buffer' = buffer
      /\ pass' = pass /\ recv' = recv /\ loop' = loop /\ seen' = seen
      /\ pc' = [pc EXCEPT ![r] = "end"]
  BY DEF LeaveLoop, readVars
<1>3. pc'[r] = "end" /\ pc' \in [Rank -> Looping \cup {"begin", "end"}]
  BY <1>2 DEF TypeOK
<1>4. /\ G(r)' = G(r) /\ NumLoops' = NumLoops /\ NumEdges' = NumEdges /\ Edge' = Edge
  BY <1>2, Same, SameLoops
<1>5. /\ ReadPosition(r)' = ReadPosition(r) /\ Source(r)' = Source(r)
      /\ Done(r)' = Done(r) /\ Late(r)' = Late(r)
  BY <1>0, <1>1, <1>2, <1>3, <1>4 DEF ReadPosition, Source, Done, Late
<1>6. TypeOK'
  BY <1>2, <1>3, <1>4 DEF TypeOK
<1>7. Sizes(r)'
  BY <1>0, <1>1, <1>2, <1>3, <1>4, <1>5 DEF LocalOf, Sizes
<1>8. Steps(r)'
  BY <1>0, <1>1, <1>2, <1>3, <1>4, <1>5 DEF LocalOf, Steps, Looping
<1>9. ReadsOK(r)'
  BY <1>1, <1>2, <1>3, <1>5 DEF LocalOf, ReadsOK, Looping
<1>10. BuffersOK(r)'
  BY <1>1, <1>2, <1>3, <1>5 DEF LocalOf, BuffersOK, ChunkAt
<1>11. Unread(r)'
  BY <1>1, <1>2 DEF Unread
<1>12. SeenOK(r)'
  BY <1>1, <1>2, <1>3, <1>5 DEF LocalOf, SeenOK, Looping
<1> QED BY <1>6, <1>7, <1>8, <1>9, <1>10, <1>11, <1>12 DEF LocalOf

\* What a scatter does to one rank.
LEMMA ScatterParts ==
  ASSUME TypeOK, Local, Scatter, NEW r \in Rank
  PROVE  /\ pc[r] \in {"given", "empty"} /\ pass[r] \in 1 .. 3
         /\ seen'[r] = seen[r] \o ChunkOf(r)
         /\ pass[r] = 3 => recv'[r] = Received(r) /\ pc'[r] = "write" /\ loop'[r] = loop[r]
         /\ pass[r] # 3 => recv'[r] = <<>> /\ pc'[r] = "read" /\ loop'[r] = loop[r] + 1
<1>1. /\ pc[r] \in {"given", "empty"} /\ pass[r] \in 1 .. 6 /\ pass[r] # 6 /\ ~ Checks(pass[r])
  BY DEF Scatter, TypeOK, Local, LocalOf, Sizes
<1>2. pass[r] \in 1 .. 3 /\ (Rewrites(pass[r]) <=> pass[r] = 3)
  BY <1>1, PassKinds
<1> QED BY <1>1, <1>2 DEF Scatter

\* A scatter, an iteration for all ranks.
LEMMA ScatterKeeps ==
  ASSUME TypeOK, Local, Scatter
  PROVE  TypeOK' /\ Local'
<1>1. /\ owner' = owner /\ inFile' = inFile /\ memory' = memory /\ data' = data
      /\ filled' = filled /\ maxSize' = maxSize /\ offset' = offset /\ over' = over
      /\ block' = block /\ request' = request /\ buffer' = buffer /\ pass' = pass
  BY DEF Scatter, readVars
<1>2. NumLoops' = NumLoops /\ NumEdges' = NumEdges /\ Edge' = Edge
  BY <1>1, Same, SameLoops
<1>3. \A r \in Rank : ChunkOf(r) \in Seq(Edge) /\ seen[r] \o ChunkOf(r) \in Seq(Edge)
  BY ChunkType, JoinType DEF Local
<1>4. \A r \in Rank : Received(r) \in Seq(Edge)
  BY <1>3, ReceivedList
<1>5. TypeOK'
  <2>1. seen' \in [Rank -> Seq(Edge)]
    BY <1>3 DEF Scatter
  <2>2. recv' \in [Rank -> Seq(Edge)]
    <3>1. <<>> \in Seq(Edge)
      OBVIOUS
    <3> QED BY <1>4, <3>1 DEF Scatter
  <2>3. pc' \in [Rank -> Looping \cup {"begin", "end"}]
    BY DEF Scatter, Looping
  <2>4. loop' \in [Rank -> Nat]
    BY DEF Scatter, TypeOK
  <2> QED BY <1>1, <1>2, <2>1, <2>2, <2>3, <2>4 DEF TypeOK
<1>6. ASSUME NEW r \in Rank PROVE LocalOf(r)'
  <2>1. /\ pc[r] \in {"given", "empty"} /\ pass[r] \in 1 .. 3
        /\ seen'[r] = seen[r] \o ChunkOf(r)
        /\ pass[r] = 3 => recv'[r] = Received(r) /\ pc'[r] = "write" /\ loop'[r] = loop[r]
        /\ pass[r] # 3 => recv'[r] = <<>> /\ pc'[r] = "read" /\ loop'[r] = loop[r] + 1
    BY ScatterParts
  <2>2. LocalOf(r)
    BY DEF Local
  <2>3. CASE pass[r] # 3
    BY <1>1, <2>1, <2>2, <2>3, NextLoop
  <2>4. CASE pass[r] = 3
    <3>0. /\ filled[r] \in Nat /\ block[r] \in Nat /\ loop[r] \in Nat /\ NumLoops \in Nat
          /\ ReadPosition(r) \in Nat /\ Chunk \in Nat
      BY Facts
    <3>1. pc'[r] = "write" /\ loop'[r] = loop[r] /\ G(r)' = G(r)
      BY <1>1, <2>1, <2>4, Same
    <3>2. /\ ReadPosition(r)' = ReadPosition(r) /\ Source(r)' = Source(r)
          /\ Done(r)' = ReadPosition(r) /\ Late(r)' = Late(r)
      BY <1>1, <2>1, <2>4, <3>1 DEF ReadPosition, Source, Done, Late
    <3>3. Sizes(r)'
      BY <1>1, <2>1, <2>2, <2>4, <3>1, <3>2 DEF LocalOf, Sizes
    <3>4. Steps(r)'
      <4>1. loop[r] < NumLoops /\ (filled[r] <= ReadPosition(r) \/ block[r] = loop[r] + 1)
        BY <2>1, <2>2 DEF LocalOf, Steps, Looping
      <4> QED BY <1>1, <1>2, <3>0, <3>1, <3>2, <4>1 DEF Steps
    <3>5. ReadsOK(r)'
      BY <1>1, <2>1, <2>2, <3>1, <3>2 DEF LocalOf, ReadsOK, Looping
    <3>6. BuffersOK(r)'
      BY <1>1, <2>2, <3>1, <3>2 DEF LocalOf, BuffersOK, ChunkAt
    <3>7. Unread(r)'
      <4>1. Behind(r) /\ \A i \in Done(r) + 1 .. filled[r] : data[r][i] = G(r)[i]
        BY <2>1, <2>2, <2>4 DEF LocalOf, Unread, Looping
      <4>2. Behind(r)'
        <5>1. CASE filled[r] <= ReadPosition(r)
          BY <1>1, <3>2, <5>1 DEF Behind
        <5>2. CASE ~ (filled[r] <= ReadPosition(r))
          <6>1. pc[r] = "given"
            BY <2>1, <2>2, <5>2 DEF LocalOf, Steps
          <6> QED BY <1>1, <3>1, <3>2, <4>1, <5>2, <6>1 DEF Behind
        <5> QED BY <5>1, <5>2
      <4>3. Done(r) \in Int /\ Done(r) <= ReadPosition(r)
        BY <3>0 DEF Done
      <4>4. \A i \in ReadPosition(r) + 1 .. filled[r] : data[r][i] = G(r)[i]
        BY <3>0, <4>1, <4>3
      <4> QED BY <1>1, <3>1, <3>2, <4>2, <4>4 DEF Unread
    <3>8. SeenOK(r)'
      BY <1>1, <2>4 DEF SeenOK
    <3> QED BY <3>3, <3>4, <3>5, <3>6, <3>7, <3>8 DEF LocalOf
  <2> QED BY <2>3, <2>4
<1> QED BY <1>5, <1>6 DEF Local

-----------------------------------------------------------------------------
\* The two parts that a cut leaves.
LEMMA PrefixOf ==
  ASSUME NEW S, NEW s \in Seq(S), NEW n \in Nat, n <= Len(s)
  PROVE  /\ SubSeq(s, 1, n) \in Seq(S) /\ Len(SubSeq(s, 1, n)) = n
         /\ SubSeq(s, n + 1, Len(s)) \in Seq(S) /\ Len(SubSeq(s, n + 1, Len(s))) = Len(s) - n
OBVIOUS

\* The length of a join.
LEMMA JoinLength ==
  ASSUME NEW S, NEW s \in Seq(S), NEW t \in Seq(S)
  PROVE  s \o t \in Seq(S) /\ Len(s \o t) = Len(s) + Len(t)
BY ConcatProperties

\* The sizes of a write: how much of the buffer and of the new edges it
\* stores, and how much is left.
LEMMA WriteSizes ==
  ASSUME TypeOK, NEW r \in Rank, LocalOf(r), pc[r] = "write"
  PROVE  LET d     == Drain(r)
             first == offset[r] + d
             n     == Direct(r, first, Len(recv[r]))
             out   == SubSeq(over[r], 1, d) \o SubSeq(recv[r], 1, n)
             rest  == SubSeq(over[r], d + 1, Len(over[r])) \o SubSeq(recv[r], n + 1, Len(recv[r]))
         IN /\ d \in Nat /\ d <= Len(over[r]) /\ (d = Len(over[r]) \/ d = Chunk)
            /\ d <= Chunk
            /\ first \in Nat /\ n \in Nat /\ n <= Len(recv[r])
            /\ first <= ReadPosition(r) =>
                 first + n <= ReadPosition(r) /\ (n = Len(recv[r]) \/ first + n = ReadPosition(r))
            /\ out \in Seq(Edge) /\ Len(out) = d + n
            /\ rest \in Seq(Edge) /\ Len(rest) = Len(over[r]) - d + (Len(recv[r]) - n)
<1> DEFINE d == Drain(r)
           first == offset[r] + d
           k == Len(recv[r])
           n == Direct(r, first, k)
           a == SubSeq(over[r], 1, d)
           b == SubSeq(recv[r], 1, n)
           x == SubSeq(over[r], d + 1, Len(over[r]))
           y == SubSeq(recv[r], n + 1, Len(recv[r]))
           p == ReadPosition(r)
<1>0. /\ over[r] \in Seq(Edge) /\ recv[r] \in Seq(Edge) /\ Len(over[r]) \in Nat /\ k \in Nat
      /\ offset[r] \in Nat /\ p \in Nat /\ Chunk \in Nat /\ Chunk >= 1
  BY Facts
<1>1. d \in Nat /\ d <= Len(over[r]) /\ (d = Len(over[r]) \/ d = Chunk) /\ d <= Chunk
  BY <1>0 DEF Drain, Least
<1> HIDE DEF d
<1>2. first \in Nat
  BY <1>0, <1>1
<1> HIDE DEF first
<1>3. n = IF first + k <= p THEN k ELSE IF first <= p THEN p - first ELSE 0
  BY DEF Direct
<1> HIDE DEF n, k, p
<1>4. n \in Nat /\ n <= k /\ (first <= p => first + n <= p /\ (n = k \/ first + n = p))
  BY <1>0, <1>2, <1>3
<1>5. /\ a \in Seq(Edge) /\ Len(a) = d
      /\ x \in Seq(Edge) /\ Len(x) = Len(over[r]) - d
  BY <1>0, <1>1, PrefixOf
<1>6. /\ b \in Seq(Edge) /\ Len(b) = n
      /\ y \in Seq(Edge) /\ Len(y) = Len(recv[r]) - n
  BY <1>0, <1>4, PrefixOf DEF k
<1> HIDE DEF a, b, x, y
<1>7. a \o b \in Seq(Edge) /\ Len(a \o b) = d + n
  <2>1. a \o b \in Seq(Edge) /\ Len(a \o b) = Len(a) + Len(b)
    BY <1>5, <1>6, JoinLength
  <2> QED BY <1>5, <1>6, <2>1
<1>8. x \o y \in Seq(Edge) /\ Len(x \o y) = Len(over[r]) - d + (Len(recv[r]) - n)
  <2>1. x \o y \in Seq(Edge) /\ Len(x \o y) = Len(x) + Len(y)
    BY <1>5, <1>6, JoinLength
  <2> QED BY <1>5, <1>6, <2>1
<1> QED BY <1>1, <1>2, <1>4, <1>7, <1>8 DEF a, b, x, y, n, k, p, first, d

\* write: neither the drained part of the buffer nor the new edges go beyond
\* the read position.
LEMMA WriteKeeps ==
  ASSUME TypeOK, NEW r \in Rank, LocalOf(r), Write(r)
  PROVE  TypeOK' /\ LocalOf(r)'
<1> DEFINE d == Drain(r)
           first == offset[r] + d
           n == Direct(r, first, Len(recv[r]))
           out == SubSeq(over[r], 1, d) \o SubSeq(recv[r], 1, n)
           rest == SubSeq(over[r], d + 1, Len(over[r])) \o SubSeq(recv[r], n + 1, Len(recv[r]))
           p == ReadPosition(r)
<1>0. /\ filled[r] \in Nat /\ block[r] \in Nat /\ loop[r] \in Nat /\ NumLoops \in Nat
      /\ p \in Nat /\ Chunk \in Nat /\ Chunk >= 1 /\ offset[r] \in Nat
      /\ data[r] \in Seq(Edge) /\ Len(data[r]) \in Nat
      /\ over[r] \in Seq(Edge) /\ Len(over[r]) \in Nat /\ Len(recv[r]) \in Nat
  BY Facts
<1>1. /\ pc[r] = "write" /\ pass[r] = 3 /\ offset[r] <= Len(data[r]) /\ filled[r] <= Len(data[r])
      /\ ~ Late(r)
  BY DEF Write, LocalOf, Sizes, Late
<1>2. /\ d \in Nat /\ d <= Len(over[r]) /\ (d = Len(over[r]) \/ d = Chunk) /\ d <= Chunk
      /\ first \in Nat /\ n \in Nat /\ n <= Len(recv[r])
      /\ first <= p => first + n <= p /\ (n = Len(recv[r]) \/ first + n = p)
      /\ out \in Seq(Edge) /\ Len(out) = d + n
      /\ rest \in Seq(Edge) /\ Len(rest) = Len(over[r]) - d + (Len(recv[r]) - n)
  BY <1>1, WriteSizes
<1>3. /\ data' = [data EXCEPT ![r] = Stored(data[r], offset[r], out)]
      /\ offset' = [offset EXCEPT ![r] = first + n]
      /\ over' = [over EXCEPT ![r] = rest]
      /\ recv' = [recv EXCEPT ![r] = <<>>]
      /\ loop' = [loop EXCEPT ![r] = loop[r] + 1]
      /\ pc' = [pc EXCEPT ![r] = "read"]
      /\ owner' = owner /\ inFile' = inFile /\ memory' = memory /\ filled' = filled
      /\ maxSize' = maxSize /\ block' = block /\ request' = request /\ buffer' = buffer
      /\ pass' = pass /\ seen' = seen
  BY DEF Write, readVars
<1>4. /\ Stored(data[r], offset[r], out) \in Seq(Edge)
      /\ Len(Stored(data[r], offset[r], out)) =
           IF Len(data[r]) <= offset[r] + Len(out) THEN offset[r] + Len(out) ELSE Len(data[r])
      /\ \A i \in offset[r] + Len(out) + 1 .. Len(data[r]) :
           Stored(data[r], offset[r], out)[i] = data[r][i]
  <2> HIDE DEF out
  <2>1. data[r] \in Seq(Edge) /\ out \in Seq(Edge) /\ offset[r] \in Nat /\ offset[r] <= Len(data[r])
    BY <1>0, <1>1, <1>2
  <2> DEFINE s == data[r]
             w == offset[r]
  <2> HIDE DEF s, w
  <2>2. s \in Seq(Edge) /\ w \in Nat /\ w <= Len(s)
    BY <2>1 DEF s, w
  <2>3. /\ Stored(s, w, out) \in Seq(Edge)
        /\ Len(Stored(s, w, out)) = IF Len(s) <= w + Len(out) THEN w + Len(out) ELSE Len(s)
        /\ \A i \in w + Len(out) + 1 .. Len(s) : Stored(s, w, out)[i] = s[i]
    BY <2>1, <2>2, StoredParts
  <2> QED BY <2>3 DEF s, w
<1> HIDE DEF n, d, out, rest
<1>5. /\ data'[r] = Stored(data[r], offset[r], out) /\ offset'[r] = first + n /\ over'[r] = rest
      /\ recv'[r] = <<>> /\ loop'[r] = loop[r] + 1 /\ pc'[r] = "read"
  BY <1>3 DEF TypeOK
<1>6. first + n = offset[r] + Len(out)
  BY <1>0, <1>2, SMTT(30)
<1>7. TypeOK'
  <2>1. data' \in [Rank -> Seq(Edge)] /\ over' \in [Rank -> Seq(Edge)]
    <3>1. Stored(data[r], offset[r], out) \in Seq(Edge) /\ rest \in Seq(Edge)
      BY <1>2, <1>4
    <3>2. data \in [Rank -> Seq(Edge)] /\ over \in [Rank -> Seq(Edge)]
      BY DEF TypeOK
    <3>3. data' \in [Rank -> Seq(Edge)]
      BY <1>3, <3>1, <3>2
    <3>4. over' \in [Rank -> Seq(Edge)]
      BY <1>3, <3>1, <3>2
    <3> QED BY <3>3, <3>4
  <2>2. offset' \in [Rank -> Nat]
    <3>1. first + n \in Nat
      BY <1>2
    <3>2. offset' = [offset EXCEPT ![r] = first + n] /\ offset \in [Rank -> Nat]
      BY <1>3 DEF TypeOK
    <3> HIDE DEF first
    <3> QED BY <3>1, <3>2
  <2>3. recv' \in [Rank -> Seq(Edge)]
    <3>1. <<>> \in Seq(Edge)
      OBVIOUS
    <3> QED BY <1>3, <3>1 DEF TypeOK
  <2>4. loop' \in [Rank -> Nat] /\ pc' \in [Rank -> Looping \cup {"begin", "end"}]
    BY <1>3 DEF TypeOK, Looping
  <2>5. NumEdges' = NumEdges /\ Edge' = Edge
    BY <1>3, Same
  <2> QED BY <1>3, <2>1, <2>2, <2>3, <2>4, <2>5 DEF TypeOK
<1>8. /\ G(r)' = G(r) /\ NumLoops' = NumLoops
  BY <1>3, Same, SameLoops
<1>9. /\ ReadPosition(r)' = p /\ Source(r) = G(r) /\ Source(r)' = G(r)
      /\ Done(r)' = p /\ Done(r) = p /\ ~ Late(r)'
  BY <1>1, <1>3, <1>5, <1>8 DEF ReadPosition, Source, Done, Late
<1>10. Sizes(r)'
  <2>1. offset'[r] <= Len(data'[r]) /\ filled[r] <= Len(data'[r])
    <3> DEFINE t == Stored(data[r], offset[r], out)
               w == offset[r] + Len(out)
    <3>1. Len(t) = (IF Len(data[r]) <= w THEN w ELSE Len(data[r])) /\ w \in Nat
      <4>1. Len(out) \in Nat
        BY <1>2
      <4> QED BY <1>0, <1>4, <4>1
    <3> HIDE DEF t, w
    <3>2. w <= Len(t) /\ filled[r] <= Len(t)
      BY <1>0, <1>1, <3>1
    <3> QED BY <1>5, <1>6, <3>2 DEF t, w
  <2> QED BY <1>1, <1>3, <1>5, <1>8, <1>9, <2>1 DEF LocalOf, Sizes
<1>11. Steps(r)'
  <2>1. loop[r] < NumLoops /\ (filled[r] <= p \/ block[r] = loop[r] + 1)
    BY <1>1 DEF LocalOf, Steps, Looping
  <2> QED BY <1>0, <1>1, <1>3, <1>5, <1>8, <1>9, <2>1 DEF Steps
<1>12. ReadsOK(r)'
  BY <1>1, <1>3, <1>5, <1>9 DEF LocalOf, ReadsOK, Looping
<1>13. BuffersOK(r)'
  BY <1>1, <1>3, <1>5, <1>9 DEF LocalOf, BuffersOK, ChunkAt
<1>14. Unread(r)'
  <2>1. Behind(r) /\ \A i \in p + 1 .. filled[r] : data[r][i] = G(r)[i]
    BY <1>1, <1>9 DEF LocalOf, Unread, Looping
  <2>2. CASE filled[r] <= p
    <3>1. Behind(r)'
      BY <1>3, <1>9, <2>2 DEF Behind
    <3>2. \A i \in p + 1 .. filled[r] : FALSE
      BY <1>0, <2>2
    <3> QED BY <1>3, <1>9, <3>1, <3>2 DEF Unread
  <2>3. CASE ~ (filled[r] <= p)
    <3>1. offset[r] <= p - Chunk /\ (over[r] # <<>> => offset[r] = p - Chunk)
      BY <1>1, <2>1, <2>3 DEF Behind
    <3>2. over[r] = <<>> <=> Len(over[r]) = 0
      BY <1>0
    <3>3. rest = <<>> <=> Len(rest) = 0
      <4>1. rest \in Seq(Edge)
        BY <1>2
      <4> QED BY <4>1
    <3>4. first + n <= p /\ (Len(rest) # 0 => first + n = p)
      <4>1. first <= p
        BY <1>0, <1>2, <3>1
      <4>2. CASE n = Len(recv[r])
        <5>1. CASE d = Len(over[r])
          BY <1>0, <1>2, <4>1, <4>2, <5>1
        <5>2. CASE d # Len(over[r])
          <6>1. d = Chunk /\ offset[r] = p - Chunk
            BY <1>0, <1>2, <3>1, <3>2, <5>2
          <6>2. first = p
            BY <1>0, <6>1
          <6>3. first + n <= p /\ first \in Nat /\ n \in Nat
            BY <1>2, <4>1
          <6> HIDE DEF first, p
          <6> QED BY <6>2, <6>3
        <5> QED BY <5>1, <5>2
      <4>3. CASE first + n = p
        BY <1>0, <4>3
      <4> QED BY <1>2, <4>1, <4>2, <4>3
    <3>5. Behind(r)'
      BY <1>5, <1>9, <3>3, <3>4 DEF Behind
    <3>6. \A i \in p + 1 .. filled[r] : i \in offset[r] + Len(out) + 1 .. Len(data[r])
      <4>1. offset[r] + Len(out) <= p /\ offset[r] + Len(out) \in Nat
        BY <1>0, <1>2, <1>6, <3>4
      <4> QED BY <1>0, <1>1, <4>1
    <3>7. \A i \in p + 1 .. filled[r] : data'[r][i] = G(r)[i]
      BY <1>4, <1>5, <2>1, <3>6
    <3> QED BY <1>3, <1>8, <1>9, <3>5, <3>7 DEF Unread
  <2> QED BY <2>2, <2>3
<1>15. SeenOK(r)'
  BY <1>1, <1>3 DEF SeenOK
<1> QED BY <1>7, <1>10, <1>11, <1>12, <1>13, <1>14, <1>15 DEF LocalOf

-----------------------------------------------------------------------------
\* When a pass has made all its iterations, every rank has read its list.
LEMMA AllRead ==
  ASSUME TypeOK, NEW r \in Rank, LocalOf(r), pc[r] = "read", loop[r] = NumLoops,
         filled[r] <= maxSize
  PROVE  filled[r] <= ReadPosition(r)
<1>1. /\ filled[r] \in Nat /\ ReadPosition(r) \in Nat /\ ReadPosition(r) = block[r] * Chunk
      /\ maxSize \in Nat /\ NumLoops \in Nat
  BY Facts
<1>2. filled[r] <= ReadPosition(r) \/ block[r] = NumLoops
  BY <1>1, Facts DEF LocalOf, Steps, Looping
<1>3. maxSize <= NumLoops * Chunk
  BY <1>1, LoopsCover
<1>4. CASE block[r] = NumLoops
  <2>1. ReadPosition(r) = NumLoops * Chunk
    BY <1>1, <1>4
  <2> QED BY <1>1, <1>3, <2>1
<1> QED BY <1>2, <1>4

\* endWrite: no read is outstanding, and the new sizes bound the iterations.
LEMMA EndWriteKeeps ==
  ASSUME TypeOK, Local, EndWrite
  PROVE  TypeOK' /\ Local'
<1>1. /\ owner' = owner /\ inFile' = inFile /\ memory' = memory /\ data' = data
      /\ offset' = offset /\ over' = over /\ block' = block /\ request' = request
      /\ buffer' = buffer /\ pass' = pass /\ loop' = loop /\ recv' = recv /\ seen' = seen
  BY DEF EndWrite, readVars
<1>2. NumEdges' = NumEdges /\ Edge' = Edge
  BY <1>1, Same
<1>3. \A r \in Rank : pc[r] = "read" /\ loop[r] = NumLoops /\ pass[r] = 3
  <2> TAKE r \in Rank
  <2>1. pc[r] = "read" /\ loop[r] = NumLoops /\ Rewrites(pass[r])
    BY DEF EndWrite
  <2>2. pass[r] \in 1 .. 6 /\ pass[r] # 6
    BY <2>1 DEF TypeOK, Local, LocalOf, Sizes
  <2> QED BY <2>1, <2>2, PassKinds
<1>4. \A r \in Rank : Len(over[r]) \in Nat /\ offset[r] \in Nat /\ filled[r] \in Nat
  BY Facts
<1> DEFINE f == [r \in Rank |-> Written(r)]
<1>5. f \in [Rank -> Nat] /\ \A r \in Rank : f[r] = offset[r] + Len(over[r])
  BY <1>4 DEF Written
<1>6. maxSize' = LargestOf({f[r] : r \in Rank})
  <2>1. {f[r] : r \in Rank} = {Written(r) : r \in Rank}
    OBVIOUS
  <2> QED BY <2>1 DEF EndWrite
<1> HIDE DEF f
<1>7. maxSize' \in Nat /\ \A r \in Rank : f[r] <= maxSize'
  BY <1>5, <1>6, LargestRank
<1>8. filled' \in [Rank -> Nat] /\ \A r \in Rank : filled'[r] = FilledAfter(r)
  BY <1>4 DEF EndWrite, FilledAfter
<1>9. pc' \in [Rank -> Looping \cup {"begin", "end"}] /\ \A r \in Rank : pc'[r] = "end"
  BY DEF EndWrite
<1>10. TypeOK'
  BY <1>1, <1>2, <1>7, <1>8, <1>9 DEF TypeOK
<1>11. ASSUME NEW r \in Rank PROVE LocalOf(r)'
  <2>1. pc'[r] = "end" /\ pass'[r] = 3 /\ pc[r] = "read" /\ pass[r] = 3
    BY <1>1, <1>3, <1>9
  <2>2. LocalOf(r)
    BY DEF Local
  <2>3. filled[r] <= ReadPosition(r)
    <3>1. filled[r] <= maxSize
      BY <1>3, <2>2 DEF LocalOf, Sizes, Late
    <3> QED BY <1>3, <2>2, <3>1, AllRead
  <2>4. Late(r)'
    BY <2>1 DEF Late
  <2>5. Sizes(r)'
    BY <1>1, <1>3, <1>4, <1>5, <1>7, <1>8, <2>1, <2>2, <2>4 DEF LocalOf, Sizes, FilledAfter
  <2>6. Steps(r)'
    BY <2>1 DEF Steps, Looping
  <2>7. request'[r].state \notin {"pending", "done"}
    <3>1. filled[r] \in Nat /\ ReadPosition(r) \in Nat
      BY Facts
    <3> QED BY <1>1, <2>2, <2>3, <3>1 DEF LocalOf, ReadsOK
  <2>8. ReadsOK(r)'
    BY <2>1, <2>7 DEF ReadsOK, Looping
  <2>9. BuffersOK(r)'
    BY <2>1, <2>7 DEF BuffersOK
  <2>10. Unread(r)' /\ SeenOK(r)'
    BY <2>1 DEF Unread, SeenOK, Looping
  <2> QED BY <2>5, <2>6, <2>8, <2>9, <2>10 DEF LocalOf
<1> QED BY <1>10, <1>11 DEF Local

\* endRead: the buffer is flushed behind the list, which by now has been read.
LEMMA EndReadKeeps ==
  ASSUME TypeOK, NEW r \in Rank, LocalOf(r), EndRead(r)
  PROVE  TypeOK' /\ LocalOf(r)'
<1> DEFINE s == data[r]
           w == offset[r]
           e == over[r]
           t == Stored(s, w, e)
<1>0. /\ filled[r] \in Nat /\ w \in Nat /\ s \in Seq(Edge) /\ e \in Seq(Edge)
      /\ Len(s) \in Nat /\ Len(e) \in Nat /\ ReadPosition(r) \in Nat /\ maxSize \in Nat
      /\ request[r] \in Requests /\ Len(G(r)) \in Nat
  BY Facts
<1>1. /\ pc[r] = "end" /\ pass[r] \in 1 .. 5
      /\ data' = [data EXCEPT ![r] = t] /\ offset' = [offset EXCEPT ![r] = w + Len(e)]
      /\ over' = [over EXCEPT ![r] = <<>>]
      /\ pass' = [pass EXCEPT ![r] = pass[r] + 1] /\ pc' = [pc EXCEPT ![r] = "begin"]
      /\ owner' = owner /\ inFile' = inFile /\ memory' = memory /\ maxSize' = maxSize
      /\ block' = block /\ buffer' = buffer /\ loop' = loop /\ recv' = recv /\ seen' = seen
  <2>1. pc[r] = "end" /\ pass[r] \in 1 .. 6 /\ pass[r] # 6
    BY DEF EndRead, LocalOf, Sizes, TypeOK
  <2> QED BY <2>1 DEF EndRead
<1>2. /\ w <= Len(s) /\ filled[r] <= Len(s) /\ (pass[r] # 3 => e = <<>>)
      /\ pass[r] # 3 /\ ~ (pass[r] > 3) => filled[r] = Len(G(r)) /\ filled[r] <= maxSize /\ s = G(r) /\ w = Len(s)
      /\ pass[r] = 3 => w + Len(e) <= maxSize /\ (e = <<>> => filled[r] = w)
      /\ pass[r] > 3 => filled[r] = w /\ filled[r] <= maxSize
      /\ recv[r] = <<>>
  BY <1>1 DEF LocalOf, Sizes, Late
<1> HIDE DEF s, w, e
<1>3. t \in Seq(Edge) /\ Len(t) = IF Len(s) <= w + Len(e) THEN w + Len(e) ELSE Len(s)
  <2>1. w <= Len(s)
    BY <1>2
  <2> QED BY <1>0, <2>1, StoredParts
<1>4. e = <<>> => t = s
  BY <1>0, <1>2, StoredNothing
<1> HIDE DEF t
<1>5. e = <<>> <=> Len(e) = 0
  BY <1>0
<1>6. /\ data'[r] = t /\ offset'[r] = w + Len(e) /\ over'[r] = <<>>
      /\ pass'[r] = pass[r] + 1 /\ pc'[r] = "begin"
  BY <1>1 DEF TypeOK
<1>7. filled' \in [Rank -> Nat] /\ filled'[r] = IF e # <<>> THEN w + Len(e) ELSE filled[r]
  <2>1. filled' = IF e # <<>> THEN [filled EXCEPT ![r] = w + Len(e)] ELSE filled
    BY <1>6 DEF EndRead, e
  <2>2. filled \in [Rank -> Nat] /\ w + Len(e) \in Nat
    BY <1>0 DEF TypeOK
  <2> QED BY <2>1, <2>2
<1>8. request' \in [Rank -> Requests] /\ request'[r].state \notin {"pending", "done"}
  <2>1. request \in [Rank -> Requests] /\ Null \in Requests /\ Null.state = "null"
    BY DEF TypeOK, Null, Requests
  <2>2. CASE MustWait(r)
    BY <2>1, <2>2 DEF EndRead
  <2>3. CASE ~ MustWait(r)
    <3>1. request' = request /\ (memory[r] \/ ~ (filled[r] > ReadPosition(r)))
      BY <2>3 DEF EndRead, MustWait, HasChunk
    <3>2. request[r].state \notin {"pending", "done"}
      BY <1>0, <3>1 DEF LocalOf, ReadsOK
    <3> QED BY <2>1, <3>1, <3>2
  <2> QED BY <2>2, <2>3
<1>9. /\ G(r)' = G(r) /\ NumEdges' = NumEdges /\ Edge' = Edge
  BY <1>1, Same
<1>10. TypeOK'
  <2>1. data' \in [Rank -> Seq(Edge)]
    BY <1>1, <1>3 DEF TypeOK
  <2>2. over' \in [Rank -> Seq(Edge)]
    <3>1. <<>> \in Seq(Edge)
      OBVIOUS
    <3> QED BY <1>1, <3>1 DEF TypeOK
  <2>3. offset' \in [Rank -> Nat]
    <3>1. w + Len(e) \in Nat
      BY <1>0
    <3> QED BY <1>1, <3>1 DEF TypeOK
  <2>4. pass' \in [Rank -> 1 .. 6]
    <3>1. pass[r] + 1 \in 1 .. 6
      BY <1>1
    <3> QED BY <1>1, <3>1 DEF TypeOK
  <2>5. pc' \in [Rank -> Looping \cup {"begin", "end"}]
    BY <1>1 DEF TypeOK
  <2> QED BY <1>1, <1>7, <1>8, <1>9, <2>1, <2>2, <2>3, <2>4, <2>5 DEF TypeOK
<1>11. Late(r)' <=> pass[r] > 2
  BY <1>1, <1>6 DEF Late
<1>12. Sizes(r)'
  <2>1. w + Len(e) <= Len(t) /\ filled'[r] <= Len(t)
    BY <1>0, <1>2, <1>3, <1>7
  <2>2. pass[r] <= 2 => /\ filled'[r] = Len(G(r)) /\ filled'[r] <= maxSize
                        /\ t = G(r) /\ w + Len(e) = Len(t)
    BY <1>0, <1>1, <1>2, <1>4, <1>5, <1>7
  <2>3. pass[r] > 2 => filled'[r] = w + Len(e) /\ filled'[r] <= maxSize
    BY <1>0, <1>1, <1>2, <1>5, <1>7
  <2> QED BY <1>1, <1>2, <1>6, <1>9, <1>11, <2>1, <2>2, <2>3 DEF Sizes
<1>13. Steps(r)'
  BY <1>6 DEF Steps, Looping
<1>14. ReadsOK(r)'
  BY <1>6, <1>8 DEF ReadsOK, Looping
<1>15. BuffersOK(r)' /\ Unread(r)' /\ SeenOK(r)'
  BY <1>6, <1>8 DEF BuffersOK, Unread, SeenOK, Looping
<1> QED BY <1>10, <1>12, <1>13, <1>14, <1>15 DEF LocalOf

\* The generated lists satisfy the invariant.
LEMMA LocalInit ==
  ASSUME Init
  PROVE  TypeOK /\ Local
<1>1. PICK n \in Totals : /\ owner \in [1 .. n -> Rank]
                          /\ data = [r \in Rank |-> Generated(n, r)]
  BY DEF Init
<1>2. n \in Nat
  BY EdgeStorageAssumption
<1>3. Edge = 1 .. n
  BY <1>1 DEF Edge
<1>4. NumEdges = n
  <2>1. Cardinality(1 .. n) = n
    BY <1>2, FS_Interval
  <2> QED BY <1>3, <2>1 DEF NumEdges
<1>5. \A r \in Rank : G(r) \in Seq(Edge) /\ Len(G(r)) \in Nat /\ data[r] = G(r)
  BY <1>1, <1>2, <1>3, <1>4, GeneratedList DEF G
<1>6. filled \in [Rank -> Nat] /\ \A r \in Rank : filled[r] = Len(data[r])
  BY <1>5 DEF Init
<1>7. maxSize \in Nat /\ \A r \in Rank : filled[r] <= maxSize
  <2>1. {Len(data[r]) : r \in Rank} = {filled[r] : r \in Rank}
    BY <1>6
  <2>2. maxSize = LargestOf({filled[r] : r \in Rank})
    BY <2>1 DEF Init
  <2> QED BY <1>6, <2>2, LargestRank
<1>8. TypeOK
  <2>1. <<>> \in Seq(Edge)
    OBVIOUS
  <2>2. Unset \in Requests
    BY DEF Unset, Requests
  <2>3. data \in [Rank -> Seq(Edge)] /\ offset \in [Rank -> Nat]
    BY <1>1, <1>5 DEF Init
  <2>4. buffer \in [Rank -> [1 .. 2 -> Seq(Edge)]]
    <3>1. ASSUME NEW S, NEW a \in S PROVE <<a, a>> \in [1 .. 2 -> S]
      OBVIOUS
    <3>2. <<<<>>, <<>>>> \in [1 .. 2 -> Seq(Edge)]
      BY <2>1, <3>1
    <3> QED BY <3>2 DEF Init
  <2>5. owner \in [1 .. NumEdges -> Rank] /\ NumEdges \in Nat
    BY <1>1, <1>2, <1>4
  <2>6. /\ inFile \in BOOLEAN /\ memory \in [Rank -> BOOLEAN]
        /\ block \in [Rank -> Nat] /\ loop \in [Rank -> Nat]
        /\ pass \in [Rank -> 1 .. 6] /\ pc \in [Rank -> Looping \cup {"begin", "end"}]
    BY DEF Init
  <2>7. request \in [Rank -> Requests]
    BY <2>2 DEF Init
  <2>8. over \in [Rank -> Seq(Edge)] /\ recv \in [Rank -> Seq(Edge)] /\ seen \in [Rank -> Seq(Edge)]
    BY <2>1 DEF Init
  <2> QED BY <1>6, <1>7, <2>3, <2>4, <2>5, <2>6, <2>7, <2>8 DEF TypeOK
<1>9. ASSUME NEW r \in Rank PROVE LocalOf(r)
  <2>1. /\ pc[r] = "begin" /\ pass[r] = 1 /\ over[r] = <<>> /\ recv[r] = <<>>
        /\ offset[r] = Len(data[r]) /\ request[r] = Unset
    BY DEF Init
  <2>2. Sizes(r)
    BY <1>5, <1>6, <1>7, <2>1 DEF Sizes, Late
  <2>3. Steps(r) /\ Unread(r) /\ SeenOK(r)
    BY <2>1 DEF Steps, Unread, SeenOK, Looping
  <2>4. request[r].state = "unset"
    BY <2>1 DEF Unset
  <2>5. ReadsOK(r) /\ BuffersOK(r)
    BY <2>1, <2>4 DEF ReadsOK, BuffersOK, Looping
  <2> QED BY <2>2, <2>3, <2>5 DEF LocalOf
<1> QED BY <1>8, <1>9 DEF Local

\* What the others keep in a step of one rank.
LEMMA OthersKeep ==
  ASSUME TypeOK, Local, NEW r \in Rank,
         BeginRead(r) \/ CompleteRead(r) \/ Read(r) \/ Look(r) \/ Write(r) \/ LeaveLoop(r) \/ EndRead(r),
         NEW s \in Rank, s # r
  PROVE  LocalOf(s)'
<1>1. owner' = owner /\ maxSize' = maxSize
  BY DEF BeginRead, CompleteRead, Read, Look, Write, LeaveLoop, EndRead
<1>2. /\ data'[s] = data[s] /\ filled'[s] = filled[s] /\ memory'[s] = memory[s]
      /\ block'[s] = block[s] /\ request'[s] = request[s] /\ buffer'[s] = buffer[s]
      /\ offset'[s] = offset[s] /\ over'[s] = over[s] /\ pass'[s] = pass[s]
      /\ loop'[s] = loop[s] /\ pc'[s] = pc[s] /\ recv'[s] = recv[s] /\ seen'[s] = seen[s]
  <2> USE DEF TypeOK, readVars, progVars
  <2>1. CASE BeginRead(r)
    BY <2>1 DEF BeginRead
  <2>2. CASE CompleteRead(r)
    BY <2>2 DEF CompleteRead
  <2>3. CASE Read(r)
    BY <2>3 DEF Read
  <2>4. CASE Look(r)
    BY <2>4 DEF Look
  <2>5. CASE Write(r)
    BY <2>5 DEF Write
  <2>6. CASE LeaveLoop(r)
    BY <2>6 DEF LeaveLoop
  <2>7. CASE EndRead(r)
    BY <2>7 DEF EndRead
  <2> QED BY <2>1, <2>2, <2>3, <2>4, <2>5, <2>6, <2>7
<1>3. LocalOf(s)
  BY DEF Local
<1> QED BY <1>1, <1>2, <1>3, Frame

\* Every step preserves the invariant of every rank.
LEMMA LocalNext ==
  ASSUME TypeOK, Local, [Next]_vars
  PROVE  TypeOK' /\ Local'
<1>1. ASSUME NEW r \in Rank,
             BeginRead(r) \/ CompleteRead(r) \/ Read(r) \/ Look(r) \/ Write(r) \/ LeaveLoop(r) \/ EndRead(r)
      PROVE  TypeOK' /\ Local'
  <2>1. LocalOf(r)
    BY DEF Local
  <2>2. TypeOK' /\ LocalOf(r)'
    BY <1>1, <2>1, BeginReadKeeps, CompleteReadKeeps, ReadKeeps, LookKeeps, WriteKeeps,
       LeaveLoopKeeps, EndReadKeeps
  <2>3. ASSUME NEW s \in Rank, s # r PROVE LocalOf(s)'
    BY <1>1, <2>3, OthersKeep
  <2> QED BY <2>2, <2>3 DEF Local
<1>2. CASE Scatter
  BY <1>2, ScatterKeeps
<1>3. CASE EndWrite
  BY <1>3, EndWriteKeeps
<1>4. CASE UNCHANGED vars
  <2>1. /\ owner' = owner /\ inFile' = inFile /\ memory' = memory /\ data' = data
        /\ filled' = filled /\ maxSize' = maxSize /\ block' = block /\ request' = request
        /\ buffer' = buffer /\ offset' = offset /\ over' = over /\ pass' = pass
        /\ loop' = loop /\ pc' = pc /\ recv' = recv /\ seen' = seen
    BY <1>4 DEF vars, readVars, progVars
  <2>2. NumEdges' = NumEdges /\ Edge' = Edge
    BY <2>1, Same
  <2>3. TypeOK'
    BY <2>1, <2>2 DEF TypeOK
  <2>4. ASSUME NEW s \in Rank PROVE LocalOf(s)'
    <3>1. LocalOf(s)
      BY DEF Local
    <3> QED BY <2>1, <3>1, Frame
  <2> QED BY <2>3, <2>4 DEF Local
<1> QED BY <1>1, <1>2, <1>3, <1>4 DEF Next

\* The types and the invariant of the ranks hold in every state.
LEMMA LocalHolds == Spec => [](TypeOK /\ Local)
<1>1. Init => TypeOK /\ Local
  BY LocalInit
<1>2. TypeOK /\ Local /\ [Next]_vars => (TypeOK /\ Local)'
  BY LocalNext
<1> QED BY <1>1, <1>2, PTL DEF Spec

\* While redistribute_edge_2d rewrites the list that it reads, neither a write
\* nor the drain of the overflow buffer reaches an edge that was not read yet.
THEOREM ReadsUnread == Spec => []UnreadIntact
<1>1. TypeOK /\ Local => UnreadIntact
  <2> SUFFICES ASSUME TypeOK, Local, NEW r \in Rank, pass[r] <= Len(Passes), ~ Checks(pass[r]),
                      pc[r] \notin {"begin", "end"}, NEW i \in ReadPosition(r) + 1 .. filled[r]
               PROVE  data[r][i] = Generated(Cardinality(Edge), r)[i]
    BY DEF UnreadIntact
  <2>1. LocalOf(r)
    BY DEF Local
  <2>2. /\ pass[r] \in 1 .. 6 /\ pc[r] \in Looping /\ filled[r] \in Nat
        /\ ReadPosition(r) \in Nat /\ Chunk \in Nat
    BY Facts
  <2>3. pass[r] \in 1 .. 3
    BY <2>2, PassKinds
  <2>4. data[r][i] = G(r)[i]
    <3>1. CASE pass[r] = 3
      <4>1. \A j \in Done(r) + 1 .. filled[r] : data[r][j] = G(r)[j]
        BY <2>1, <2>2, <3>1 DEF LocalOf, Unread
      <4>2. i \in Done(r) + 1 .. filled[r]
        BY <2>2 DEF Done
      <4> QED BY <4>1, <4>2
    <3>2. CASE pass[r] # 3
      BY <2>1, <2>3, <3>2 DEF LocalOf, Sizes
    <3> QED BY <3>1, <3>2
  <2> QED BY <2>4 DEF G, NumEdges
<1> QED BY <1>1, LocalHolds, PTL

-----------------------------------------------------------------------------
(* The ranks make the same iterations *)

\* The steps that one rank takes alone.
OneRank(r) == \/ BeginRead(r) \/ CompleteRead(r) \/ Read(r) \/ Look(r)
              \/ Write(r) \/ LeaveLoop(r) \/ EndRead(r)

\* What the steps of a rank do to its place in the passes.
LEMMA PlaceOf ==
  ASSUME TypeOK, NEW r \in Rank, LocalOf(r), OneRank(r)
  PROVE  /\ owner' = owner /\ maxSize' = maxSize
         /\ (Late(r)' <=> Late(r))
         /\ ~ Late(r) => Scatters(r)' = Scatters(r)
<1>0. /\ loop[r] \in Nat /\ NumLoops \in Nat /\ pass[r] \in 1 .. 6
      /\ pc[r] \in Looping \cup {"begin", "end"}
  BY Facts
<1>1. owner' = owner /\ maxSize' = maxSize
  BY DEF OneRank, BeginRead, CompleteRead, Read, Look, Write, LeaveLoop, EndRead
<1>2. NumLoops' = NumLoops
  BY <1>1, SameLoops
<1> USE DEF TypeOK
<1>3. CASE BeginRead(r)
  <2>1. pc[r] = "begin" /\ pc'[r] = "read" /\ pass' = pass /\ loop'[r] = 0
    BY <1>3 DEF BeginRead
  <2>2. Late(r)' <=> Late(r)
    BY <2>1 DEF Late
  <2>3. Turn(r) = 0 /\ Turn(r)' = 0
    BY <2>1 DEF Turn
  <2> QED BY <1>1, <1>2, <2>1, <2>2, <2>3 DEF Scatters
<1>4. CASE CompleteRead(r)
  BY <1>1, <1>2, <1>4 DEF CompleteRead, progVars, Late, Scatters, Turn
<1>5. CASE Read(r)
  <2>1. pc[r] = "read" /\ pc'[r] \in {"given", "empty"} /\ pass' = pass /\ loop' = loop
    BY <1>5 DEF Read
  <2>2. Late(r)' <=> Late(r)
    BY <2>1 DEF Late
  <2>3. Turn(r) = loop[r] /\ Turn(r)' = loop[r]
    BY <2>1 DEF Turn
  <2> QED BY <1>1, <1>2, <2>1, <2>2, <2>3 DEF Scatters
<1>6. CASE Look(r)
  <2>1. pass' = pass /\ Checks(pass[r]) /\ pc[r] # "begin"
    BY <1>6 DEF Look
  <2>2. pass[r] > 3
    BY <1>0, <2>1, PassKinds DEF LocalOf, Sizes
  <2> QED BY <1>1, <2>1, <2>2 DEF Late
<1>7. CASE Write(r)
  <2>1. pc[r] = "write" /\ pc'[r] = "read" /\ pass' = pass /\ loop'[r] = loop[r] + 1
    BY <1>7 DEF Write
  <2>2. Late(r)' <=> Late(r)
    BY <2>1 DEF Late
  <2>3. Turn(r) = loop[r] + 1 /\ Turn(r)' = loop[r] + 1
    BY <2>1 DEF Turn
  <2> QED BY <1>1, <1>2, <2>1, <2>2, <2>3 DEF Scatters
<1>8. CASE LeaveLoop(r)
  <2>1. /\ pc[r] = "read" /\ pc'[r] = "end" /\ pass' = pass
        /\ ~ Rewrites(pass[r]) /\ (loop[r] = NumLoops \/ Checks(pass[r]))
    BY <1>8 DEF LeaveLoop
  <2>2. pass[r] # 6
    BY <2>1 DEF LocalOf, Sizes
  <2>3. pass[r] # 3 /\ (loop[r] = NumLoops \/ pass[r] > 3)
    BY <1>0, <2>1, <2>2, PassKinds, SMTT(30)
  <2>4. Late(r)' <=> Late(r)
    BY <2>1, <2>3 DEF Late
  <2>5. ~ Late(r) => Turn(r) = NumLoops /\ Turn(r)' = NumLoops
    BY <1>2, <2>1, <2>3 DEF Turn, Late
  <2> QED BY <1>1, <1>2, <2>1, <2>4, <2>5 DEF Scatters
<1>9. CASE EndRead(r)
  <2>1. pc[r] = "end" /\ pc'[r] = "begin" /\ pass'[r] = pass[r] + 1
    BY <1>9 DEF EndRead
  <2>2. Late(r)' <=> Late(r)
    BY <1>0, <2>1, SMTT(30) DEF Late
  <2>3. Turn(r) = NumLoops /\ Turn(r)' = 0
    BY <2>1 DEF Turn
  <2>4. (pass[r] - 1) * NumLoops + NumLoops = (pass[r] + 1 - 1) * NumLoops + 0
    <3>1. pass[r] = 1 \/ pass[r] = 2 \/ pass[r] = 3 \/ pass[r] = 4 \/ pass[r] = 5 \/ pass[r] = 6
      BY <1>0
    <3> QED BY <1>0, <3>1, SMTT(30)
  <2>5. Scatters(r) = (pass[r] - 1) * NumLoops + NumLoops
    BY <2>3 DEF Scatters
  <2>6. Scatters(r)' = (pass[r] + 1 - 1) * NumLoops + 0
    <3>1. Scatters(r)' = (pass'[r] - 1) * NumLoops + 0
      BY <1>2, <2>3 DEF Scatters
    <3> QED BY <1>0, <2>1, <3>1, SMTT(30)
  <2> QED BY <1>1, <2>2, <2>4, <2>5, <2>6
<1> QED BY <1>3, <1>4, <1>5, <1>6, <1>7, <1>8, <1>9 DEF OneRank

\* A step of one rank leaves the others where they are.
LEMMA PlaceOfOthers ==
  ASSUME TypeOK, NEW r \in Rank, OneRank(r), NEW s \in Rank, s # r
  PROVE  /\ data'[s] = data[s] /\ filled'[s] = filled[s] /\ block'[s] = block[s]
         /\ offset'[s] = offset[s] /\ over'[s] = over[s] /\ pass'[s] = pass[s]
         /\ loop'[s] = loop[s] /\ pc'[s] = pc[s] /\ recv'[s] = recv[s]
<1> USE DEF TypeOK, readVars, progVars
<1>1. CASE BeginRead(r)
  BY <1>1 DEF BeginRead
<1>2. CASE CompleteRead(r)
  BY <1>2 DEF CompleteRead
<1>3. CASE Read(r)
  BY <1>3 DEF Read
<1>4. CASE Look(r)
  BY <1>4 DEF Look
<1>5. CASE Write(r)
  BY <1>5 DEF Write
<1>6. CASE LeaveLoop(r)
  BY <1>6 DEF LeaveLoop
<1>7. CASE EndRead(r)
  BY <1>7 DEF EndRead
<1> QED BY <1>1, <1>2, <1>3, <1>4, <1>5, <1>6, <1>7 DEF OneRank

\* At a scatter all ranks are in the same pass.
LEMMA SamePass ==
  ASSUME TypeOK, Local, InStep, Scatter
  PROVE  /\ \A r \in Rank : ~ Late(r)
         /\ \A r, s \in Rank : pass[r] = pass[s]
<1>1. \A r \in Rank : pc[r] \in {"given", "empty"} /\ pass[r] \in 1 .. 3 /\ ~ Late(r)
  <2> TAKE r \in Rank
  <2>1. pc[r] \in {"given", "empty"} /\ pass[r] \in 1 .. 3
    BY ScatterParts
  <2> QED BY <2>1 DEF Late
<1>2. \A r, s \in Rank : Scatters(r) = Scatters(s)
  BY <1>1, Constants DEF InStep
<1>3. ASSUME NEW r \in Rank, NEW s \in Rank PROVE pass[r] = pass[s]
  <2>1. /\ Scatters(r) = (pass[r] - 1) * NumLoops + loop[r]
        /\ Scatters(s) = (pass[s] - 1) * NumLoops + loop[s]
    BY <1>1 DEF Scatters, Turn
  <2>2. /\ loop[r] \in Nat /\ loop[s] \in Nat /\ NumLoops \in Nat
    BY Facts
  <2>3. loop[r] < NumLoops /\ loop[s] < NumLoops
    BY <1>1 DEF Local, LocalOf, Steps
  <2>4. (pass[r] - 1) * NumLoops + loop[r] = (pass[s] - 1) * NumLoops + loop[s]
    BY <1>2, <2>1
  <2>5. \A p \in 1 .. 3 : p = 1 \/ p = 2 \/ p = 3
    OBVIOUS
  <2>6. /\ (1 - 1) * NumLoops = 0 /\ (2 - 1) * NumLoops = NumLoops
        /\ (3 - 1) * NumLoops = NumLoops + NumLoops
    BY <2>2
  <2>7. pass[r] \in 1 .. 3 /\ pass[s] \in 1 .. 3
    BY <1>1
  <2> QED BY <2>2, <2>3, <2>4, <2>5, <2>6, <2>7
<1> QED BY <1>1, <1>3

\* Steps of one rank change its count of scatters not at all, a scatter adds
\* one for each, and endWrite ends the redistribution for all.
LEMMA InStepNext ==
  ASSUME TypeOK, Local, InStep, [Next]_vars
  PROVE  InStep'
<1>1. ASSUME NEW r \in Rank, OneRank(r) PROVE InStep'
  <2>1. /\ owner' = owner /\ maxSize' = maxSize
        /\ (Late(r)' <=> Late(r)) /\ (~ Late(r) => Scatters(r)' = Scatters(r))
    BY <1>1, PlaceOf DEF Local
  <2>2. ASSUME NEW s \in Rank, s # r PROVE (Late(s)' <=> Late(s)) /\ Scatters(s)' = Scatters(s)
    <3>1. pass'[s] = pass[s] /\ loop'[s] = loop[s] /\ pc'[s] = pc[s]
      BY <1>1, <2>2, PlaceOfOthers
    <3>2. NumLoops' = NumLoops
      BY <2>1, SameLoops
    <3> QED BY <3>1, <3>2 DEF Late, Scatters, Turn
  <2>3. \A s \in Rank : (Late(s)' <=> Late(s)) /\ (~ Late(s) => Scatters(s)' = Scatters(s))
    BY <2>1, <2>2
  <2>4. CASE \A s \in Rank : Late(s)
    BY <2>3, <2>4 DEF InStep
  <2>5. CASE \A s \in Rank : ~ Late(s) /\ \A t \in Rank : Scatters(s) = Scatters(t)
    <3>1. \A s \in Rank : ~ Late(s)'
      BY <2>3, <2>5
    <3>2. \A s, t \in Rank : Scatters(s)' = Scatters(t)'
      BY <2>3, <2>5
    <3> QED BY <3>1, <3>2 DEF InStep
  <2> QED BY <2>4, <2>5 DEF InStep
<1>2. CASE Scatter
  <2>1. (\A r \in Rank : ~ Late(r)) /\ (\A r, s \in Rank : pass[r] = pass[s])
    BY <1>2, SamePass
  <2>2. \A r, s \in Rank : Scatters(r) = Scatters(s)
    BY <2>1, Constants DEF InStep
  <2>3. pass' = pass /\ maxSize' = maxSize
    BY <1>2 DEF Scatter
  <2>4. NumLoops' = NumLoops
    BY <2>3, SameLoops
  <2>5. ASSUME NEW r \in Rank PROVE ~ Late(r)' /\ Scatters(r)' = Scatters(r) + 1
    <3>1. /\ pc[r] \in {"given", "empty"} /\ pass[r] \in 1 .. 3
          /\ pass[r] = 3 => pc'[r] = "write" /\ loop'[r] = loop[r]
          /\ pass[r] # 3 => pc'[r] = "read" /\ loop'[r] = loop[r] + 1
      BY <1>2, ScatterParts
    <3>2. Turn(r) = loop[r] /\ Turn(r)' = loop[r] + 1
      BY <3>1 DEF Turn
    <3>3. ~ Late(r)'
      BY <2>3, <3>1 DEF Late
    <3> DEFINE m == (pass[r] - 1) * NumLoops
    <3>4. loop[r] \in Nat /\ m \in Int
      BY <3>1, Facts
    <3>5. Scatters(r)' = m + (loop[r] + 1) /\ Scatters(r) = m + loop[r]
      BY <2>3, <2>4, <3>2 DEF Scatters
    <3> HIDE DEF m
    <3> QED BY <3>3, <3>4, <3>5
  <2> QED BY <2>2, <2>5 DEF InStep
<1>3. CASE EndWrite
  <2>1. ASSUME NEW r \in Rank PROVE Late(r)'
    <3>1. pc[r] = "read" /\ Rewrites(pass[r]) /\ pc'[r] = "end" /\ pass' = pass
      BY <1>3 DEF EndWrite
    <3>2. pass[r] \in 1 .. 6 /\ pass[r] # 6
      BY <3>1 DEF TypeOK, Local, LocalOf, Sizes
    <3>3. pass[r] = 3
      BY <3>1, <3>2, PassKinds
    <3> QED BY <3>1, <3>3 DEF Late
  <2> QED BY <2>1 DEF InStep
<1>4. CASE UNCHANGED vars
  BY <1>4 DEF vars, progVars, InStep, Late, Scatters, Turn, NumLoops
<1> QED BY <1>1, <1>2, <1>3, <1>4 DEF Next, OneRank

\* No rank has scattered anything yet.
LEMMA InStepInit ==
  ASSUME Init
  PROVE  InStep
<1>1. \A r \in Rank : pass[r] = 1 /\ pc[r] = "begin"
  BY DEF Init
<1>2. \A r \in Rank : ~ Late(r) /\ Scatters(r) = (1 - 1) * NumLoops + 0
  BY <1>1 DEF Late, Scatters, Turn
<1> QED BY <1>2 DEF InStep

-----------------------------------------------------------------------------
(* Every edge that was sent is kept where it belongs *)

\* The edges that are in the list, in the buffer or just received.
LEMMA KeptParts ==
  ASSUME TypeOK, NEW r \in Rank, LocalOf(r), NEW e
  PROVE  /\ SubSeq(data[r], 1, offset[r]) \in Seq(Edge)
         /\ Count(SubSeq(data[r], 1, offset[r]) \o over[r] \o recv[r], e) =
              Count(SubSeq(data[r], 1, offset[r]), e) + Count(over[r], e) + Count(recv[r], e)
         /\ Count(SubSeq(data[r], 1, offset[r]), e) \in Nat
         /\ Count(over[r], e) \in Nat /\ Count(recv[r], e) \in Nat
<1> DEFINE a == SubSeq(data[r], 1, offset[r])
           b == over[r]
           c == recv[r]
<1>1. /\ data[r] \in Seq(Edge) /\ b \in Seq(Edge) /\ c \in Seq(Edge) /\ offset[r] \in Nat
      /\ offset[r] <= Len(data[r])
  BY Facts DEF LocalOf, Sizes
<1>2. a \in Seq(Edge)
  BY <1>1, PrefixOf
<1> HIDE DEF a, b, c
<1>3. a \o b \in Seq(Edge)
  BY <1>1, <1>2
<1>4. Count(a \o b, e) = Count(a, e) + Count(b, e)
  BY <1>1, <1>2, CountConcat
<1>5. Count((a \o b) \o c, e) = Count(a \o b, e) + Count(c, e)
  BY <1>1, <1>3, CountConcat
<1>6. Count(a, e) \in Nat /\ Count(b, e) \in Nat /\ Count(c, e) \in Nat
  BY <1>1, <1>2, CountType
<1> QED BY <1>2, <1>4, <1>5, <1>6 DEF a, b, c

\* A write to the end of the kept part of the list adds what it writes.
LEMMA CountStored ==
  ASSUME NEW S, NEW s \in Seq(S), NEW out \in Seq(S), NEW w \in Nat, w <= Len(s), NEW e
  PROVE  LET t == Stored(s, w, out)
         IN /\ SubSeq(t, 1, w + Len(out)) \in Seq(S)
            /\ Count(SubSeq(t, 1, w + Len(out)), e) = Count(SubSeq(s, 1, w), e) + Count(out, e)
<1> DEFINE t == Stored(s, w, out)
           a == SubSeq(s, 1, w)
           v == w + Len(out)
           b == SubSeq(t, 1, v)
<1>1. Len(s) \in Nat /\ Len(out) \in Nat
  OBVIOUS
<1>2. /\ t \in Seq(S)
      /\ Len(t) = IF Len(s) <= w + Len(out) THEN w + Len(out) ELSE Len(s)
      /\ \A i \in 1 .. w : t[i] = s[i]
      /\ \A i \in 1 .. Len(out) : t[w + i] = out[i]
  <2> HIDE DEF t
  <2>1. t = Stored(s, w, out)
    BY DEF t
  <2> QED BY <2>1, StoredParts
<1> HIDE DEF t
<1>3. v \in Nat /\ v <= Len(t)
  BY <1>1, <1>2
<1>4. a \in Seq(S) /\ Len(a) = w /\ \A i \in 1 .. w : a[i] = s[i]
  OBVIOUS
<1> HIDE DEF v
<1>5. b \in Seq(S) /\ Len(b) = v /\ \A i \in 1 .. v : b[i] = t[i]
  BY <1>2, <1>3
<1> HIDE DEF a, b
<1>6. /\ a \o out \in Seq(S) /\ Len(a \o out) = Len(a) + Len(out)
      /\ \A i \in 1 .. Len(a) + Len(out) : (a \o out)[i] = IF i <= Len(a) THEN a[i] ELSE out[i - Len(a)]
  BY <1>4, ConcatProperties
<1> DEFINE c == a \o out
<1> HIDE DEF c
<1>7. c \in Seq(S) /\ Len(c) = v
  BY <1>4, <1>6 DEF c, v
<1>8. ASSUME NEW i \in 1 .. v PROVE b[i] = c[i]
  <2>1. i \in 1 .. Len(a) + Len(out) /\ v = w + Len(out)
    BY <1>4 DEF v
  <2>2. CASE i <= w
    <3>1. i \in 1 .. w /\ i <= Len(a)
      BY <1>4, <2>2
    <3>2. c[i] = a[i]
      BY <1>6, <2>1, <3>1 DEF c
    <3> QED BY <1>2, <1>4, <1>5, <3>1, <3>2
  <2>3. CASE ~ (i <= w)
    <3>1. ~ (i <= Len(a)) /\ i - w \in 1 .. Len(out) /\ w + (i - w) = i
      BY <1>1, <1>4, <2>1, <2>3
    <3>2. c[i] = out[i - w]
      BY <1>4, <1>6, <2>1, <3>1 DEF c
    <3> QED BY <1>2, <1>5, <3>1, <3>2
  <2> QED BY <2>2, <2>3
<1>9. b = c
  BY <1>5, <1>7, <1>8, SeqEqual
<1>10. Count(c, e) = Count(a, e) + Count(out, e)
  BY <1>4, CountConcat DEF c
<1> QED BY <1>5, <1>9, <1>10 DEF a, b, v, t

\* A write moves edges from the buffers to the list.
LEMMA KeptByWrite ==
  ASSUME TypeOK, NEW r \in Rank, LocalOf(r), Write(r), TypeOK', LocalOf(r)', NEW e
  PROVE  Count(Kept(r)', e) = Count(Kept(r), e)
<1> DEFINE d == Drain(r)
           first == offset[r] + d
           n == Direct(r, first, Len(recv[r]))
           o1 == SubSeq(over[r], 1, d)
           o2 == SubSeq(over[r], d + 1, Len(over[r]))
           v1 == SubSeq(recv[r], 1, n)
           v2 == SubSeq(recv[r], n + 1, Len(recv[r]))
           out == o1 \o v1
           rest == o2 \o v2
           t == Stored(data[r], offset[r], out)
<1>0. /\ offset[r] \in Nat /\ data[r] \in Seq(Edge) /\ over[r] \in Seq(Edge) /\ recv[r] \in Seq(Edge)
      /\ Len(over[r]) \in Nat /\ Len(recv[r]) \in Nat /\ pass[r] \in 1 .. 6
  BY Facts
<1>1. pc[r] = "write" /\ pass[r] = 3 /\ offset[r] <= Len(data[r])
  BY DEF Write, LocalOf, Sizes
<1>2. /\ d \in Nat /\ d <= Len(over[r]) /\ first \in Nat /\ n \in Nat /\ n <= Len(recv[r])
      /\ out \in Seq(Edge) /\ Len(out) = d + n
  BY <1>1, WriteSizes
<1>3. /\ data'[r] = t /\ offset'[r] = first + n /\ over'[r] = rest /\ recv'[r] = <<>>
      /\ pc'[r] = "read" /\ pass' = pass
  BY DEF Write, TypeOK
<1>4. first + n = offset[r] + Len(out)
  BY <1>0, <1>2
<1> HIDE DEF d, n, first
<1>5. /\ o1 \in Seq(Edge) /\ o2 \in Seq(Edge) /\ v1 \in Seq(Edge) /\ v2 \in Seq(Edge)
      /\ Count(over[r], e) = Count(o1, e) + Count(o2, e)
      /\ Count(recv[r], e) = Count(v1, e) + Count(v2, e)
  <2>1. d \in 0 .. Len(over[r]) /\ n \in 0 .. Len(recv[r])
    BY <1>0, <1>2
  <2>2. o1 \in Seq(Edge) /\ o2 \in Seq(Edge) /\ Count(over[r], e) = Count(o1, e) + Count(o2, e)
    BY <1>0, <2>1, CountSplit
  <2>3. v1 \in Seq(Edge) /\ v2 \in Seq(Edge) /\ Count(recv[r], e) = Count(v1, e) + Count(v2, e)
    BY <1>0, <2>1, CountSplit
  <2> QED BY <2>2, <2>3
<1> HIDE DEF o1, o2, v1, v2
<1>6. Count(out, e) = Count(o1, e) + Count(v1, e) /\ Count(rest, e) = Count(o2, e) + Count(v2, e)
  BY <1>5, CountConcat
<1>7. rest \in Seq(Edge)
  BY <1>5
<1> DEFINE w == offset[r]
           s == data[r]
<1>8. s \in Seq(Edge) /\ out \in Seq(Edge) /\ w \in Nat /\ w <= Len(s) /\ t = Stored(s, w, out)
  BY <1>0, <1>1, <1>2
<1> HIDE DEF out, rest, w, s, t
<1>9. /\ SubSeq(t, 1, w + Len(out)) \in Seq(Edge)
      /\ Count(SubSeq(t, 1, w + Len(out)), e) = Count(SubSeq(s, 1, w), e) + Count(out, e)
  BY <1>8, CountStored
<1>10. Kept(r)' = SubSeq(t, 1, w + Len(out)) \o rest \o <<>>
  <2>1. Kept(r)' = SubSeq(data'[r], 1, offset'[r]) \o over'[r] \o recv'[r]
    <3>1. pass'[r] = 3 /\ pc'[r] = "read"
      BY <1>1, <1>3
    <3>2. ~ (pass'[r] < 3 \/ (pass'[r] = 3 /\ pc'[r] = "begin"))
      BY <3>1
    <3> QED BY <3>2 DEF Kept
  <2>2. offset'[r] = w + Len(out)
    BY <1>3, <1>4 DEF w
  <2> QED BY <1>3, <2>1, <2>2
<1>11. Count(Kept(r)', e) = Count(SubSeq(t, 1, w + Len(out)), e) + Count(rest, e) + 0
  <2> DEFINE a == SubSeq(t, 1, w + Len(out))
             z == <<>>
  <2>1. a \in Seq(Edge) /\ z \in Seq(Edge) /\ Count(z, e) = 0
    BY <1>9, CountEmpty
  <2> HIDE DEF a, z
  <2>2. a \o rest \in Seq(Edge) /\ Count(a \o rest, e) = Count(a, e) + Count(rest, e)
    BY <1>7, <2>1, CountConcat
  <2>3. Count((a \o rest) \o z, e) = Count(a \o rest, e) + Count(z, e)
    BY <2>1, <2>2, CountConcat, ZenonT(60)
  <2>4. Kept(r)' = (a \o rest) \o z
    BY <1>10 DEF a, z
  <2> QED BY <2>1, <2>2, <2>3, <2>4 DEF a
<1>12. Count(Kept(r), e) = Count(SubSeq(s, 1, w), e) + Count(over[r], e) + Count(recv[r], e)
  BY <1>1, KeptParts DEF Kept, s, w
<1>13. /\ Count(o1, e) \in Nat /\ Count(o2, e) \in Nat /\ Count(v1, e) \in Nat /\ Count(v2, e) \in Nat
       /\ Count(SubSeq(s, 1, w), e) \in Nat
  BY <1>5, CountType, KeptParts DEF s, w
<1> QED BY <1>5, <1>6, <1>9, <1>11, <1>12, <1>13, SMTT(30)

-----------------------------------------------------------------------------
\* The generated list of a rank: the edges whose home it is, each once.
LEMMA GeneratedOnce ==
  ASSUME TypeOK, NEW r \in Rank
  PROVE  /\ G(r) \in Seq(Edge) /\ Len(G(r)) \in Nat
         /\ \A i \in 1 .. Len(G(r)) : Home(G(r)[i]) = r
         /\ \A i, j \in 1 .. Len(G(r)) : G(r)[i] = G(r)[j] => i = j
         /\ \A e \in Edge : Home(e) = r => \E i \in 1 .. Len(G(r)) : G(r)[i] = e
<1>1. NumEdges \in Nat /\ Edge = 1 .. NumEdges
  BY EdgeNumber
<1> QED BY <1>1, GeneratedList DEF G

\* The home of an edge is a rank.
LEMMA HomeRank ==
  ASSUME TypeOK, NEW e \in Edge
  PROVE  Home(e) \in Rank
<1>1. e \in Nat /\ e >= 1
  BY EdgeNumber
<1> QED BY <1>1, DealtHome

\* So does the flush of the buffer at the end.
LEMMA KeptByEndRead ==
  ASSUME TypeOK, NEW r \in Rank, LocalOf(r), EndRead(r), NEW e
  PROVE  Count(Kept(r)', e) = Count(Kept(r), e)
<1> DEFINE s == data[r]
           w == offset[r]
           o == over[r]
           z == recv[r]
           t == Stored(s, w, o)
           a == SubSeq(t, 1, w + Len(o))
           x == <<>>
<1>0. /\ w \in Nat /\ s \in Seq(Edge) /\ o \in Seq(Edge) /\ pass[r] \in 1 .. 6 /\ Len(o) \in Nat
  BY Facts
<1>1. pc[r] = "end" /\ pass[r] # 6 /\ w <= Len(s) /\ z = <<>>
  BY DEF EndRead, LocalOf, Sizes
<1>2. /\ data'[r] = t /\ offset'[r] = w + Len(o) /\ over'[r] = x /\ recv' = recv
      /\ pass'[r] = pass[r] + 1 /\ pc'[r] = "begin"
  BY DEF EndRead, TypeOK
<1>3. CASE pass[r] < 3
  <2>1. pass'[r] < 3 \/ (pass'[r] = 3 /\ pc'[r] = "begin")
    BY <1>0, <1>2, <1>3
  <2>2. Kept(r) = <<>> /\ Kept(r)' = <<>>
    BY <1>3, <2>1 DEF Kept
  <2> QED BY <2>2
<1>4. CASE ~ (pass[r] < 3)
  <2>1. ~ (pass'[r] < 3 \/ (pass'[r] = 3 /\ pc'[r] = "begin"))
    BY <1>0, <1>2, <1>4
  <2> HIDE DEF s, w, o, t, x, z
  <2>2. Kept(r)' = SubSeq(data'[r], 1, offset'[r]) \o over'[r] \o recv'[r]
    BY <2>1 DEF Kept
  <2>3. Kept(r)' = (a \o x) \o z
    BY <1>2, <2>2 DEF z
  <2>4. /\ a \in Seq(Edge) /\ Count(a, e) = Count(SubSeq(s, 1, w), e) + Count(o, e)
    BY <1>0, <1>1, CountStored, SMTT(30) DEF t
  <2>5. x \in Seq(Edge) /\ z \in Seq(Edge) /\ Count(x, e) = 0 /\ Count(z, e) = 0
    BY <1>1, CountEmpty DEF x
  <2> HIDE DEF a
  <2>6. a \o x \in Seq(Edge) /\ Count(a \o x, e) = Count(a, e) + Count(x, e)
    BY <2>4, <2>5, CountConcat
  <2>7. Count((a \o x) \o z, e) = Count(a \o x, e) + Count(z, e)
    <3> DEFINE y == a \o x
    <3>1. y \in Seq(Edge) /\ z \in Seq(Edge)
      BY <2>5, <2>6
    <3> HIDE DEF y
    <3>2. Count(y \o z, e) = Count(y, e) + Count(z, e)
      BY <3>1, CountConcat
    <3> QED BY <3>2 DEF y
  <2>8. Kept(r) = SubSeq(data[r], 1, offset[r]) \o over[r] \o recv[r]
    BY <1>1, <1>4 DEF Kept
  <2>9. /\ Count(Kept(r), e) = Count(SubSeq(s, 1, w), e) + Count(o, e) + Count(z, e)
        /\ Count(SubSeq(s, 1, w), e) \in Nat /\ Count(o, e) \in Nat
    BY <2>8, KeptParts DEF s, w, o, z
  <2> QED BY <2>3, <2>4, <2>5, <2>6, <2>7, <2>9
<1> QED BY <1>3, <1>4

\* The redistribution starts with an empty list of kept edges.
LEMMA KeptByBeginRead ==
  ASSUME TypeOK, NEW r \in Rank, LocalOf(r), BeginRead(r)
  PROVE  Kept(r)' = Kept(r)
<1>0. pass[r] \in 1 .. 6 /\ data[r] \in Seq(Edge) /\ over[r] \in Seq(Edge)
  BY Facts
<1>1. /\ pc[r] = "begin" /\ pc'[r] = "read" /\ pass' = pass /\ data' = data /\ recv' = recv
      /\ recv[r] = <<>> /\ pass[r] # 6
      /\ pass[r] = 3 => offset'[r] = 0 /\ over'[r] = <<>>
      /\ pass[r] # 3 => offset' = offset /\ over' = over
  <2>1. pass[r] <= 5 /\ pc[r] = "begin"
    BY PassKinds DEF BeginRead
  <2>2. Rewrites(pass[r]) <=> pass[r] = 3
    BY <1>0, <2>1, PassKinds
  <2> QED BY <1>0, <2>1, <2>2 DEF BeginRead, TypeOK, LocalOf, Sizes
<1>2. CASE pass[r] < 3
  BY <1>1, <1>2 DEF Kept
<1>3. CASE pass[r] = 3
  <2>1. Kept(r) = <<>>
    BY <1>1, <1>3 DEF Kept
  <2>2. SubSeq(data[r], 1, 0) = <<>>
    BY <1>0, NoPart
  <2>3. Kept(r)' = SubSeq(data[r], 1, 0) \o <<>> \o <<>>
    <3>1. ~ (pass'[r] < 3 \/ (pass'[r] = 3 /\ pc'[r] = "begin"))
      BY <1>1, <1>3
    <3>2. Kept(r)' = SubSeq(data'[r], 1, offset'[r]) \o over'[r] \o recv'[r]
      BY <3>1 DEF Kept
    <3> QED BY <1>1, <1>3, <3>2
  <2>4. <<>> \o <<>> \o <<>> = <<>>
    OBVIOUS
  <2> QED BY <2>1, <2>2, <2>3, <2>4
<1>4. CASE pass[r] > 3
  BY <1>0, <1>1, <1>4 DEF Kept
<1> QED BY <1>0, <1>2, <1>3, <1>4

\* The steps of one rank neither gain nor lose an edge that was sent.
LEMMA KeptByOne ==
  ASSUME TypeOK, Local, NEW r \in Rank, OneRank(r), TypeOK', Local', NEW s \in Rank, NEW e
  PROVE  Count(Kept(s)', e) = Count(Kept(s), e)
<1>0. LocalOf(r) /\ LocalOf(r)'
  BY DEF Local
<1>1. CASE s # r
  BY <1>1, PlaceOfOthers DEF Kept
<1>2. CASE s = r
  <2>1. CASE BeginRead(r)
    BY <1>0, <1>2, <2>1, KeptByBeginRead
  <2>2. CASE Write(r)
    BY <1>0, <1>2, <2>2, KeptByWrite
  <2>3. CASE EndRead(r)
    BY <1>0, <1>2, <2>3, KeptByEndRead
  <2>4. ASSUME data' = data, offset' = offset, over' = over, recv' = recv, pass' = pass,
               pc[r] = "begin" <=> pc'[r] = "begin"
        PROVE  Kept(r)' = Kept(r)
    BY <2>4 DEF Kept
  <2>5. CASE CompleteRead(r)
    <3>1. /\ data' = data /\ offset' = offset /\ over' = over /\ recv' = recv /\ pass' = pass /\ pc' = pc
      BY <2>5 DEF CompleteRead, progVars
    <3> QED BY <1>2, <2>4, <3>1
  <2>6. CASE Read(r) \/ Look(r) \/ LeaveLoop(r)
    <3>1. /\ data' = data /\ offset' = offset /\ over' = over /\ recv' = recv /\ pass' = pass
          /\ pc[r] # "begin" /\ pc'[r] # "begin"
      BY <2>6 DEF Read, Look, LeaveLoop, TypeOK
    <3> QED BY <1>2, <2>4, <3>1
  <2> QED BY <2>1, <2>2, <2>3, <2>5, <2>6 DEF OneRank
<1> QED BY <1>1, <1>2

\* Only scatters and endWrite change what has been sent.
LEMMA SentByOne ==
  ASSUME TypeOK, Local, NEW r \in Rank, OneRank(r), NEW s \in Rank, NEW e
  PROVE  SentBy(s, e)' <=> SentBy(s, e)
<1>0. /\ LocalOf(r) /\ owner' = owner /\ (Late(r)' <=> Late(r))
  BY PlaceOf DEF Local
<1>1. G(s)' = G(s)
  BY <1>0, Same
<1>2. CASE s # r
  <2>1. /\ filled'[s] = filled[s] /\ block'[s] = block[s] /\ pass'[s] = pass[s] /\ pc'[s] = pc[s]
    BY <1>2, PlaceOfOthers
  <2> QED BY <1>1, <2>1 DEF SentBy, Late, Done, ReadPosition
<1>3. CASE s = r
  <2>0. /\ pass[r] \in 1 .. 6 /\ block[r] \in Nat /\ Chunk \in Nat /\ ReadPosition(r) \in Nat
        /\ ReadPosition(r) = block[r] * Chunk
    BY Facts
  <2>1. CASE BeginRead(r)
    <3>1. pc[r] = "begin" /\ pc'[r] = "read" /\ block'[r] = 0
      BY <2>1 DEF BeginRead, TypeOK
    <3>2. Done(r)' = 0
      BY <2>0, <3>1 DEF Done, ReadPosition
    <3>3. ~ \E i \in 1 .. filled'[r] : i <= Done(r)' /\ G(r)'[i] = e
      BY <3>2
    <3> QED BY <1>0, <1>3, <3>1, <3>3 DEF SentBy, Looping
  <2>2. CASE EndRead(r)
    <3>1. pc[r] = "end" /\ pc'[r] = "begin"
      BY <2>2 DEF EndRead, TypeOK
    <3> QED BY <1>0, <1>3, <3>1 DEF SentBy, Looping
  <2>3. CASE Look(r) \/ LeaveLoop(r)
    <3>1. pass' = pass /\ pc[r] # "begin" /\ ~ Rewrites(pass[r])
      <4>1. pass[r] # 6 /\ pass' = pass /\ pc[r] # "begin"
        BY <1>0, <2>3 DEF Look, LeaveLoop, LocalOf, Sizes
      <4> QED BY <2>0, <2>3, <4>1, PassKinds DEF Look, LeaveLoop
    <3>2. pass[r] # 3 /\ pass'[r] # 3
      BY <3>1, PassKinds
    <3> QED BY <1>0, <1>3, <3>2 DEF SentBy
  <2>4. CASE CompleteRead(r)
    <3>1. filled' = filled /\ block' = block /\ pass' = pass /\ pc' = pc
      BY <2>4 DEF CompleteRead, progVars
    <3> QED BY <1>1, <1>3, <3>1 DEF SentBy, Late, Done, ReadPosition
  <2>5. CASE Write(r)
    <3>1. filled' = filled /\ block' = block /\ pass' = pass /\ pc[r] = "write" /\ pc'[r] = "read"
      BY <2>5 DEF Write, readVars, TypeOK
    <3> QED BY <1>1, <1>3, <3>1 DEF SentBy, Late, Done, ReadPosition, Looping
  <2>6. CASE Read(r)
    <3>1. /\ filled' = filled /\ pass' = pass /\ pc[r] = "read"
          /\ \/ pc'[r] = "given" /\ block'[r] = block[r] + 1
             \/ pc'[r] = "empty" /\ block' = block
      BY <2>6 DEF Read, TypeOK
    <3>2. Done(r)' = Done(r)
      <4>1. CASE pc'[r] = "given" /\ block'[r] = block[r] + 1
        <5>1. (block[r] + 1) * Chunk = block[r] * Chunk + Chunk
          BY <2>0, Products
        <5>2. Done(r)' = (block[r] + 1) * Chunk - Chunk
          BY <4>1 DEF Done, ReadPosition
        <5>3. Done(r) = ReadPosition(r)
          BY <3>1 DEF Done
        <5> QED BY <2>0, <5>1, <5>2, <5>3
      <4>2. CASE pc'[r] = "empty" /\ block' = block
        BY <3>1, <4>2 DEF Done, ReadPosition
      <4> QED BY <3>1, <4>1, <4>2
    <3> QED BY <1>0, <1>1, <1>3, <3>1, <3>2 DEF SentBy, Looping
  <2> QED BY <2>1, <2>2, <2>3, <2>4, <2>5, <2>6 DEF OneRank
<1> QED BY <1>2, <1>3

-----------------------------------------------------------------------------
\* In the redistribution the chunk of a rank continues what the rank has sent.
LEMMA ChunkPlaces ==
  ASSUME TypeOK, NEW s \in Rank, LocalOf(s), pc[s] \in {"given", "empty"}, pass[s] = 3
  PROVE  /\ Done(s) \in Nat /\ filled[s] = Len(G(s)) /\ ~ Late(s)
         /\ \A j \in 1 .. Len(ChunkOf(s)) :
              /\ Done(s) + j \in 1 .. filled[s] /\ Done(s) + j <= ReadPosition(s)
              /\ ChunkOf(s)[j] = G(s)[Done(s) + j]
         /\ \A i \in 1 .. filled[s] : i <= ReadPosition(s) /\ ~ (i <= Done(s)) =>
              i - Done(s) \in 1 .. Len(ChunkOf(s))
<1> DEFINE p == ReadPosition(s)
           f == filled[s]
           g == G(s)
           k == Done(s)
<1>0. /\ p \in Nat /\ f \in Nat /\ Chunk \in Nat /\ Chunk >= 1 /\ g \in Seq(Edge) /\ Len(g) \in Nat
  BY Facts
<1>1. ~ Late(s) /\ f = Len(g) /\ Source(s) = g
  BY DEF Late, LocalOf, Sizes, Source
<1>2. CASE pc[s] = "given"
  <2>1. /\ Given(s) = SubSeq(g, p - Chunk + 1, Least(p, f))
        /\ p - Chunk \in Nat /\ p - Chunk < f
    BY <1>1, <1>2, GivenChunk
  <2>2. k = p - Chunk /\ ChunkOf(s) = Given(s)
    BY <1>2 DEF Done, ChunkOf
  <2> HIDE DEF k, p, f, g
  <2> DEFINE n == Least(p, f)
             m == k + 1
             c == SubSeq(g, m, n)
  <2>3. n \in Nat /\ n <= f /\ n <= p /\ (n = p \/ n = f) /\ m \in Nat /\ m >= 1 /\ m <= n /\ k \in Nat
    BY <1>0, <2>1, <2>2 DEF Least
  <2>4. ChunkOf(s) = c
    BY <2>1, <2>2
  <2> HIDE DEF n
  <2>5. /\ Len(c) = IF m <= n THEN n - m + 1 ELSE 0
        /\ \A i \in 1 .. n - m + 1 : c[i] = g[m + i - 1]
    <3>1. m \in Nat /\ n \in Int /\ m >= 1 /\ n <= Len(g)
      BY <1>0, <1>1, <2>3
    <3> HIDE DEF m
    <3> QED BY <1>0, <3>1, PartOf
  <2> HIDE DEF c
  <2>6. Len(c) = n - k /\ n - m + 1 = n - k
    BY <2>3, <2>5
  <2>7. \A j \in 1 .. n - k : k + j \in 1 .. f /\ k + j <= p /\ c[j] = g[k + j]
    <3> TAKE j \in 1 .. n - k
    <3>1. k + j \in 1 .. f /\ k + j <= p /\ m + j - 1 = k + j /\ j \in 1 .. n - m + 1
      BY <1>0, <2>3, <2>6
    <3>2. c[j] = g[m + j - 1]
      BY <2>5, <3>1
    <3> QED BY <3>1, <3>2
  <2>8. \A i \in 1 .. f : i <= p /\ ~ (i <= k) => i - k \in 1 .. n - k
    BY <1>0, <2>3
  <2> QED BY <1>1, <2>3, <2>4, <2>6, <2>7, <2>8 DEF p, f, g, k
<1>3. CASE pc[s] = "empty"
  <2>1. ChunkOf(s) = <<>> /\ k = p
    BY <1>3 DEF ChunkOf, Done
  <2>2. Len(ChunkOf(s)) = 0
    BY <2>1
  <2> HIDE DEF k, p, f, g
  <2>3. \A i \in 1 .. f : ~ (i <= p /\ ~ (i <= k))
    BY <2>1
  <2>4. \A j \in 1 .. Len(ChunkOf(s)) : FALSE
    BY <2>2
  <2> QED BY <1>0, <1>1, <2>1, <2>3, <2>4 DEF p, f, g, k
<1> QED BY <1>2, <1>3

\* Within a redistribution an edge is at one place of one list only, so that
\* no two chunks and no chunk and an earlier one hold it.
LEMMA OnePlace ==
  ASSUME TypeOK, NEW s \in Rank, NEW t \in Rank, NEW i \in 1 .. Len(G(s)), NEW j \in 1 .. Len(G(t)),
         G(s)[i] = G(t)[j]
  PROVE  s = t /\ i = j
<1>1. Home(G(s)[i]) = s /\ Home(G(t)[j]) = t
  BY GeneratedOnce
<1>2. s = t
  BY <1>1
<1>3. \A k, l \in 1 .. Len(G(s)) : G(s)[k] = G(s)[l] => k = l
  BY GeneratedOnce
<1> QED BY <1>2, <1>3

\* Some rank has edge e in its chunk.
InChunk(e) == \E s \in Rank : \E j \in 1 .. Len(ChunkOf(s)) : ChunkOf(s)[j] = e

\* What the chunks hold was not sent before.
LEMMA NewlySent ==
  ASSUME TypeOK, Local, \A s \in Rank : pc[s] \in {"given", "empty"} /\ pass[s] = 3, NEW e, InChunk(e)
  PROVE  ~ Sent(e)
<1> SUFFICES ASSUME Sent(e) PROVE FALSE
  OBVIOUS
<1>1. PICK s \in Rank : \E j \in 1 .. Len(ChunkOf(s)) : ChunkOf(s)[j] = e
  BY DEF InChunk
<1>2. PICK j \in 1 .. Len(ChunkOf(s)) : ChunkOf(s)[j] = e
  BY <1>1
<1>3. PICK t \in Rank : SentBy(t, e)
  BY DEF Sent
<1>4. /\ Done(s) \in Nat /\ filled[s] = Len(G(s))
      /\ Done(s) + j \in 1 .. filled[s] /\ ChunkOf(s)[j] = G(s)[Done(s) + j]
  BY ChunkPlaces DEF Local
<1>5. filled[t] = Len(G(t)) /\ ~ Late(t)
  BY ChunkPlaces DEF Local
<1>6. PICK i \in 1 .. filled[t] : i <= Done(t) /\ G(t)[i] = e
  BY <1>3, <1>5 DEF SentBy
<1>7. i \in 1 .. Len(G(t)) /\ Done(s) + j \in 1 .. Len(G(s)) /\ G(s)[Done(s) + j] = G(t)[i]
  BY <1>2, <1>4, <1>5, <1>6
<1>8. s = t /\ Done(s) + j = i
  BY <1>7, OnePlace
<1> QED BY <1>4, <1>6, <1>8

\* What a rank receives: the edges it owns that the chunks hold, each once.
LEMMA CountReceived ==
  ASSUME TypeOK, Local, \A s \in Rank : pc[s] \in {"given", "empty"} /\ pass[s] = 3,
         NEW r \in Rank, NEW e
  PROVE  Count(Received(r), e) = IF owner[e] = r /\ InChunk(e) THEN 1 ELSE 0
<1> DEFINE R == Received(r)
<1>1. \A s \in Rank : ChunkOf(s) \in Seq(Edge)
  BY ChunkType DEF Local
<1>2. /\ R \in Seq(Edge)
      /\ \A k \in 1 .. Len(R) : \E s \in Rank : \E i \in 1 .. Len(ChunkOf(s)) :
           ChunkOf(s)[i] = R[k] /\ owner[R[k]] = r
      /\ \A s \in Rank : \A i \in 1 .. Len(ChunkOf(s)) :
           owner[ChunkOf(s)[i]] = r => \E k \in 1 .. Len(R) : R[k] = ChunkOf(s)[i]
      /\ \A k, l \in 1 .. Len(R) : k # l /\ R[k] = R[l] =>
           \E s, t \in Rank : \E i \in 1 .. Len(ChunkOf(s)), j \in 1 .. Len(ChunkOf(t)) :
             <<s, i>> # <<t, j>> /\ ChunkOf(s)[i] = R[k] /\ ChunkOf(t)[j] = R[k]
  <2>1. R \in Seq(Edge)
    BY <1>1, ReceivedList
  <2>2. \A k \in 1 .. Len(R) : \E s \in Rank : \E i \in 1 .. Len(ChunkOf(s)) :
          ChunkOf(s)[i] = R[k] /\ owner[R[k]] = r
    BY <1>1, ReceivedList
  <2>3. \A s \in Rank : \A i \in 1 .. Len(ChunkOf(s)) :
          owner[ChunkOf(s)[i]] = r => \E k \in 1 .. Len(R) : R[k] = ChunkOf(s)[i]
    BY <1>1, ReceivedList
  <2>4. \A k, l \in 1 .. Len(R) : k # l /\ R[k] = R[l] =>
          \E s, t \in Rank : \E i \in 1 .. Len(ChunkOf(s)), j \in 1 .. Len(ChunkOf(t)) :
            <<s, i>> # <<t, j>> /\ ChunkOf(s)[i] = R[k] /\ ChunkOf(t)[j] = R[k]
    BY <1>1, ReceivedList
  <2> QED BY <2>1, <2>2, <2>3, <2>4
<1> HIDE DEF R
<1>3. ASSUME NEW s \in Rank, NEW t \in Rank, NEW i \in 1 .. Len(ChunkOf(s)), NEW j \in 1 .. Len(ChunkOf(t)),
             ChunkOf(s)[i] = ChunkOf(t)[j]
      PROVE  s = t /\ i = j
  <2>1. /\ Done(s) \in Nat /\ filled[s] = Len(G(s))
        /\ Done(s) + i \in 1 .. filled[s] /\ ChunkOf(s)[i] = G(s)[Done(s) + i]
    BY ChunkPlaces DEF Local
  <2>2. /\ Done(t) \in Nat /\ filled[t] = Len(G(t))
        /\ Done(t) + j \in 1 .. filled[t] /\ ChunkOf(t)[j] = G(t)[Done(t) + j]
    BY ChunkPlaces DEF Local
  <2>3. /\ Done(s) + i \in 1 .. Len(G(s)) /\ Done(t) + j \in 1 .. Len(G(t))
        /\ G(s)[Done(s) + i] = G(t)[Done(t) + j]
    BY <1>3, <2>1, <2>2
  <2>4. s = t /\ Done(s) + i = Done(t) + j
    BY <2>3, OnePlace
  <2>5. i \in Int /\ j \in Int
    OBVIOUS
  <2> QED BY <2>1, <2>4, <2>5
<1>4. \A k, l \in 1 .. Len(R) : R[k] = R[l] => k = l
  <2> SUFFICES ASSUME NEW k \in 1 .. Len(R), NEW l \in 1 .. Len(R), R[k] = R[l], k # l PROVE FALSE
    OBVIOUS
  <2>1. PICK s \in Rank, t \in Rank : \E i \in 1 .. Len(ChunkOf(s)), j \in 1 .. Len(ChunkOf(t)) :
          <<s, i>> # <<t, j>> /\ ChunkOf(s)[i] = R[k] /\ ChunkOf(t)[j] = R[k]
    BY <1>2
  <2>2. PICK i \in 1 .. Len(ChunkOf(s)), j \in 1 .. Len(ChunkOf(t)) :
          <<s, i>> # <<t, j>> /\ ChunkOf(s)[i] = R[k] /\ ChunkOf(t)[j] = R[k]
    BY <2>1
  <2>3. s = t /\ i = j
    BY <1>3, <2>2
  <2> QED BY <2>2, <2>3
<1>5. CASE owner[e] = r /\ InChunk(e)
  <2>1. PICK s \in Rank : \E j \in 1 .. Len(ChunkOf(s)) : ChunkOf(s)[j] = e
    BY <1>5 DEF InChunk
  <2>2. PICK j \in 1 .. Len(ChunkOf(s)) : ChunkOf(s)[j] = e
    BY <2>1
  <2>3. PICK k \in 1 .. Len(R) : R[k] = e
    BY <1>2, <1>5, <2>2
  <2>4. \A i \in 1 .. Len(R) : R[i] = e <=> i = k
    BY <1>4, <2>3
  <2>5. Count(R, e) = 1
    BY <1>2, <2>4, CountOne
  <2> QED BY <1>5, <2>5 DEF R
<1>6. CASE ~ (owner[e] = r /\ InChunk(e))
  <2>1. ASSUME NEW i \in 1 .. Len(R), R[i] = e PROVE FALSE
    <3>1. PICK s \in Rank : \E j \in 1 .. Len(ChunkOf(s)) : ChunkOf(s)[j] = R[i] /\ owner[R[i]] = r
      BY <1>2
    <3> QED BY <1>6, <2>1, <3>1 DEF InChunk
  <2>2. Count(R, e) = 0
    BY <1>2, <2>1, CountOne
  <2> QED BY <1>6, <2>2 DEF R
<1> QED BY <1>5, <1>6

-----------------------------------------------------------------------------
\* A scatter delivers the edges of the chunks, each to its owner.
LEMMA ConservedScatter ==
  ASSUME TypeOK, Local, InStep, Conserved, Scatter
  PROVE  Conserved'
<1>1. (\A r \in Rank : ~ Late(r)) /\ (\A r, s \in Rank : pass[r] = pass[s])
  BY SamePass
<1>2. /\ owner' = owner /\ data' = data /\ filled' = filled /\ offset' = offset /\ over' = over
      /\ block' = block /\ pass' = pass
  BY DEF Scatter, readVars
<1>3. \A r \in Rank : /\ pc[r] \in {"given", "empty"} /\ pass[r] \in 1 .. 3
                      /\ pass[r] = 3 => recv'[r] = Received(r) /\ pc'[r] = "write"
                      /\ pass[r] # 3 => recv'[r] = <<>> /\ pc'[r] = "read"
  BY ScatterParts
<1>4. Edge' = Edge /\ \A r : G(r)' = G(r)
  BY <1>2, Same
<1>5. CASE \A r \in Rank : pass[r] # 3
  <2>1. ASSUME NEW r \in Rank PROVE Kept(r) = <<>> /\ Kept(r)' = <<>>
    <3>1. pass[r] < 3 /\ pass'[r] < 3
      BY <1>2, <1>3, <1>5
    <3> QED BY <3>1 DEF Kept
  <2>2. ASSUME NEW r \in Rank, NEW e PROVE ~ SentBy(r, e) /\ ~ SentBy(r, e)'
    BY <1>2, <1>3, <1>5 DEF SentBy, Late
  <2>3. \A e : ~ Sent(e) /\ ~ Sent(e)'
    BY <2>2 DEF Sent
  <2> QED BY <1>2, <1>4, <2>1, <2>3 DEF Conserved
<1>6. CASE \A r \in Rank : pass[r] = 3
  <2>1. \A s \in Rank : pc[s] \in {"given", "empty"} /\ pass[s] = 3
    BY <1>3, <1>6
  <2>2. ASSUME NEW e PROVE Sent(e)' <=> Sent(e) \/ InChunk(e)
    <3>1. ASSUME NEW s \in Rank
          PROVE  SentBy(s, e)' <=> SentBy(s, e) \/ \E j \in 1 .. Len(ChunkOf(s)) : ChunkOf(s)[j] = e
      <4> DEFINE f == filled[s]
                 k == Done(s)
                 p == ReadPosition(s)
      <4>1. /\ k \in Nat /\ f = Len(G(s)) /\ ~ Late(s)
            /\ \A j \in 1 .. Len(ChunkOf(s)) :
                 /\ k + j \in 1 .. f /\ k + j <= p /\ ChunkOf(s)[j] = G(s)[k + j]
            /\ \A i \in 1 .. f : i <= p /\ ~ (i <= k) => i - k \in 1 .. Len(ChunkOf(s))
        BY <2>1, ChunkPlaces DEF Local
      <4>2. Done(s)' = p
        BY <1>2, <1>3, <2>1 DEF Done, ReadPosition
      <4>3. ~ Late(s)' /\ pass'[s] = 3 /\ pc'[s] = "write"
        BY <1>2, <1>3, <2>1 DEF Late
      <4>4. SentBy(s, e)' <=> \E i \in 1 .. f : i <= p /\ G(s)[i] = e
        BY <1>2, <1>4, <4>2, <4>3 DEF SentBy, Looping
      <4>5. SentBy(s, e) <=> \E i \in 1 .. f : i <= k /\ G(s)[i] = e
        BY <2>1, <4>1 DEF SentBy, Looping
      <4>6. k <= p /\ p \in Nat /\ f \in Nat
        BY Facts DEF Done
      <4> HIDE DEF f, k, p
      <4>7. ASSUME NEW i \in 1 .. f, i <= p, G(s)[i] = e, ~ (i <= k)
            PROVE  \E j \in 1 .. Len(ChunkOf(s)) : ChunkOf(s)[j] = e
        <5>1. i - k \in 1 .. Len(ChunkOf(s)) /\ k + (i - k) = i
          BY <4>1, <4>7
        <5> QED BY <4>1, <4>7, <5>1
      <4>8. ASSUME NEW j \in 1 .. Len(ChunkOf(s)), ChunkOf(s)[j] = e
            PROVE  \E i \in 1 .. f : i <= p /\ G(s)[i] = e
        BY <4>1, <4>8
      <4>9. ASSUME NEW i \in 1 .. f, i <= k PROVE i <= p
        BY <4>1, <4>6, <4>9
      <4> QED BY <4>4, <4>5, <4>7, <4>8, <4>9
    <3> QED BY <3>1 DEF Sent, InChunk
  <2>3. ASSUME NEW r \in Rank, NEW e \in Edge
        PROVE  Count(Kept(r)', e) = IF owner[e] = r /\ Sent(e)' THEN 1 ELSE 0
    <3> DEFINE a == SubSeq(data[r], 1, offset[r])
               x == Received(r)
    <3>1. recv[r] = <<>> /\ LocalOf(r)
      BY <2>1 DEF Local, LocalOf, Sizes
    <3>2. Kept(r) = a \o over[r] \o recv[r]
      <4>1. ~ (pass[r] < 3 \/ (pass[r] = 3 /\ pc[r] = "begin"))
        BY <2>1
      <4> QED BY <4>1 DEF Kept
    <3>3. Kept(r)' = a \o over[r] \o x
      <4>1. ~ (pass'[r] < 3 \/ (pass'[r] = 3 /\ pc'[r] = "begin"))
        BY <1>2, <1>3, <2>1
      <4>2. Kept(r)' = SubSeq(data'[r], 1, offset'[r]) \o over'[r] \o recv'[r]
        BY <4>1 DEF Kept
      <4>3. recv'[r] = x
        BY <1>3, <2>1
      <4> QED BY <1>2, <4>2, <4>3
    <3>4. /\ a \in Seq(Edge)
          /\ Count(Kept(r), e) = Count(a, e) + Count(over[r], e) + Count(recv[r], e)
          /\ Count(a, e) \in Nat /\ Count(over[r], e) \in Nat
      BY <3>1, <3>2, KeptParts
    <3>5. Count(recv[r], e) = 0
      BY <3>1, CountEmpty
    <3>6. x \in Seq(Edge) /\ over[r] \in Seq(Edge)
      <4>1. \A s \in Rank : ChunkOf(s) \in Seq(Edge)
        BY ChunkType DEF Local
      <4> QED BY <4>1, ReceivedList, Facts
    <3>7. Count(x, e) = IF owner[e] = r /\ InChunk(e) THEN 1 ELSE 0
      BY <2>1, CountReceived
    <3> HIDE DEF a, x
    <3>8. Count(Kept(r)', e) = Count(a, e) + Count(over[r], e) + Count(x, e)
      <4> DEFINE y == a \o over[r]
      <4>1. y \in Seq(Edge) /\ Count(y, e) = Count(a, e) + Count(over[r], e)
        BY <3>4, <3>6, CountConcat
      <4> HIDE DEF y
      <4>2. Count(y \o x, e) = Count(y, e) + Count(x, e)
        BY <3>6, <4>1, CountConcat
      <4> QED BY <3>3, <4>1, <4>2 DEF y
    <3>9. Count(Kept(r), e) = IF owner[e] = r /\ Sent(e) THEN 1 ELSE 0
      BY DEF Conserved
    <3>10. InChunk(e) => ~ Sent(e)
      BY <2>1, NewlySent
    <3>11. Sent(e)' <=> Sent(e) \/ InChunk(e)
      BY <2>2
    <3> DEFINE ka == Count(a, e)
               kb == Count(over[r], e)
               kx == Count(x, e)
    <3>12. /\ ka \in Nat /\ kb \in Nat /\ Count(Kept(r), e) = ka + kb
           /\ Count(Kept(r)', e) = ka + kb + kx
      BY <3>4, <3>5, <3>8
    <3>13. kx = IF owner[e] = r /\ InChunk(e) THEN 1 ELSE 0
      BY <3>7
    <3> HIDE DEF ka, kb, kx
    <3>14. CASE owner[e] = r
      BY <3>9, <3>10, <3>11, <3>12, <3>13, <3>14
    <3>15. CASE owner[e] # r
      BY <3>9, <3>12, <3>13, <3>15
    <3> QED BY <3>14, <3>15
  <2> QED BY <1>2, <1>4, <2>3 DEF Conserved
<1> QED BY <1>1, <1>5, <1>6

\* When the redistribution ends, every edge has been sent.
LEMMA ConservedEndWrite ==
  ASSUME TypeOK, Local, Conserved, EndWrite, TypeOK', Local'
  PROVE  Conserved'
<1>1. \A r \in Rank : pc[r] = "read" /\ loop[r] = NumLoops /\ pass[r] = 3
  <2> TAKE r \in Rank
  <2>1. pc[r] = "read" /\ loop[r] = NumLoops /\ Rewrites(pass[r])
    BY DEF EndWrite
  <2>2. pass[r] \in 1 .. 6 /\ pass[r] # 6
    BY <2>1 DEF TypeOK, Local, LocalOf, Sizes
  <2> QED BY <2>1, <2>2, PassKinds
<1>2. /\ owner' = owner /\ data' = data /\ offset' = offset /\ over' = over /\ recv' = recv
      /\ pass' = pass /\ \A r \in Rank : pc'[r] = "end"
  BY DEF EndWrite
<1>3. \A r \in Rank : Kept(r)' = Kept(r)
  BY <1>1, <1>2 DEF Kept
<1>4. \A e : Sent(e)'
  BY <1>1, <1>2, Constants DEF Sent, SentBy, Late
<1>5. ASSUME NEW e \in Edge PROVE Sent(e)
  <2> DEFINE s == Home(e)
  <2>1. s \in Rank
    BY HomeRank
  <2> HIDE DEF s
  <2>2. PICK i \in 1 .. Len(G(s)) : G(s)[i] = e
    BY <2>1, GeneratedOnce DEF s
  <2>3. filled[s] = Len(G(s)) /\ filled[s] <= maxSize
    BY <1>1, <2>1 DEF Local, LocalOf, Sizes, Late
  <2>4. filled[s] <= ReadPosition(s)
    BY <1>1, <2>1, <2>3, AllRead DEF Local
  <2>5. Done(s) = ReadPosition(s)
    BY <1>1, <2>1 DEF Done
  <2>6. filled[s] \in Nat /\ ReadPosition(s) \in Nat
    BY <2>1, Facts
  <2>7. i \in 1 .. filled[s] /\ i <= Done(s)
    BY <2>3, <2>4, <2>5, <2>6
  <2> QED BY <1>1, <2>1, <2>2, <2>7 DEF Sent, SentBy, Looping
<1>6. Edge' = Edge
  BY <1>2, Same
<1> QED BY <1>2, <1>3, <1>4, <1>5, <1>6 DEF Conserved

\* Every step keeps every sent edge at its owner.
LEMMA ConservedNext ==
  ASSUME TypeOK, Local, InStep, Conserved, [Next]_vars, TypeOK', Local'
  PROVE  Conserved'
<1>1. ASSUME NEW r \in Rank, OneRank(r) PROVE Conserved'
  <2>1. owner' = owner /\ Edge' = Edge
    BY <1>1, PlaceOf, Same DEF Local
  <2>2. \A e : Sent(e)' <=> Sent(e)
    BY <1>1, SentByOne DEF Sent
  <2>3. \A s \in Rank, e \in Edge : Count(Kept(s)', e) = Count(Kept(s), e)
    BY <1>1, KeptByOne
  <2> QED BY <2>1, <2>2, <2>3 DEF Conserved
<1>2. CASE Scatter
  BY <1>2, ConservedScatter
<1>3. CASE EndWrite
  BY <1>3, ConservedEndWrite
<1>4. CASE UNCHANGED vars
  <2>1. /\ owner' = owner /\ data' = data /\ filled' = filled /\ block' = block /\ offset' = offset
        /\ over' = over /\ pass' = pass /\ pc' = pc /\ recv' = recv
    BY <1>4 DEF vars, readVars, progVars
  <2>2. Edge' = Edge /\ \A s : G(s)' = G(s)
    BY <2>1, Same
  <2>3. \A s \in Rank : Kept(s)' = Kept(s)
    BY <2>1 DEF Kept
  <2>4. \A e : Sent(e)' <=> Sent(e)
    BY <2>1, <2>2 DEF Sent, SentBy, Late, Done, ReadPosition
  <2> QED BY <2>1, <2>2, <2>3, <2>4 DEF Conserved
<1> QED BY <1>1, <1>2, <1>3, <1>4 DEF Next, OneRank

\* At the start nothing was sent and nothing is kept.
LEMMA ConservedInit ==
  ASSUME Init
  PROVE  Conserved
<1>1. \A r \in Rank : pass[r] = 1
  BY DEF Init
<1>2. \A r \in Rank : Kept(r) = <<>>
  BY <1>1 DEF Kept
<1>3. \A e : ~ Sent(e)
  BY <1>1 DEF Sent, SentBy, Late
<1> QED BY <1>2, <1>3, CountEmpty DEF Conserved

\* The number of times a complete pass was given an edge, from the invariants.
LEMMA GivenAll ==
  ASSUME TypeOK, Local, Conserved, NEW r \in Rank, pass[r] <= Len(Passes), pc[r] = "end",
         loop[r] = NumLoops, ~ Rewrites(pass[r]), NEW e \in Edge
  PROVE  Counted(r, e) =
           IF IF Checks(pass[r]) THEN owner[e] = r ELSE ((e - 1) \div Chunk) % NumRanks = r
           THEN 1 ELSE 0
<1>0. /\ filled[r] \in Nat /\ ReadPosition(r) \in Nat /\ ReadPosition(r) = block[r] * Chunk
      /\ maxSize \in Nat /\ NumLoops \in Nat /\ pass[r] \in 1 .. 6
      /\ data[r] \in Seq(Edge) /\ G(r) \in Seq(Edge) /\ over[r] \in Seq(Edge)
      /\ Len(data[r]) \in Nat /\ Len(G(r)) \in Nat
  BY Facts
<1>1. LocalOf(r)
  BY DEF Local
<1>2. pass[r] \in 1 .. 5 /\ pass[r] # 3 /\ (Checks(pass[r]) <=> pass[r] > 3)
  BY <1>0, PassKinds
<1>3. filled[r] <= maxSize
  BY <1>0, <1>1, <1>2 DEF LocalOf, Sizes, Late
<1>4. filled[r] <= ReadPosition(r)
  <2>1. filled[r] <= ReadPosition(r) \/ block[r] = NumLoops
    BY <1>0, <1>1, <1>2, Facts DEF LocalOf, Steps
  <2>2. maxSize <= NumLoops * Chunk
    BY <1>0, LoopsCover
  <2>3. CASE block[r] = NumLoops
    <3>1. ReadPosition(r) = NumLoops * Chunk
      BY <1>0, <2>3
    <3> QED BY <1>0, <1>3, <2>2, <3>1
  <2> QED BY <2>1, <2>3
<1>5. seen[r] = SubSeq(Source(r), 1, filled[r])
  <2>1. Done(r) = ReadPosition(r)
    BY DEF Done
  <2>2. Least(ReadPosition(r), filled[r]) = filled[r]
    BY <1>0, <1>4 DEF Least
  <2>3. seen[r] = SubSeq(Source(r), 1, Least(Done(r), filled[r]))
    BY <1>1, <1>2 DEF LocalOf, SeenOK
  <2> QED BY <2>1, <2>2, <2>3
<1>6. Counted(r, e) = Count(seen[r], e)
  BY DEF Counted, Count
<1>7. CASE pass[r] < 3
  <2>1. Source(r) = G(r) /\ filled[r] = Len(G(r))
    BY <1>0, <1>1, <1>7 DEF Source, LocalOf, Sizes, Late
  <2>2. SubSeq(G(r), 1, Len(G(r))) = G(r)
    BY <1>0
  <2>3. seen[r] = G(r)
    BY <1>5, <2>1, <2>2
  <2> DEFINE g == G(r)
  <2>4. /\ g \in Seq(Edge) /\ \A i \in 1 .. Len(g) : Home(g[i]) = r
        /\ \A i, j \in 1 .. Len(g) : g[i] = g[j] => i = j
        /\ Home(e) = r => \E i \in 1 .. Len(g) : g[i] = e
    BY GeneratedOnce
  <2> HIDE DEF g
  <2>5. CASE Home(e) = r
    <3>1. PICK k \in 1 .. Len(g) : g[k] = e
      BY <2>4, <2>5
    <3>2. \A i \in 1 .. Len(g) : g[i] = e <=> i = k
      BY <2>4, <3>1
    <3>3. Count(g, e) = 1
      BY <2>4, <3>2, CountOne
    <3> QED BY <1>0, <1>2, <1>6, <1>7, <2>3, <2>5, <3>3 DEF Home, g
  <2>6. CASE Home(e) # r
    <3>1. \A i \in 1 .. Len(g) : g[i] # e
      BY <2>4, <2>6
    <3>2. Count(g, e) = 0
      BY <2>4, <3>1, CountOne
    <3> QED BY <1>0, <1>2, <1>6, <1>7, <2>3, <2>6, <3>2 DEF Home, g
  <2> QED BY <2>5, <2>6
<1>8. CASE pass[r] > 3
  <2>1. Source(r) = data[r] /\ over[r] = <<>> /\ filled[r] = offset[r] /\ recv[r] = <<>>
    BY <1>0, <1>1, <1>8 DEF Source, LocalOf, Sizes
  <2>2. Kept(r) = SubSeq(data[r], 1, offset[r]) \o over[r] \o recv[r]
    <3>1. ~ (pass[r] < 3 \/ (pass[r] = 3 /\ pc[r] = "begin"))
      BY <1>0, <1>8
    <3> QED BY <3>1 DEF Kept
  <2>3. Count(Kept(r), e) = Count(SubSeq(data[r], 1, offset[r]), e) + Count(over[r], e) + Count(recv[r], e)
        /\ Count(SubSeq(data[r], 1, offset[r]), e) \in Nat
    BY <1>1, <2>2, KeptParts
  <2>4. Count(over[r], e) = 0 /\ Count(recv[r], e) = 0
    BY <2>1, CountEmpty
  <2>5. Count(seen[r], e) = Count(Kept(r), e)
    BY <1>5, <2>1, <2>3, <2>4
  <2>6. Sent(e)
    BY <1>8 DEF Sent, SentBy, Late
  <2>7. Count(Kept(r), e) = IF owner[e] = r THEN 1 ELSE 0
    BY <2>6 DEF Conserved
  <2> QED BY <1>2, <1>6, <1>8, <2>5, <2>7
<1> QED BY <1>2, <1>7, <1>8

\* A pass that makes all its iterations is given every edge once that the rank
\* holds: before redistribute_edge_2d the edges that generate_graph dealt to
\* it, afterwards the edges that edge_owner assigns to it.
THEOREM PassesComplete == Spec => []PassComplete
<1>1. Init => TypeOK /\ Local /\ InStep /\ Conserved
  BY LocalInit, InStepInit, ConservedInit
<1>2. TypeOK /\ Local /\ InStep /\ Conserved /\ [Next]_vars => (TypeOK /\ Local /\ InStep /\ Conserved)'
  BY LocalNext, InStepNext, ConservedNext
<1>3. TypeOK /\ Local /\ Conserved => PassComplete
  BY GivenAll DEF PassComplete
<1> QED BY <1>1, <1>2, <1>3, PTL DEF Spec
=============================================================================
