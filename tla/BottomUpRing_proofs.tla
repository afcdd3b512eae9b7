------------------------ MODULE BottomUpRing_proofs ------------------------
(***************************************************************************)
(* The ring of a processor row for every number of ranks and of buffers:   *)
(* it never runs out of messages or buffers, and a slice meets every rank  *)
(* once and comes home, whatever the ranks and MPI do in which order.      *)
(***************************************************************************)
EXTENDS BottomUpRing, TLAPS

USE RingAssumption

-----------------------------------------------------------------------------
(* Places on the ring *)

\* The rank m hops to the right, or to the left, of rank r.
Fwd(r, m) == IF r + m < Size THEN r + m ELSE r + m - Size
Bwd(r, m) == IF m <= r THEN r - m ELSE r - m + Size

Slices == Size * Substeps

\* Step s of a rank is about a slice with number Sub(s) of its owner, which
\* has been searched Hop(s) times before.
Hop(s) == s \div Substeps
Sub(s) == s % Substeps

\* Slices with an even number travel to the right, the others to the left.
\* The rank m hops before rank r on the way of the slice of step s:
Before(r, s, m) == IF s % 2 = 0 THEN Bwd(r, m) ELSE Fwd(r, m)
Tag(r, s)       == Before(r, s, Hop(s)) * Substeps + Sub(s)

LEMMA Neighbours ==
  ASSUME NEW r \in Rank
  PROVE  Right(r) = Fwd(r, 1) /\ Left(r) = Bwd(r, 1) /\ Right(r) \in Rank /\ Left(r) \in Rank
  BY DEF Right, Left, Fwd, Bwd, Rank

LEMMA Steps ==
  ASSUME NEW s \in Nat
  PROVE  /\ Hop(s) \in Nat /\ Sub(s) \in 0 .. Substeps - 1
         /\ s = Hop(s) * Substeps + Sub(s)
         /\ Hop(s + Substeps) = Hop(s) + 1 /\ Sub(s + Substeps) = Sub(s)
         /\ (s + Substeps) % 2 = s % 2 /\ Sub(s) % 2 = s % 2
  <1>1. CASE Substeps = 2
    BY <1>1 DEF Hop, Sub
  <1>2. CASE Substeps = 4
    BY <1>2 DEF Hop, Sub
  <1> QED BY <1>1, <1>2

LEMMA Bounds ==
  /\ Slices \in Nat /\ Slices % 2 = 0 /\ Slices >= Substeps
  /\ TotalSteps = Slices + Substeps
  /\ \A s \in Nat : /\ s < Slices <=> Hop(s) < Size
                    /\ s < TotalSteps <=> Hop(s) <= Size
                    /\ s < Substeps <=> Hop(s) = 0
  <1>1. CASE Substeps = 2
    BY <1>1 DEF Slices, TotalSteps, Hop
  <1>2. CASE Substeps = 4
    BY <1>2 DEF Slices, TotalSteps, Hop
  <1> QED BY <1>1, <1>2

LEMMA Way ==
  ASSUME NEW r \in Rank, NEW s \in Nat, NEW m \in 0 .. Size
  PROVE  /\ Before(r, s, m) \in Rank
         /\ Before(r, s, m) = r <=> m \in {0, Size}
         /\ m < Size => /\ s % 2 = 0 => Before(Left(r), s, m) = Before(r, s, m + 1)
                        /\ s % 2 # 0 => Before(Right(r), s, m) = Before(r, s, m + 1)
  BY Neighbours DEF Before, Fwd, Bwd, Rank

LEMMA Turned ==
  ASSUME NEW r \in Rank
  PROVE  Left(Right(r)) = r /\ Right(Left(r)) = r
  <1>1. Right(r) = Fwd(r, 1) /\ Left(r) = Bwd(r, 1) /\ Right(r) \in Rank /\ Left(r) \in Rank
    BY Neighbours
  <1>2. Left(Right(r)) = Bwd(Right(r), 1) /\ Right(Left(r)) = Fwd(Left(r), 1)
    BY <1>1, Neighbours
  <1> QED BY <1>1, <1>2 DEF Fwd, Bwd, Rank

\* The parts of a tag.
LEMMA Parts ==
  ASSUME NEW o \in Rank, NEW k \in 0 .. Substeps - 1
  PROVE  /\ o * Substeps + k \in Region
         /\ OwnerOf(o * Substeps + k) = o /\ (o * Substeps + k) % Substeps = k
  <1>1. CASE Substeps = 2
    BY <1>1 DEF Rank, Region, OwnerOf
  <1>2. CASE Substeps = 4
    BY <1>2 DEF Rank, Region, OwnerOf
  <1> QED BY <1>1, <1>2

LEMMA Tags ==
  ASSUME NEW r \in Rank, NEW s \in 0 .. TotalSteps - 1
  PROVE  /\ Tag(r, s) \in Region
         /\ OwnerOf(Tag(r, s)) = Before(r, s, Hop(s)) /\ Tag(r, s) % Substeps = Sub(s)
         /\ OwnerOf(Tag(r, s)) = r <=> s < Substeps \/ Slices <= s
  <1>1. s \in Nat /\ Hop(s) \in 0 .. Size
    BY Steps, Bounds
  <1>2. Before(r, s, Hop(s)) \in Rank /\ Sub(s) \in 0 .. Substeps - 1
    BY <1>1, Way, Steps
  <1>3. Before(r, s, Hop(s)) = r <=> Hop(s) \in {0, Size}
    BY <1>1, Way
  <1>4. Hop(s) \in {0, Size} <=> s < Substeps \/ Slices <= s
    BY <1>1, Bounds
  <1>5. OwnerOf(Tag(r, s)) = Before(r, s, Hop(s))
    BY <1>2, Parts DEF Tag
  <1> QED BY <1>2, <1>3, <1>4, <1>5, Parts DEF Tag

\* A tag that a neighbour has sent is the one the rank expects.
LEMMA TagMoves ==
  ASSUME NEW r \in Rank, NEW s \in 0 .. Slices - 1
  PROVE  /\ s % 2 = 0 => Tag(Left(r), s) = Tag(r, s + Substeps)
         /\ s % 2 # 0 => Tag(Right(r), s) = Tag(r, s + Substeps)
  <1>1. s \in Nat /\ Hop(s) \in 0 .. Size /\ Hop(s) < Size
    BY Steps, Bounds
  <1>2. /\ Hop(s + Substeps) = Hop(s) + 1 /\ Sub(s + Substeps) = Sub(s)
        /\ (s + Substeps) % 2 = s % 2
    BY <1>1, Steps
  <1>3. /\ s % 2 = 0 => Before(Left(r), s, Hop(s)) = Before(r, s, Hop(s) + 1)
        /\ s % 2 # 0 => Before(Right(r), s, Hop(s)) = Before(r, s, Hop(s) + 1)
    BY <1>1, Way
  <1>4. Before(r, s, Hop(s) + 1) = Before(r, s + Substeps, Hop(s) + 1)
    BY <1>2 DEF Before
  <1> QED BY <1>2, <1>3, <1>4 DEF Tag
-----------------------------------------------------------------------------
(* Counters and tags *)

Message == [region : Region, buf : Buffer, req : {2, 3}, copied : BOOLEAN, slice : SliceData]

\* A region_id fits its bits of the tag.
LEMMA TagKeeps ==
  ASSUME NEW d \in SliceTag, NEW req
  PROVE  Envelope(d, req) = [region |-> d.region, buf |-> d.buf, req |-> req,
                             copied |-> FALSE, slice |-> NoSlice]
  <1>1. d.region \in 0 .. Size * Substeps - 1
    BY DEF SliceTag, Region
  <1>2. Size * Substeps \in Nat /\ Size * Substeps <= 4096
    BY TagAssumption, Bounds DEF TagRegions, Slices
  <1>3. d.region % 4096 = d.region
    <2> DEFINE n == Size * Substeps
    <2> HIDE DEF n
    <2> QED BY <1>1, <1>2
  <1>4. d.region % TagRegions = d.region
    BY <1>3 DEF TagRegions
  <1> QED BY <1>4, Zenon DEF Envelope

StepType    == step \in [Rank -> Nat] /\ pc \in [Rank -> {"take", "search", "exchange", "copy"}]
DataType    == data \in [Rank -> SliceTag]
BitmapType  == bitmap \in [Rank -> [Buffer -> SliceData]]
PendingType == pending \in [Rank -> Seq(SliceTag)]
SendingType == sending \in [Rank -> Seq(SliceTag)]
PairType    == recvPair \in [Rank -> [Slot -> SliceTag]]
TopType     == recvTop \in [Rank -> Nat] /\ recvFilled \in [Rank -> Nat]
TailType    == recvTail \in [Rank -> Nat]
FreeType    == free \in [Rank -> Seq(Buffer)]
ReqsType    == active \in [Rank -> BOOLEAN] /\ reqs \in [Rank -> SUBSET (0 .. 3)]
StatusType  == status \in [Rank -> [{0, 1} -> Region]]
NetType     == net \in [Rank -> [Rank -> Seq(Message)]]
VisType     == newVis \in [Region -> SliceData]
LastType    == last \in [Region -> Seq(Rank)]

TypesOK == /\ StepType /\ DataType /\ BitmapType /\ PendingType /\ SendingType
           /\ PairType /\ TopType /\ TailType /\ FreeType /\ ReqsType /\ StatusType
           /\ NetType /\ VisType /\ LastType

\* A rank at place at of step n, with l slices that it has searched and not yet
\* sent, t that it has sent and k that it has taken from the ring: it searches in
\* all but the last Substeps steps, and takes in all but the first.
Ledger(at, n, l, t, k) ==
  /\ at = "take" => /\ n <= TotalSteps /\ l <= 1
                    /\ t + l = IF n < Slices THEN n ELSE Slices
                    /\ k = IF n < Substeps THEN 0 ELSE n - Substeps
  /\ at = "search" => n < Slices /\ l <= 1 /\ t + l = n
  /\ at = "exchange" => n < Slices /\ l = 2 /\ t + l = n + 1
  /\ at = "copy" => Slices <= n /\ n < TotalSteps /\ l = 0 /\ t = Slices
  /\ at # "take" => k = IF n < Substeps THEN 0 ELSE n + 1 - Substeps

\* The counters of a rank.
CountOK(r) ==
  /\ recvTop[r] % 2 = 0 /\ recvTop[r] <= Slices
  /\ active[r] => recvTop[r] >= 2
  /\ recvFilled[r] = IF active[r] THEN recvTop[r] - 2 ELSE recvTop[r]
  /\ ~ active[r] => reqs[r] = {}
  /\ Len(free[r]) = NumBuffers - Substeps - (recvTop[r] - recvFilled[r])
  /\ recvTail[r] <= recvFilled[r]
  /\ Len(sending[r]) = IF recvTop[r] = 0 THEN 0 ELSE 2
  /\ Ledger(pc[r], step[r], Len(pending[r]), recvTop[r], recvTail[r])

\* Tags are those of the steps in which the slices will be, or were, in work.
TagOK(r) ==
  /\ pc[r] # "take" => data[r].region = Tag(r, step[r])
  /\ \A k \in DOMAIN pending[r] : pending[r][k].region = Tag(r, recvTop[r] + k - 1)
  /\ \A j \in recvTail[r] .. recvFilled[r] - 1 :
       recvPair[r][j % 4].region = Tag(r, j + Substeps)
  /\ active[r] => \A k \in {0, 1} \ reqs[r] :
       status[r][k] = Tag(r, recvTop[r] - 2 + k + Substeps)

\* The first slice in each direction that rank q has not received.
Next0(q) == recvTop[q] - (IF 0 \in reqs[q] THEN 2 ELSE 0)
Next1(q) == recvTop[q] + 1 - (IF 1 \in reqs[q] THEN 2 ELSE 0)

\* A message of rank p about the slice of its step n.
About(e, p, n) == e.region = Tag(p, n) /\ e.req = IF n % 2 = 0 THEN 2 ELSE 3

\* The messages of rank p are about its steps n, n + by, n + 2 * by, ...
Trail(s, p, n, by) == \A j \in DOMAIN s : About(s[j], p, n + by * (j - 1))

\* With three ranks or more, neighbours are told apart by the direction.
ManyOK(p, q) ==
  /\ q = Right(p) => recvTop[p] - Next0(q) = 2 * Len(net[p][q]) /\ Trail(net[p][q], p, Next0(q), 2)
  /\ q = Left(p) => (recvTop[p] + 1) - Next1(q) = 2 * Len(net[p][q]) /\ Trail(net[p][q], p, Next1(q), 2)
  /\ q \notin {Left(p), Right(p)} => net[p][q] = <<>>

\* With one or two, messages in both directions follow each other.
NextOfTwo(q) == recvTop[q] - (IF 0 \in reqs[q] THEN 2 ELSE IF 1 \in reqs[q] THEN 1 ELSE 0)
FewOK(p, q) ==
  /\ q = Right(p) => recvTop[p] - NextOfTwo(q) = Len(net[p][q]) /\ Trail(net[p][q], p, NextOfTwo(q), 1)
  /\ q # Right(p) => net[p][q] = <<>>

NetOK ==
  IF Size >= 3 THEN \A p, q \in Rank : ManyOK(p, q)
  ELSE \A p, q \in Rank : FewOK(p, q) /\ (0 \in reqs[q] => 1 \in reqs[q])

RingInv == TypesOK /\ (\A r \in Rank : CountOK(r) /\ TagOK(r)) /\ NetOK
-----------------------------------------------------------------------------
(* Types *)

LEMMA InitTypes == Init => TypesOK
  <1> SUFFICES ASSUME Init PROVE TypesOK
    OBVIOUS
  <1>1. Slices \in Nat /\ Slices >= Substeps /\ Region = 0 .. Slices - 1 /\ 0 \in Region
    BY Bounds DEF Region, Slices
  <1>2. 0 \in Buffer /\ NoSlice \in SliceData /\ [region |-> 0, buf |-> 0] \in SliceTag
    BY <1>1 DEF Buffer, NoSlice, SliceData, SliceTag
  <1>3. BitmapType
    <2> SUFFICES ASSUME NEW r \in Rank, NEW b \in Buffer
                 PROVE  (IF b < Substeps THEN [region |-> r * Substeps + b, path |-> <<>>]
                         ELSE NoSlice) \in SliceData
      BY DEF Init, BitmapType
    <2>1. CASE b < Substeps
      <3>1. r * Substeps + b \in Region
        BY <2>1, Parts DEF Buffer
      <3> QED BY <2>1, <3>1 DEF SliceData
    <2> QED BY <1>2, <2>1
  <1>4. FreeType
    <2> SUFFICES [k \in 1 .. NumBuffers - Substeps |-> Substeps + k - 1] \in Seq(Buffer)
      BY DEF Init, FreeType
    <2> QED BY DEF Buffer
  <1>5. PendingType /\ SendingType /\ NetType /\ LastType
    BY DEF Init, PendingType, SendingType, NetType, LastType
  <1>6. DataType /\ PairType /\ StatusType /\ VisType
    BY <1>1, <1>2 DEF Init, DataType, PairType, StatusType, VisType
  <1>7. StepType /\ TopType /\ TailType /\ ReqsType
    BY DEF Init, StepType, TopType, TailType, ReqsType
  <1> QED BY <1>3, <1>4, <1>5, <1>6, <1>7 DEF TypesOK

\* What two received tags change.
LEMMA CompleteWrites ==
  ASSUME PairType, StatusType, TopType, NEW r \in Rank, Complete(r)
  PROVE  LET s0 == TagSlot(r, 0)
             s1 == TagSlot(r, 1)
         IN  /\ s0 \in Slot /\ s1 \in Slot /\ s0 # s1
             /\ PairType'
             /\ \A q \in Rank \ {r} : recvPair'[q] = recvPair[q]
             /\ \A s \in Slot : /\ recvPair'[r][s].buf = recvPair[r][s].buf
                                /\ recvPair'[r][s].region =
                                     IF s = s0 THEN status[r][0] ELSE IF s = s1 THEN status[r][1]
                                     ELSE recvPair[r][s].region
  <1> DEFINE s0 == TagSlot(r, 0)
             s1 == TagSlot(r, 1)
             g0 == status[r][0]
             g1 == status[r][1]
             a == [recvPair[r][s0] EXCEPT !.region = g0]
             pair == [recvPair[r] EXCEPT ![s0] = a]
             b == [pair[s1] EXCEPT !.region = g1]
             both == [pair EXCEPT ![s1] = b]
  <1>1. s0 \in Slot /\ s1 \in Slot /\ s0 # s1
    BY DEF TagSlot, Slot, TopType
  <1>2. g0 \in Region /\ g1 \in Region
    BY DEF StatusType
  <1>3. recvPair' = [recvPair EXCEPT ![r] = both]
    BY DEF Complete, PairType
  <1> HIDE DEF s0, s1, g0, g1
  <1>4. recvPair[r] \in [Slot -> SliceTag] /\ a \in SliceTag
        /\ a.region = g0 /\ a.buf = recvPair[r][s0].buf
    BY <1>1, <1>2 DEF PairType, SliceTag
  <1> HIDE DEF a
  <1>5. pair \in [Slot -> SliceTag] /\ pair[s0] = a
        /\ \A s \in Slot \ {s0} : pair[s] = recvPair[r][s]
    BY <1>1, <1>4
  <1> HIDE DEF pair
  <1>6. b \in SliceTag /\ b.region = g1 /\ b.buf = recvPair[r][s1].buf
    BY <1>1, <1>2, <1>5 DEF SliceTag
  <1> HIDE DEF b
  <1>7. both \in [Slot -> SliceTag] /\ both[s1] = b /\ \A s \in Slot \ {s1} : both[s] = pair[s]
    BY <1>1, <1>5, <1>6
  <1> HIDE DEF both
  <1>8. PairType' /\ recvPair'[r] = both /\ \A q \in Rank \ {r} : recvPair'[q] = recvPair[q]
    BY <1>3, <1>7 DEF PairType
  <1> QED BY <1>1, <1>4, <1>5, <1>6, <1>7, <1>8 DEF s0, s1, g0, g1

LEMMA CompleteTypes ==
  ASSUME TypesOK, NEW r \in Rank, Complete(r), Len(sending[r]) = 2
  PROVE  TypesOK'
  <1> USE DEF TypesOK
  <1>8. PairType'
    BY CompleteWrites
  <1>9. FreeType'
    <2>1. sending[r][1] \in SliceTag /\ sending[r][2] \in SliceTag
      <3>1. sending[r] \in Seq(SliceTag) /\ 1 \in DOMAIN sending[r] /\ 2 \in DOMAIN sending[r]
        BY DEF SendingType
      <3> QED BY <3>1
    <2>2. sending[r][1].buf \in Buffer /\ sending[r][2].buf \in Buffer
      BY <2>1 DEF SliceTag
    <2>3. Freed(r) \in Seq(Buffer)
      BY <2>2 DEF Freed, FreeType
    <2> QED BY <2>3 DEF Complete, FreeType
  <1>10. TopType' /\ ReqsType'
    BY DEF Complete, TopType, ReqsType
  <1>11. /\ StepType' /\ DataType' /\ BitmapType' /\ PendingType' /\ SendingType'
         /\ TailType' /\ StatusType' /\ NetType' /\ VisType' /\ LastType'
    BY DEF Complete, StepType, DataType, BitmapType, PendingType, SendingType,
           TailType, StatusType, NetType, VisType, LastType
  <1> QED BY <1>8, <1>9, <1>10, <1>11

LEMMA TakeTypes ==
  ASSUME TypesOK, NEW r \in Rank, Take(r)
  PROVE  TypesOK'
  <1> USE DEF TypesOK
  <1>1. DataType'
    <2>1. CASE step[r] < Substeps
      <3>1. step[r] \in 0 .. Substeps - 1 /\ step[r] \in Buffer
        BY <2>1 DEF Buffer, StepType
      <3>2. r * Substeps + step[r] \in Region
        BY <3>1, Parts
      <3>3. data' = [data EXCEPT ![r] = [region |-> r * Substeps + step[r], buf |-> step[r]]]
        BY <2>1 DEF Take
      <3> QED BY <3>1, <3>2, <3>3 DEF SliceTag, DataType
    <2>2. CASE ~ (step[r] < Substeps)
      <3> DEFINE d == recvPair[r][recvTail[r] % 4]
      <3>1. recvTail[r] % 4 \in Slot
        BY DEF Slot, TailType
      <3>2. d \in SliceTag
        BY <3>1 DEF PairType
      <3>3. data' = [data EXCEPT ![r] = d]
        BY <2>2 DEF Take
      <3> HIDE DEF d
      <3> QED BY <3>2, <3>3 DEF DataType
    <2> QED BY <2>1, <2>2
  <1>2. TailType'
    BY DEF Take, TailType
  <1>3. StepType'
    BY DEF Take, StepType
  <1>4. /\ BitmapType' /\ PendingType' /\ SendingType' /\ PairType' /\ TopType' /\ FreeType'
        /\ ReqsType' /\ StatusType' /\ NetType' /\ VisType' /\ LastType'
    BY DEF Take, BitmapType, PendingType, SendingType, PairType, TopType, FreeType,
           ReqsType, StatusType, NetType, VisType, LastType
  <1> QED BY <1>1, <1>2, <1>3, <1>4

\* What a search writes.
LEMMA SearchWrites ==
  ASSUME BitmapType, DataType, LastType, NEW r \in Rank, Search(r)
  PROVE  LET b == data[r].buf
             g == data[r].region
             searched == [region |-> bitmap[r][b].region, path |-> Append(bitmap[r][b].path, r)]
         IN  /\ b \in Buffer /\ g \in Region /\ searched \in SliceData
             /\ bitmap' = [bitmap EXCEPT ![r] = [bitmap[r] EXCEPT ![b] = searched]]
             /\ last' = [last EXCEPT ![g] = searched.path]
  <1> DEFINE b == data[r].buf
             g == data[r].region
             searched == [region |-> bitmap[r][b].region, path |-> Append(bitmap[r][b].path, r)]
  <1>1. data[r] \in SliceTag
    BY DEF DataType
  <1>2. b \in Buffer /\ g \in Region
    BY <1>1 DEF SliceTag
  <1>3. bitmap[r] \in [Buffer -> SliceData] /\ bitmap[r][b] \in SliceData
    BY <1>2 DEF BitmapType
  <1>4. searched \in SliceData
    BY <1>3 DEF SliceData
  <1>5. [bitmap[r][b] EXCEPT !.path = Append(@, r)] = searched
    <2> DEFINE old == bitmap[r][b]
    <2>1. old \in [region : Region, path : Seq(Rank)]
      BY <1>3 DEF SliceData
    <2> HIDE DEF old
    <2>2. [old EXCEPT !.path = Append(@, r)] = [region |-> old.region, path |-> Append(old.path, r)]
      BY <2>1, SMTT(30)
    <2> QED BY <2>2 DEF old
  <1>6. bitmap' = [bitmap EXCEPT ![r] = [bitmap[r] EXCEPT ![b] = [bitmap[r][b] EXCEPT !.path = Append(@, r)]]]
    BY DEF Search, BitmapType
  <1>7. last' = [last EXCEPT ![g] = bitmap'[r][b].path]
    BY DEF Search
  <1> HIDE DEF searched, b, g
  <1>8. bitmap' = [bitmap EXCEPT ![r] = [bitmap[r] EXCEPT ![b] = searched]]
    BY <1>5, <1>6
  <1>9. bitmap'[r][b] = searched
    BY <1>2, <1>3, <1>8 DEF BitmapType
  <1> QED BY <1>2, <1>4, <1>7, <1>8, <1>9 DEF searched, b, g

LEMMA SearchTypes ==
  ASSUME TypesOK, NEW r \in Rank, Search(r)
  PROVE  TypesOK'
  <1> USE DEF TypesOK
  <1> DEFINE b == data[r].buf
             g == data[r].region
             searched == [region |-> bitmap[r][b].region, path |-> Append(bitmap[r][b].path, r)]
  <1>1. /\ b \in Buffer /\ g \in Region /\ searched \in SliceData
        /\ bitmap' = [bitmap EXCEPT ![r] = [bitmap[r] EXCEPT ![b] = searched]]
        /\ last' = [last EXCEPT ![g] = searched.path]
    BY SearchWrites
  <1>2. searched.path \in Seq(Rank)
    BY <1>1 DEF SliceData
  <1> HIDE DEF searched, b, g
  <1>3. BitmapType'
    BY <1>1 DEF BitmapType
  <1>4. LastType'
    BY <1>1, <1>2 DEF LastType
  <1>5. PendingType'
    <2>1. data[r] \in SliceTag
      BY DEF DataType
    <2> QED BY <2>1 DEF Search, PendingType
  <1>6. StepType'
    <2>1. CASE Len(pending[r]) = 1
      BY <2>1 DEF Search, StepType
    <2>2. CASE Len(pending[r]) # 1
      BY <2>2 DEF Search, StepType
    <2> QED BY <2>1, <2>2
  <1>7. /\ DataType' /\ SendingType' /\ PairType' /\ TopType' /\ TailType' /\ FreeType'
        /\ ReqsType' /\ StatusType' /\ NetType' /\ VisType'
    BY DEF Search, DataType, SendingType, PairType, TopType, TailType, FreeType,
           ReqsType, StatusType, NetType, VisType
  <1> QED BY <1>3, <1>4, <1>5, <1>6, <1>7

\* The messages of rank r go to its neighbours, those of the others stay.
PostedRow(r, pair) ==
  \A p, q \in Rank : Posted(r, pair)[p][q] =
    IF p # r THEN net[p][q]
    ELSE IF q = Right(r) /\ q = Left(r)
         THEN Append(Append(net[r][q], Envelope(pair[1], 2)), Envelope(pair[2], 3))
    ELSE IF q = Right(r) THEN Append(net[r][q], Envelope(pair[1], 2))
    ELSE IF q = Left(r) THEN Append(net[r][q], Envelope(pair[2], 3))
    ELSE net[r][q]

LEMMA PostedNet ==
  ASSUME NEW r \in Rank, NEW pair, net \in [Rank -> [Rank -> Seq(Message)]],
         Envelope(pair[1], 2) \in Message, Envelope(pair[2], 3) \in Message
  PROVE  /\ Posted(r, pair) \in [Rank -> [Rank -> Seq(Message)]]
         /\ PostedRow(r, pair)
  <1> DEFINE e == Envelope(pair[1], 2)
             f == Envelope(pair[2], 3)
             row == [net[r] EXCEPT ![Right(r)] = Append(@, e)]
             toRight == [net EXCEPT ![r] = row]
             row2 == [row EXCEPT ![Left(r)] = Append(@, f)]
  <1>1. Right(r) \in Rank /\ Left(r) \in Rank /\ e \in Message /\ f \in Message
    BY Neighbours
  <1> HIDE DEF e, f
  <1>2. row \in [Rank -> Seq(Message)]
    BY <1>1
  <1>3. row2 \in [Rank -> Seq(Message)]
    <2> HIDE DEF row
    <2> QED BY <1>1, <1>2
  <1>4. toRight \in [Rank -> [Rank -> Seq(Message)]] /\ toRight[r] = row
    <2> HIDE DEF row
    <2> QED BY <1>2
  <1>5. Posted(r, pair) = [toRight EXCEPT ![r] = [toRight[r] EXCEPT ![Left(r)] = Append(@, f)]]
    BY <1>4 DEF Posted, e, f
  <1>6. Posted(r, pair) = [toRight EXCEPT ![r] = row2]
    BY <1>4, <1>5
  <1>7. Posted(r, pair) \in [Rank -> [Rank -> Seq(Message)]]
        /\ Posted(r, pair)[r] = row2 /\ \A p \in Rank \ {r} : Posted(r, pair)[p] = net[p]
    <2> HIDE DEF row2
    <2> QED BY <1>3, <1>4, <1>6
  <1>8. \A q \in Rank : row2[q] =
          IF q = Right(r) /\ q = Left(r) THEN Append(Append(net[r][q], e), f)
          ELSE IF q = Right(r) THEN Append(net[r][q], e)
          ELSE IF q = Left(r) THEN Append(net[r][q], f)
          ELSE net[r][q]
    BY <1>1, <1>2
  <1> QED BY <1>7, <1>8, ZenonT(30) DEF e, f, PostedRow

\* What the start of an exchange changes.
LEMMA StartWrites ==
  ASSUME PairType, FreeType, TopType, PendingType, NetType, NEW r \in Rank, StartExchange(r),
         Len(pending[r]) = 2
  PROVE  LET s0 == recvTop[r] % 4
             s1 == (recvTop[r] + 1) % 4
             n  == Len(free[r])
         IN  /\ s0 \in Slot /\ s1 \in Slot /\ s0 # s1
             /\ free[r][n] \in Buffer /\ free[r][n - 1] \in Buffer
             /\ PairType'
             /\ \A q \in Rank \ {r} : recvPair'[q] = recvPair[q]
             /\ \A s \in Slot : /\ recvPair'[r][s].region = recvPair[r][s].region
                                /\ recvPair'[r][s].buf =
                                     IF s = s0 THEN free[r][n] ELSE IF s = s1 THEN free[r][n - 1]
                                     ELSE recvPair[r][s].buf
             /\ pending[r][1] \in SliceTag /\ pending[r][2] \in SliceTag
             /\ Envelope(pending[r][1], 2) \in Message /\ Envelope(pending[r][2], 3) \in Message
             /\ n >= 2 /\ FreeType'
  <1> DEFINE s0 == recvTop[r] % 4
             s1 == (recvTop[r] + 1) % 4
             n  == Len(free[r])
             g0 == free[r][n]
             g1 == free[r][n - 1]
             a == [recvPair[r][s0] EXCEPT !.buf = g0]
             pair == [recvPair[r] EXCEPT ![s0] = a]
             b == [pair[s1] EXCEPT !.buf = g1]
             both == [pair EXCEPT ![s1] = b]
  <1>1. s0 \in Slot /\ s1 \in Slot /\ s0 # s1
    BY DEF Slot, TopType
  <1>2. g0 \in Buffer /\ g1 \in Buffer /\ n >= 2 /\ FreeType'
    <2>1. free[r] \in Seq(Buffer) /\ n >= 2 /\ n \in DOMAIN free[r] /\ n - 1 \in DOMAIN free[r]
      <3>1. n >= 2
        BY Zenon DEF StartExchange
      <3>2. free[r] \in Seq(Buffer)
        BY DEF FreeType
      <3> QED BY <3>1, <3>2
    <2>2. g0 \in Buffer /\ g1 \in Buffer /\ SubSeq(free[r], 1, n - 2) \in Seq(Buffer)
      BY <2>1
    <2>3. free' = [free EXCEPT ![r] = SubSeq(free[r], 1, n - 2)]
      BY DEF StartExchange, FreeType
    <2> QED BY <2>1, <2>2, <2>3 DEF FreeType
  <1>3. recvPair' = [recvPair EXCEPT ![r] = both]
    BY DEF StartExchange, PairType
  <1>4. pending[r][1] \in SliceTag /\ pending[r][2] \in SliceTag
    <2>1. pending[r] \in Seq(SliceTag) /\ 1 \in DOMAIN pending[r] /\ 2 \in DOMAIN pending[r]
      BY DEF PendingType
    <2> QED BY <2>1
  <1>5. Envelope(pending[r][1], 2) \in Message /\ Envelope(pending[r][2], 3) \in Message
    <2>1. NoSlice \in SliceData
      <3>1. 0 \in Region
        BY Bounds DEF Region, Slices
      <3> QED BY <3>1 DEF NoSlice, SliceData
    <2>2. ASSUME NEW d \in SliceTag, NEW i \in {2, 3} PROVE Envelope(d, i) \in Message
      <3>1. [region |-> d.region, buf |-> d.buf, req |-> i, copied |-> FALSE,
             slice |-> NoSlice] \in Message
        BY <2>1 DEF Message, SliceTag
      <3>2. Envelope(d, i) = [region |-> d.region, buf |-> d.buf, req |-> i,
                              copied |-> FALSE, slice |-> NoSlice]
        BY TagKeeps
      <3> QED BY <3>1, <3>2
    <2> QED BY <1>4, <2>2
  <1> HIDE DEF s0, s1, g0, g1
  <1>6. recvPair[r] \in [Slot -> SliceTag] /\ a \in SliceTag
        /\ a.buf = g0 /\ a.region = recvPair[r][s0].region
    BY <1>1, <1>2 DEF PairType, SliceTag
  <1> HIDE DEF a
  <1>7. pair \in [Slot -> SliceTag] /\ pair[s0] = a
        /\ \A s \in Slot \ {s0} : pair[s] = recvPair[r][s]
    BY <1>1, <1>6
  <1> HIDE DEF pair
  <1>8. b \in SliceTag /\ b.buf = g1 /\ b.region = recvPair[r][s1].region
    BY <1>1, <1>2, <1>7 DEF SliceTag
  <1> HIDE DEF b
  <1>9. both \in [Slot -> SliceTag] /\ both[s1] = b /\ \A s \in Slot \ {s1} : both[s] = pair[s]
    BY <1>1, <1>7, <1>8
  <1> HIDE DEF both
  <1>10. PairType' /\ recvPair'[r] = both /\ \A q \in Rank \ {r} : recvPair'[q] = recvPair[q]
    BY <1>3, <1>9 DEF PairType
  <1> QED BY <1>1, <1>2, <1>4, <1>5, <1>6, <1>7, <1>8, <1>9, <1>10 DEF s0, s1, g0, g1

LEMMA StartTypes ==
  ASSUME TypesOK, NEW r \in Rank, StartExchange(r), Len(pending[r]) = 2
  PROVE  TypesOK'
  <1> USE DEF TypesOK
  <1>1. PairType' /\ FreeType'
    BY StartWrites
  <1>2. NetType'
    <2>1. Envelope(pending[r][1], 2) \in Message /\ Envelope(pending[r][2], 3) \in Message
      BY StartWrites
    <2> QED BY <2>1, PostedNet DEF StartExchange, NetType
  <1>3. PendingType' /\ SendingType'
    <2> HIDE DEF TypesOK
    <2>1. pending \in [Rank -> Seq(SliceTag)] /\ sending \in [Rank -> Seq(SliceTag)]
      BY DEF TypesOK, PendingType, SendingType
    <2>2. /\ pending' = [pending EXCEPT ![r] = <<>>]
          /\ sending' = [sending EXCEPT ![r] = pending[r]]
      BY DEF StartExchange
    <2>3. pending' \in [Rank -> Seq(SliceTag)] /\ sending' \in [Rank -> Seq(SliceTag)]
      BY <2>1, <2>2
    <2> QED BY <2>3 DEF PendingType, SendingType
  <1>4. TopType' /\ ReqsType' /\ StepType'
    <2>1. TopType'
      BY DEF StartExchange, TopType
    <2>2. ReqsType'
      BY DEF StartExchange, ReqsType
    <2>3. StepType'
      <3> HIDE DEF TypesOK
      <3>1. /\ step' = [step EXCEPT ![r] = @ + 1] /\ pc' = [pc EXCEPT ![r] = "take"]
            /\ active' = [active EXCEPT ![r] = TRUE]
        BY DEF StartExchange
      <3> QED BY <3>1 DEF TypesOK, StepType
    <2> QED BY <2>1, <2>2, <2>3
  <1>5. DataType' /\ BitmapType' /\ TailType' /\ StatusType' /\ VisType' /\ LastType'
    BY DEF StartExchange, DataType, BitmapType, TailType, StatusType, VisType, LastType
  <1> QED BY <1>1, <1>2, <1>3, <1>4, <1>5

LEMMA CopyTypes ==
  ASSUME TypesOK, NEW r \in Rank, CopyHome(r)
  PROVE  TypesOK'
  <1> USE DEF TypesOK
  <1>1. data[r].buf \in Buffer /\ data[r].region \in Region
    BY DEF DataType, SliceTag
  <1>2. bitmap[r][data[r].buf] \in SliceData
    BY <1>1 DEF BitmapType
  <1>3. VisType'
    BY <1>1, <1>2 DEF CopyHome, VisType
  <1>4. StepType'
    BY DEF CopyHome, StepType
  <1>5. /\ DataType' /\ BitmapType' /\ PendingType' /\ SendingType' /\ PairType' /\ TopType'
        /\ TailType' /\ FreeType' /\ ReqsType' /\ StatusType' /\ NetType' /\ LastType'
    BY DEF CopyHome, DataType, BitmapType, PendingType, SendingType, PairType, TopType,
           TailType, FreeType, ReqsType, StatusType, NetType, LastType
  <1> QED BY <1>3, <1>4, <1>5

\* A message that MPI copies keeps its place and what it is about.
CopiedAs(p, q, i, f) ==
  LET e == net[p][q][i] IN
  /\ e \in Message /\ i \in Nat
  /\ f.region = e.region /\ f.buf = e.buf /\ f.req = e.req
  /\ f.copied /\ f.slice = bitmap[p][e.buf]
  /\ \A a, b \in Rank : net'[a][b] = IF a = p /\ b = q THEN [net[p][q] EXCEPT ![i] = f] ELSE net[a][b]
  /\ \A a \in Rank : reqs'[a] = IF a = p THEN reqs[p] \ {e.req} ELSE reqs[a]

LEMMA BufferedWrites ==
  ASSUME NetType, BitmapType, ReqsType, NEW p \in Rank, NEW q \in Rank, NEW i \in DOMAIN net[p][q],
         Buffered(p, q, i)
  PROVE  NetType' /\ ReqsType' /\ \E f \in Message : CopiedAs(p, q, i, f)
  <1> DEFINE e == net[p][q][i]
             x == bitmap[p][e.buf]
             f == [e EXCEPT !.copied = TRUE, !.slice = x]
             c == [net[p][q] EXCEPT ![i] = f]
  <1>1. net[p][q] \in Seq(Message) /\ e \in Message /\ i \in Nat
    BY DEF NetType
  <1>2. x \in SliceData
    BY <1>1 DEF BitmapType, Message
  <1>3. net' = [net EXCEPT ![p] = [net[p] EXCEPT ![q] = c]]
    BY DEF Buffered, NetType
  <1>4. reqs' = [reqs EXCEPT ![p] = reqs[p] \ {e.req}]
    BY DEF Buffered, ReqsType
  <1>5. UNCHANGED active
    BY DEF Buffered
  <1> HIDE DEF c, e, x
  <1>6. f \in Message /\ f.region = e.region /\ f.buf = e.buf /\ f.req = e.req
        /\ f.copied /\ f.slice = x
    BY <1>1, <1>2 DEF Message
  <1>7. c \in Seq(Message)
    <2> HIDE DEF f
    <2> QED BY <1>1, <1>6 DEF c
  <1>8. NetType'
    BY <1>3, <1>7 DEF NetType
  <1>9. ReqsType' /\ \A a \in Rank : reqs'[a] = IF a = p THEN reqs[p] \ {e.req} ELSE reqs[a]
    BY <1>4, <1>5 DEF ReqsType
  <1>10. \A a, b \in Rank : net'[a][b] = IF a = p /\ b = q THEN c ELSE net[a][b]
    BY <1>3 DEF NetType
  <1> HIDE DEF f
  <1>11. CopiedAs(p, q, i, f)
    BY <1>1, <1>6, <1>9, <1>10 DEF CopiedAs, c, e, x
  <1> QED BY <1>6, <1>8, <1>9, <1>11

LEMMA BufferedTypes ==
  ASSUME TypesOK, NEW p \in Rank, NEW q \in Rank, NEW i \in DOMAIN net[p][q], Buffered(p, q, i)
  PROVE  TypesOK'
  <1> USE DEF TypesOK
  <1>1. NetType' /\ ReqsType'
    BY BufferedWrites
  <1>2. /\ StepType' /\ DataType' /\ BitmapType' /\ PendingType' /\ SendingType' /\ PairType'
        /\ TopType' /\ TailType' /\ FreeType' /\ StatusType' /\ VisType' /\ LastType'
    BY DEF Buffered, StepType, DataType, BitmapType, PendingType, SendingType, PairType, TopType,
           TailType, FreeType, StatusType, VisType, LastType
  <1> QED BY <1>1, <1>2

\* A message meets the older of the receives that are open for it.
Received(p, q, i) ==
  LET e    == Head(net[p][q])
      slot == (recvTop[q] - 2 + i) % 4
      b    == recvPair[q][slot].buf
      v    == IF e.copied THEN e.slice ELSE bitmap[p][e.buf]
  IN  /\ e \in Message /\ slot \in Slot /\ b \in Buffer /\ v \in SliceData
      /\ i \in {0, 1} /\ i \in reqs[q] /\ net[p][q] # <<>>
      /\ i = 0 => p = Left(q)
      /\ i = 1 => p = Right(q) /\ ~ (0 \in reqs[q] /\ p = Left(q))
      /\ \A x, y \in Rank : net'[x][y] = IF x = p /\ y = q THEN Tail(net[p][q]) ELSE net[x][y]
      /\ \A x \in Rank : /\ bitmap'[x] = IF x = q THEN [bitmap[q] EXCEPT ![b] = v] ELSE bitmap[x]
                         /\ status'[x] = IF x = q THEN [status[q] EXCEPT ![i] = e.region] ELSE status[x]
                         /\ reqs'[x] = reqs[x] \ ((IF x = q THEN {i} ELSE {}) \cup
                                                  (IF x = p /\ ~ e.copied THEN {e.req} ELSE {}))

LEMMA DeliverWrites ==
  ASSUME NetType, BitmapType, StatusType, ReqsType, PairType, TopType, NEW p \in Rank, NEW q \in Rank,
         NEW i \in OpenReceives(q, p), Deliver(p, q, i), recvTop[q] >= 2
  PROVE  NetType' /\ BitmapType' /\ StatusType' /\ ReqsType' /\ Received(p, q, i)
  <1> DEFINE e    == Head(net[p][q])
             slot == (recvTop[q] - 2 + i) % 4
             b    == recvPair[q][slot].buf
             v    == IF e.copied THEN e.slice ELSE bitmap[p][e.buf]
  <1>1. /\ i \in {0, 1} /\ i \in reqs[q] /\ net[p][q] # <<>>
        /\ i = 0 => p = Left(q)
        /\ i = 1 => p = Right(q)
    BY DEF OpenReceives, Deliver
  <1>2. i = 1 => ~ (0 \in reqs[q] /\ p = Left(q))
    <2> SUFFICES ASSUME i = 1, 0 \in reqs[q], p = Left(q) PROVE FALSE
      OBVIOUS
    <2>1. 0 \in OpenReceives(q, p)
      BY DEF OpenReceives
    <2> QED BY <2>1 DEF Deliver
  <1>3. net[p][q] \in Seq(Message) /\ e \in Message /\ Tail(net[p][q]) \in Seq(Message)
    BY <1>1 DEF NetType
  <1>4. slot \in Slot
    BY <1>1 DEF Slot, TopType
  <1> HIDE DEF slot
  <1>5. b \in Buffer
    <2>1. recvPair[q][slot] \in SliceTag
      BY <1>4 DEF PairType
    <2> QED BY <2>1 DEF SliceTag
  <1>6. v \in SliceData
    <2>1. bitmap[p][e.buf] \in SliceData /\ e.slice \in SliceData
      BY <1>3 DEF BitmapType, Message
    <2> QED BY <2>1
  <1>7. net' = [net EXCEPT ![p] = [net[p] EXCEPT ![q] = Tail(net[p][q])]]
    BY DEF Deliver, NetType
  <1>8. bitmap' = [bitmap EXCEPT ![q] = [bitmap[q] EXCEPT ![b] = v]]
    BY DEF Deliver, BitmapType, slot
  <1>9. status' = [status EXCEPT ![q] = [status[q] EXCEPT ![i] = e.region]]
    BY DEF Deliver, StatusType
  <1>10. /\ reqs' = [x \in Rank |-> reqs[x] \ ((IF x = q THEN {i} ELSE {}) \cup
                                     (IF x = p /\ ~ e.copied THEN {e.req} ELSE {}))]
         /\ UNCHANGED active
    BY DEF Deliver
  <1> HIDE DEF e, b, v
  <1>11. NetType' /\ \A x, y \in Rank :
                       net'[x][y] = IF x = p /\ y = q THEN Tail(net[p][q]) ELSE net[x][y]
    BY <1>3, <1>7 DEF NetType
  <1>12. BitmapType' /\ \A x \in Rank :
           bitmap'[x] = IF x = q THEN [bitmap[q] EXCEPT ![b] = v] ELSE bitmap[x]
    BY <1>5, <1>6, <1>8 DEF BitmapType
  <1>13. StatusType' /\ \A x \in Rank :
           status'[x] = IF x = q THEN [status[q] EXCEPT ![i] = e.region] ELSE status[x]
    <2>1. e.region \in Region
      BY <1>3 DEF Message
    <2> QED BY <1>1, <1>9, <2>1 DEF StatusType
  <1>14. ReqsType'
    BY <1>10 DEF ReqsType
  <1>15. \A x \in Rank : reqs'[x] = reqs[x] \ ((IF x = q THEN {i} ELSE {}) \cup
                                     (IF x = p /\ ~ e.copied THEN {e.req} ELSE {}))
    BY <1>10
  <1>16. \A x \in Rank : /\ bitmap'[x] = IF x = q THEN [bitmap[q] EXCEPT ![b] = v] ELSE bitmap[x]
                         /\ status'[x] = IF x = q THEN [status[q] EXCEPT ![i] = e.region]
                                         ELSE status[x]
                         /\ reqs'[x] = reqs[x] \ ((IF x = q THEN {i} ELSE {}) \cup
                                                  (IF x = p /\ ~ e.copied THEN {e.req} ELSE {}))
    BY <1>12, <1>13, <1>15, Zenon
  <1>17. Received(p, q, i)
    BY <1>1, <1>2, <1>3, <1>4, <1>5, <1>6, <1>11, <1>16, Zenon DEF Received, e, b, v, slot
  <1> QED BY <1>11, <1>12, <1>13, <1>14, <1>17

LEMMA DeliverTypes ==
  ASSUME TypesOK, NEW p \in Rank, NEW q \in Rank, NEW i \in OpenReceives(q, p), Deliver(p, q, i),
         recvTop[q] >= 2
  PROVE  TypesOK'
  <1> USE DEF TypesOK
  <1>1. NetType' /\ BitmapType' /\ StatusType' /\ ReqsType'
    BY DeliverWrites
  <1>2. /\ StepType' /\ DataType' /\ PendingType' /\ SendingType' /\ PairType'
        /\ TopType' /\ TailType' /\ FreeType' /\ VisType' /\ LastType'
    BY DEF Deliver, StepType, DataType, PendingType, SendingType, PairType, TopType,
           TailType, FreeType, VisType, LastType
  <1> QED BY <1>1, <1>2
-----------------------------------------------------------------------------
(* Counters and tags are kept *)

\* A rank whose counters and tags do not change.
LEMMA OtherRank ==
  ASSUME NEW x \in Rank, CountOK(x), TagOK(x),
         step'[x] = step[x], pc'[x] = pc[x], data'[x] = data[x], pending'[x] = pending[x],
         sending'[x] = sending[x], recvPair'[x] = recvPair[x], recvTop'[x] = recvTop[x],
         recvFilled'[x] = recvFilled[x], recvTail'[x] = recvTail[x], free'[x] = free[x],
         active'[x] = active[x], reqs'[x] = reqs[x], status'[x] = status[x]
  PROVE  CountOK(x)' /\ TagOK(x)'
  <1>1. CountOK(x)'
    BY DEF CountOK
  <1>2. TagOK(x)'
    BY DEF TagOK
  <1> QED BY <1>1, <1>2

LEMMA TrailAppend ==
  ASSUME NEW s \in Seq(Message), NEW e \in Message, NEW p, NEW n \in Int, NEW by \in {1, 2},
         Trail(s, p, n, by), About(e, p, n + by * Len(s))
  PROVE  Trail(Append(s, e), p, n, by)
  <1> SUFFICES ASSUME NEW j \in DOMAIN Append(s, e)
               PROVE  About(Append(s, e)[j], p, n + by * (j - 1))
    BY DEF Trail
  <1>1. CASE j = Len(s) + 1
    <2>1. Append(s, e)[j] = e /\ j - 1 = Len(s)
      BY <1>1
    <2> QED BY <2>1
  <1>2. CASE j # Len(s) + 1
    <2>1. j \in DOMAIN s /\ Append(s, e)[j] = s[j]
      BY <1>2
    <2> QED BY <2>1 DEF Trail
  <1> QED BY <1>1, <1>2

LEMMA TrailTail ==
  ASSUME NEW s \in Seq(Message), NEW p, NEW n \in Int, NEW by \in {1, 2}, Trail(s, p, n, by), s # <<>>
  PROVE  /\ About(Head(s), p, n) /\ Trail(Tail(s), p, n + by, by)
         /\ Len(Tail(s)) = Len(s) - 1 /\ Len(s) \in Nat
  <1>1. 1 \in DOMAIN s /\ Head(s) = s[1] /\ Len(Tail(s)) = Len(s) - 1 /\ Len(s) \in Nat
    OBVIOUS
  <1>2. About(s[1], p, n)
    <2>1. n + by * (1 - 1) = n
      OBVIOUS
    <2> QED BY <1>1, <2>1 DEF Trail
  <1>3. ASSUME NEW j \in DOMAIN Tail(s)
        PROVE  About(Tail(s)[j], p, (n + by) + by * (j - 1))
    <2>1. j + 1 \in DOMAIN s /\ Tail(s)[j] = s[j + 1] /\ j \in Nat
      OBVIOUS
    <2>2. n + by * ((j + 1) - 1) = (n + by) + by * (j - 1)
      <3>1. CASE by = 1
        BY <2>1, <3>1
      <3>2. CASE by = 2
        BY <2>1, <3>2
      <3> QED BY <3>1, <3>2
    <2> QED BY <2>1, <2>2 DEF Trail
  <1> QED BY <1>1, <1>2, <1>3 DEF Trail

\* Messages when none is sent and no receive is met.
LEMMA SameNet ==
  ASSUME NetOK, recvTop' = recvTop, \A x \in Rank, k \in {0, 1} : k \in reqs'[x] <=> k \in reqs[x],
         \A a, b \in Rank : /\ Len(net'[a][b]) = Len(net[a][b]) /\ DOMAIN net'[a][b] = DOMAIN net[a][b]
                            /\ net[a][b] = <<>> => net'[a][b] = <<>>
                            /\ \A j \in DOMAIN net[a][b] : /\ net'[a][b][j].region = net[a][b][j].region
                                                           /\ net'[a][b][j].req = net[a][b][j].req
  PROVE  NetOK'
  <1>1. ASSUME NEW a \in Rank, NEW b \in Rank, NEW n, NEW by, Trail(net[a][b], a, n, by)
        PROVE  Trail(net'[a][b], a, n, by)
    BY <1>1 DEF Trail, About
  <1>2. CASE Size >= 3
    <2>1. \A p, q \in Rank : Next0(q)' = Next0(q) /\ Next1(q)' = Next1(q)
      BY DEF Next0, Next1
    <2>2. ASSUME NEW p \in Rank, NEW q \in Rank PROVE ManyOK(p, q)'
      <3>1. ManyOK(p, q)
        BY <1>2 DEF NetOK
      <3> QED BY <1>1, <2>1, <3>1 DEF ManyOK
    <2> QED BY <1>2, <2>2 DEF NetOK
  <1>3. CASE ~ (Size >= 3)
    <2>1. \A p, q \in Rank : NextOfTwo(q)' = NextOfTwo(q)
      BY DEF NextOfTwo
    <2>2. ASSUME NEW p \in Rank, NEW q \in Rank
          PROVE  FewOK(p, q)' /\ (0 \in reqs'[q] => 1 \in reqs'[q])
      <3>1. FewOK(p, q) /\ (0 \in reqs[q] => 1 \in reqs[q])
        BY <1>3 DEF NetOK
      <3> QED BY <1>1, <2>1, <3>1 DEF FewOK
    <2> QED BY <1>3, <2>2 DEF NetOK
  <1> QED BY <1>2, <1>3

LEMMA InitInv == Init => RingInv
  <1> SUFFICES ASSUME Init PROVE RingInv
    OBVIOUS
  <1>1. TypesOK
    BY InitTypes
  <1>2. ASSUME NEW r \in Rank PROVE CountOK(r) /\ TagOK(r)
    <2>1. Slices \in Nat /\ Slices >= Substeps /\ Slices % 2 = 0 /\ TotalSteps = Slices + Substeps
      BY Bounds
    <2>2. /\ step[r] = 0 /\ pc[r] = "take" /\ pending[r] = <<>> /\ sending[r] = <<>>
          /\ recvTop[r] = 0 /\ recvFilled[r] = 0 /\ recvTail[r] = 0 /\ ~ active[r] /\ reqs[r] = {}
          /\ Len(free[r]) = NumBuffers - Substeps
      BY DEF Init
    <2> QED BY <2>1, <2>2 DEF CountOK, TagOK, Ledger
  <1>3. \A p, q \in Rank : net[p][q] = <<>> /\ recvTop[q] = 0 /\ recvTop[p] = 0 /\ reqs[q] = {}
    BY DEF Init
  <1>4. NetOK
    <2>1. ASSUME NEW p \in Rank, NEW q \in Rank PROVE ManyOK(p, q) /\ FewOK(p, q)
      <3>1. Next0(q) = 0 /\ Next1(q) = 1 /\ NextOfTwo(q) = 0
        BY <1>3 DEF Next0, Next1, NextOfTwo
      <3>2. net[p][q] = <<>> /\ Len(net[p][q]) = 0 /\ DOMAIN net[p][q] = {} /\ recvTop[p] = 0
        BY <1>3
      <3> QED BY <3>1, <3>2 DEF ManyOK, FewOK, Trail
    <2> QED BY <1>3, <2>1 DEF NetOK
  <1> QED BY <1>1, <1>2, <1>4 DEF RingInv

LEMMA Window ==
  ASSUME NEW at \in {"take", "search", "exchange", "copy"}, NEW n \in Nat, NEW l \in Nat,
         NEW t \in Nat, NEW k \in Nat, Ledger(at, n, l, t, k)
  PROVE  t - k <= 4 /\ (at = "exchange" => t - k <= 2)
  BY Bounds DEF Ledger

\* The slots of recv_pair are enough for what has been asked for and not taken.
LEMMA Room ==
  ASSUME TypesOK, NEW r \in Rank, CountOK(r)
  PROVE  /\ recvTop[r] \in Nat /\ recvFilled[r] \in Nat /\ recvTail[r] \in Nat /\ step[r] \in Nat
         /\ Len(pending[r]) \in Nat /\ Len(free[r]) \in Nat
         /\ recvTop[r] - recvTail[r] <= 4
         /\ pc[r] = "exchange" => recvTop[r] - recvTail[r] <= 2
         /\ pc[r] \in {"take", "search", "exchange", "copy"}
         /\ Slices \in Nat /\ Slices % 2 = 0 /\ Slices >= Substeps /\ TotalSteps = Slices + Substeps
  <1>1. /\ recvTop[r] \in Nat /\ recvFilled[r] \in Nat /\ recvTail[r] \in Nat /\ step[r] \in Nat
        /\ Len(pending[r]) \in Nat /\ Len(free[r]) \in Nat
        /\ pc[r] \in {"take", "search", "exchange", "copy"}
    BY DEF TypesOK, TopType, TailType, StepType, PendingType, FreeType
  <1>2. Slices \in Nat /\ Slices % 2 = 0 /\ Slices >= Substeps /\ TotalSteps = Slices + Substeps
    BY Bounds
  <1>3. Ledger(pc[r], step[r], Len(pending[r]), recvTop[r], recvTail[r])
    BY DEF CountOK
  <1>4. recvTop[r] - recvTail[r] <= 4 /\ (pc[r] = "exchange" => recvTop[r] - recvTail[r] <= 2)
    BY <1>1, <1>2, <1>3, Window
  <1> QED BY <1>1, <1>2, <1>4

LEMMA CompleteCounts ==
  ASSUME TypesOK, NEW r \in Rank, CountOK(r), TagOK(r), Complete(r)
  PROVE  CountOK(r)' /\ TagOK(r)'
  <1>1. /\ recvTop[r] \in Nat /\ recvFilled[r] \in Nat /\ recvTail[r] \in Nat /\ step[r] \in Nat
        /\ Len(free[r]) \in Nat /\ recvTop[r] - recvTail[r] <= 4
    BY Room
  <1>2. active[r] /\ reqs[r] = {} /\ ~ active'[r] /\ recvFilled'[r] = recvFilled[r] + 2
    BY DEF Complete, ExchangeDone, TypesOK, TopType, ReqsType
  <1>3. recvFilled[r] = recvTop[r] - 2 /\ recvTop[r] >= 2
    BY <1>2 DEF CountOK
  <1>4. Len(free'[r]) = Len(free[r]) + 2
    <2>1. free'[r] = Freed(r)
      BY DEF Complete, TypesOK, FreeType
    <2>2. sending[r][1] \in SliceTag /\ sending[r][2] \in SliceTag
      <3>1. sending[r] \in Seq(SliceTag) /\ Len(sending[r]) = 2
        BY <1>3 DEF TypesOK, SendingType, CountOK
      <3>2. 1 \in DOMAIN sending[r] /\ 2 \in DOMAIN sending[r]
        BY <3>1
      <3> QED BY <3>1, <3>2
    <2>3. free[r] \in Seq(Buffer) /\ <<sending[r][1].buf, sending[r][2].buf>> \in Seq(Buffer)
      BY <2>2 DEF TypesOK, FreeType, SliceTag
    <2> QED BY <2>1, <2>3 DEF Freed
  <1>5. UNCHANGED <<step, pc, data, pending, sending, recvTop, recvTail, reqs, status>>
    BY DEF Complete
  <1>6. CountOK(r)'
    <2>1. /\ recvTop'[r] = recvTop[r] /\ recvTail'[r] = recvTail[r] /\ step'[r] = step[r]
          /\ pc'[r] = pc[r] /\ pending'[r] = pending[r] /\ sending'[r] = sending[r]
          /\ reqs'[r] = {} /\ recvFilled'[r] = recvTop[r]
      BY <1>1, <1>2, <1>3, <1>5
    <2>2. Len(free'[r]) = NumBuffers - Substeps /\ recvTail[r] <= recvFilled[r]
      BY <1>1, <1>3, <1>4 DEF CountOK
    <2>3. /\ recvTop'[r] % 2 = 0 /\ recvTop'[r] <= Slices /\ recvTail'[r] <= recvFilled'[r]
          /\ Len(free'[r]) = NumBuffers - Substeps - (recvTop'[r] - recvFilled'[r])
      <3>1. recvTop[r] % 2 = 0 /\ recvTop[r] <= Slices /\ recvTail[r] <= recvFilled[r]
        BY DEF CountOK
      <3>2. recvTail'[r] <= recvFilled'[r]
        BY <1>1, <1>3, <2>1, <3>1
      <3>3. recvTop'[r] - recvFilled'[r] = 0
        BY <1>1, <2>1
      <3> QED BY <2>1, <2>2, <3>1, <3>2, <3>3
    <2>4. /\ Len(sending'[r]) = IF recvTop'[r] = 0 THEN 0 ELSE 2
          /\ Ledger(pc'[r], step'[r], Len(pending'[r]), recvTop'[r], recvTail'[r])
      BY <2>1 DEF CountOK
    <2>5. recvFilled'[r] = IF active'[r] THEN recvTop'[r] - 2 ELSE recvTop'[r]
      BY <1>2, <2>1
    <2> QED BY <1>2, <2>1, <2>3, <2>4, <2>5, Zenon DEF CountOK
  <1>7. TagOK(r)'
    <2> DEFINE s0 == TagSlot(r, 0)
               s1 == TagSlot(r, 1)
    <2>1. /\ s0 \in Slot /\ s1 \in Slot /\ s0 # s1
          /\ \A s \in Slot : recvPair'[r][s].region =
                               IF s = s0 THEN status[r][0] ELSE IF s = s1 THEN status[r][1]
                               ELSE recvPair[r][s].region
      BY CompleteWrites DEF TypesOK
    <2>2. s0 = recvFilled[r] % 4 /\ s1 = (recvFilled[r] + 1) % 4
      BY <1>1 DEF TagSlot
    <2>3. status[r][0] = Tag(r, recvFilled[r] + Substeps)
          /\ status[r][1] = Tag(r, recvFilled[r] + 1 + Substeps)
      BY <1>1, <1>2, <1>3 DEF TagOK
    <2> HIDE DEF s0, s1
    <2>4. ASSUME NEW j \in recvTail[r] .. recvFilled[r] + 1
          PROVE  recvPair'[r][j % 4].region = Tag(r, j + Substeps)
      <3>1. j % 4 \in Slot /\ j \in Nat
        BY <1>1 DEF Slot
      <3>2. CASE j = recvFilled[r]
        BY <2>1, <2>2, <2>3, <3>1, <3>2
      <3>3. CASE j = recvFilled[r] + 1
        BY <2>1, <2>2, <2>3, <3>1, <3>3
      <3>4. CASE j < recvFilled[r]
        <4>1. j % 4 # s0 /\ j % 4 # s1
          <5>1. /\ recvFilled[r] - j >= 1 /\ recvFilled[r] + 1 - j <= 3
            BY <1>1, <1>3, <3>1, <3>4, SMTT(30)
          <5> DEFINE f == recvFilled[r]
          <5>2. f \in Nat /\ j \in Nat /\ f - j >= 1 /\ f + 1 - j <= 3
            BY <1>1, <3>1, <5>1
          <5> HIDE DEF f
          <5>3. j % 4 # f % 4 /\ j % 4 # (f + 1) % 4
            BY <5>2
          <5> QED BY <2>2, <5>3 DEF f
        <4>2. recvPair'[r][j % 4].region = recvPair[r][j % 4].region
          BY <2>1, <3>1, <4>1
        <4> QED BY <1>1, <3>4, <4>2 DEF TagOK
      <3> QED BY <1>1, <3>2, <3>3, <3>4, SMTT(30)
    <2>5. /\ pc'[r] = pc[r] /\ data'[r] = data[r] /\ pending'[r] = pending[r]
          /\ recvTop'[r] = recvTop[r] /\ recvTail'[r] = recvTail[r] /\ step'[r] = step[r]
          /\ recvFilled'[r] - 1 = recvFilled[r] + 1
      BY <1>1, <1>2, <1>5
    <2> QED BY <1>2, <2>4, <2>5 DEF TagOK
  <1> QED BY <1>6, <1>7

LEMMA LedgerMoves ==
  ASSUME NEW n \in Nat, NEW l \in Nat, NEW t \in Nat, NEW k \in Nat
  PROVE  /\ Ledger("take", n, l, t, k) /\ t % 2 = 0 /\ n < TotalSteps =>
              IF n < Substeps THEN Ledger("search", n, l, t, k)
              ELSE Ledger(IF Slices <= n THEN "copy" ELSE "search", n, l, t, k + 1)
         /\ Ledger("search", n, l, t, k) =>
              IF l = 1 THEN Ledger("exchange", n, 2, t, k)
              ELSE l = 0 /\ Ledger("take", n + 1, 1, t, k)
         /\ Ledger("exchange", n, l, t, k) => t + 2 <= Slices /\ Ledger("take", n + 1, 0, t + 2, k)
         /\ Ledger("copy", n, l, t, k) => Ledger("take", n + 1, l, t, k)
  <1>1. Slices \in Nat /\ Slices % 2 = 0 /\ Slices >= Substeps /\ TotalSteps = Slices + Substeps
    BY Bounds
  <1>2. ASSUME Ledger("take", n, l, t, k), t % 2 = 0, n < TotalSteps
        PROVE  IF n < Substeps THEN Ledger("search", n, l, t, k)
               ELSE Ledger(IF Slices <= n THEN "copy" ELSE "search", n, l, t, k + 1)
    <2>1. /\ l <= 1 /\ t + l = (IF n < Slices THEN n ELSE Slices)
          /\ k = IF n < Substeps THEN 0 ELSE n - Substeps
      BY <1>2 DEF Ledger
    <2>2. CASE n < Substeps
      BY <1>1, <2>1, <2>2 DEF Ledger
    <2>3. CASE Substeps <= n /\ n < Slices
      BY <1>1, <2>1, <2>3 DEF Ledger
    <2>4. CASE Slices <= n
      <3>1. l = 0
        BY <1>1, <1>2, <2>1, <2>4
      <3> QED BY <1>1, <1>2, <2>1, <2>4, <3>1 DEF Ledger
    <2> QED BY <1>1, <2>2, <2>3, <2>4
  <1>3. ASSUME Ledger("search", n, l, t, k)
        PROVE  IF l = 1 THEN Ledger("exchange", n, 2, t, k)
               ELSE l = 0 /\ Ledger("take", n + 1, 1, t, k)
    BY <1>1, <1>3 DEF Ledger
  <1>4. ASSUME Ledger("exchange", n, l, t, k)
        PROVE  t + 2 <= Slices /\ Ledger("take", n + 1, 0, t + 2, k)
    BY <1>1, <1>4 DEF Ledger
  <1>5. ASSUME Ledger("copy", n, l, t, k)
        PROVE  Ledger("take", n + 1, l, t, k)
    BY <1>1, <1>5 DEF Ledger
  <1> QED BY <1>2, <1>3, <1>4, <1>5

LEMMA OwnTag ==
  ASSUME NEW r \in Rank, NEW s \in 0 .. Substeps - 1
  PROVE  Tag(r, s) = r * Substeps + s
  <1>1. s \in Nat /\ Hop(s) = 0 /\ Sub(s) = s
    BY DEF Hop, Sub
  <1>2. Before(r, s, 0) = r
    BY <1>1, Way
  <1> QED BY <1>1, <1>2 DEF Tag

LEMMA TakeCounts ==
  ASSUME TypesOK, NEW r \in Rank, CountOK(r), TagOK(r), Take(r)
  PROVE  CountOK(r)' /\ TagOK(r)'
  <1> DEFINE n == step[r]
             l == Len(pending[r])
             t == recvTop[r]
             k == recvTail[r]
  <1>1. /\ t \in Nat /\ recvFilled[r] \in Nat /\ k \in Nat /\ n \in Nat /\ l \in Nat
        /\ Slices \in Nat /\ Slices >= Substeps /\ TotalSteps = Slices + Substeps
    BY Room
  <1>2. Ledger("take", n, l, t, k) /\ t % 2 = 0 /\ n < TotalSteps /\ pc[r] = "take"
    BY DEF Take, CountOK
  <1>3. UNCHANGED <<step, pending, sending, recvPair, recvTop, recvFilled, free, active, reqs, status>>
    BY DEF Take
  <1>4. n >= Substeps => k = n - Substeps
    BY <1>1, <1>2 DEF Ledger
  <1>5. CASE n < Substeps
    <2>1. pc'[r] = "search" /\ data'[r].region = r * Substeps + n /\ UNCHANGED recvTail
      BY <1>5 DEF Take, TypesOK, StepType, DataType
    <2>2. Ledger("search", n, l, t, k)
      BY <1>1, <1>2, <1>5, LedgerMoves
    <2>3. data'[r].region = Tag(r, n)
      BY <1>1, <1>5, <2>1, OwnTag
    <2>4. CountOK(r)'
      BY <1>3, <2>1, <2>2, Zenon DEF CountOK
    <2>5. TagOK(r)'
      BY <1>3, <2>1, <2>3, Zenon DEF TagOK
    <2> QED BY <2>4, <2>5
  <1>6. CASE ~ (n < Substeps)
    <2> DEFINE d == recvPair[r][k % 4]
    <2>1. /\ k < recvFilled[r] /\ recvTail' = [recvTail EXCEPT ![r] = @ + 1]
          /\ data' = [data EXCEPT ![r] = d]
          /\ pc' = [pc EXCEPT ![r] = IF OwnerOf(d.region) = r THEN "copy" ELSE "search"]
      BY <1>6 DEF Take
    <2>2. recvTail'[r] = k + 1 /\ data'[r] = d
          /\ pc'[r] = IF OwnerOf(d.region) = r THEN "copy" ELSE "search"
      BY <2>1 DEF TypesOK, TailType, DataType, StepType
    <2>3. d.region = Tag(r, n)
      <3>1. k \in k .. recvFilled[r] - 1 /\ k + Substeps = n
        BY <1>1, <1>4, <1>6, <2>1
      <3>2. d.region = Tag(r, k + Substeps)
        BY <3>1 DEF TagOK
      <3> QED BY <3>1, <3>2
    <2>4. OwnerOf(Tag(r, n)) = r <=> Slices <= n
      BY <1>1, <1>2, <1>6, Tags
    <2>5. pc'[r] = IF Slices <= n THEN "copy" ELSE "search"
      BY <2>2, <2>3, <2>4
    <2>6. Ledger(pc'[r], n, l, t, k + 1)
      <3>1. Ledger(IF Slices <= n THEN "copy" ELSE "search", n, l, t, k + 1)
        BY <1>1, <1>2, <1>6, LedgerMoves
      <3> QED BY <2>5, <3>1
    <2> HIDE DEF d
    <2>7. k + 1 <= recvFilled[r]
      BY <1>1, <2>1
    <2>8. CountOK(r)'
      BY <1>3, <2>2, <2>6, <2>7, Zenon DEF CountOK
    <2>9. \A j \in k + 1 .. recvFilled[r] - 1 : recvPair[r][j % 4].region = Tag(r, j + Substeps)
      BY <1>1 DEF TagOK
    <2>10. TagOK(r)'
      BY <1>3, <2>2, <2>3, <2>9, Zenon DEF TagOK
    <2> QED BY <2>8, <2>10
  <1> QED BY <1>5, <1>6

LEMMA SearchCounts ==
  ASSUME TypesOK, NEW r \in Rank, CountOK(r), TagOK(r), Search(r)
  PROVE  CountOK(r)' /\ TagOK(r)'
  <1> DEFINE n == step[r]
             l == Len(pending[r])
             t == recvTop[r]
             k == recvTail[r]
  <1>1. /\ t \in Nat /\ recvFilled[r] \in Nat /\ k \in Nat /\ n \in Nat /\ l \in Nat
    BY Room
  <1>2. Ledger("search", n, l, t, k) /\ pc[r] = "search"
    BY DEF Search, CountOK
  <1>3. t + l = n /\ data[r].region = Tag(r, n)
    BY <1>2 DEF Ledger, TagOK
  <1>4. UNCHANGED <<data, sending, recvPair, recvTop, recvFilled, recvTail, free, active, reqs, status>>
    BY DEF Search
  <1>5. pending'[r] = Append(pending[r], data[r]) /\ pending[r] \in Seq(SliceTag) /\ data[r] \in SliceTag
    BY DEF Search, TypesOK, PendingType, DataType
  <1>6. Len(pending'[r]) = l + 1
    BY <1>5
  <1>7. \A x \in DOMAIN pending'[r] : pending'[r][x].region = Tag(r, t + x - 1)
    <2> SUFFICES ASSUME NEW x \in DOMAIN pending'[r] PROVE pending'[r][x].region = Tag(r, t + x - 1)
      OBVIOUS
    <2>1. CASE x = l + 1
      <3>1. pending'[r][x] = data[r] /\ t + x - 1 = n
        BY <1>1, <1>3, <1>5, <2>1
      <3> QED BY <1>3, <3>1
    <2>2. CASE x # l + 1
      <3>1. x \in DOMAIN pending[r] /\ pending'[r][x] = pending[r][x]
        BY <1>1, <1>5, <2>2
      <3> QED BY <3>1 DEF TagOK
    <2> QED BY <2>1, <2>2
  <1>8. CASE l = 1
    <2>1. pc'[r] = "exchange" /\ step'[r] = n
      BY <1>8 DEF Search, TypesOK, StepType
    <2>2. Ledger("exchange", n, Len(pending'[r]), t, k)
      BY <1>1, <1>2, <1>6, <1>8, LedgerMoves
    <2>3. CountOK(r)'
      BY <1>4, <2>1, <2>2, Zenon DEF CountOK
    <2>4. TagOK(r)'
      BY <1>3, <1>4, <1>7, <2>1, Zenon DEF TagOK
    <2> QED BY <2>3, <2>4
  <1>9. CASE l # 1
    <2>1. pc'[r] = "take" /\ step'[r] = n + 1
      BY <1>9 DEF Search, TypesOK, StepType
    <2>2. Ledger("take", n + 1, Len(pending'[r]), t, k)
      <3>1. l = 0 /\ Ledger("take", n + 1, 1, t, k)
        BY <1>1, <1>2, <1>9, LedgerMoves
      <3> QED BY <1>6, <3>1
    <2>3. CountOK(r)'
      BY <1>4, <2>1, <2>2, Zenon DEF CountOK
    <2>4. TagOK(r)'
      BY <1>4, <1>7, <2>1, Zenon DEF TagOK
    <2> QED BY <2>3, <2>4
  <1> QED BY <1>8, <1>9

LEMMA CopyCounts ==
  ASSUME TypesOK, NEW r \in Rank, CountOK(r), TagOK(r), CopyHome(r)
  PROVE  CountOK(r)' /\ TagOK(r)'
  <1>1. pc[r] = "copy" /\ pc'[r] = "take" /\ step'[r] = step[r] + 1
    BY DEF CopyHome, TypesOK, StepType
  <1>2. Ledger("take", step'[r], Len(pending[r]), recvTop[r], recvTail[r])
    <2>1. Ledger("copy", step[r], Len(pending[r]), recvTop[r], recvTail[r])
      BY <1>1 DEF CountOK
    <2>2. step[r] \in Nat /\ Len(pending[r]) \in Nat /\ recvTop[r] \in Nat /\ recvTail[r] \in Nat
      BY Room
    <2> QED BY <1>1, <2>1, <2>2, LedgerMoves
  <1>3. UNCHANGED <<data, pending, sending, recvPair, recvTop, recvFilled, recvTail, free, active, reqs, status>>
    BY DEF CopyHome
  <1>4. CountOK(r)'
    BY <1>1, <1>2, <1>3, Zenon DEF CountOK
  <1>5. TagOK(r)'
    BY <1>1, <1>3, Zenon DEF TagOK
  <1> QED BY <1>4, <1>5

LEMMA StartCounts ==
  ASSUME TypesOK, NEW r \in Rank, CountOK(r), TagOK(r), StartExchange(r)
  PROVE  CountOK(r)' /\ TagOK(r)'
  <1> DEFINE n == step[r]
             l == Len(pending[r])
             t == recvTop[r]
             k == recvTail[r]
  <1>1. /\ t \in Nat /\ recvFilled[r] \in Nat /\ k \in Nat /\ n \in Nat /\ l \in Nat
        /\ Len(free[r]) \in Nat
    BY Room
  <1>2. Ledger("exchange", n, l, t, k) /\ ~ active[r] /\ recvFilled[r] = t /\ t % 2 = 0
        /\ Len(free[r]) = NumBuffers - Substeps - (t - recvFilled[r])
    BY DEF StartExchange, CountOK
  <1>3. l = 2 /\ t + 2 <= Slices /\ Ledger("take", n + 1, 0, t + 2, k)
    <2>1. l = 2
      BY <1>2 DEF Ledger
    <2> QED BY <1>1, <1>2, <2>1, LedgerMoves
  <1>4. /\ recvTop'[r] = t + 2 /\ active'[r] /\ pc'[r] = "take" /\ step'[r] = n + 1
        /\ sending'[r] = pending[r] /\ pending'[r] = <<>> /\ reqs'[r] = 0 .. 3
    BY DEF StartExchange, TypesOK, StepType, TopType, ReqsType, SendingType, PendingType
  <1>5. UNCHANGED <<data, recvFilled, recvTail, status>>
    BY DEF StartExchange
  <1>6. Len(free'[r]) = Len(free[r]) - 2
    <2>1. free'[r] = SubSeq(free[r], 1, Len(free[r]) - 2) /\ Len(free[r]) >= 2 /\ free[r] \in Seq(Buffer)
      BY DEF StartExchange, TypesOK, FreeType
    <2> QED BY <1>1, <2>1
  <1>7. CountOK(r)'
    <2>1. (t + 2) % 2 = 0 /\ t + 2 >= 2 /\ t + 2 # 0 /\ recvFilled'[r] = (t + 2) - 2
          /\ Len(free'[r]) = NumBuffers - Substeps - ((t + 2) - recvFilled[r])
      <3>1. recvFilled'[r] = t
        BY <1>2, <1>5
      <3>2. Len(free'[r]) = NumBuffers - Substeps - 2
        BY <1>1, <1>2, <1>6
      <3>3. t \in Nat /\ t % 2 = 0 /\ recvFilled[r] = t
        BY <1>1, <1>2
      <3> HIDE DEF t
      <3>4. (t + 2) % 2 = 0 /\ t + 2 >= 2 /\ t + 2 # 0 /\ t = (t + 2) - 2
        BY <3>3
      <3>5. NumBuffers - Substeps - 2 = NumBuffers - Substeps - ((t + 2) - t)
        BY <3>3
      <3> QED BY <3>1, <3>2, <3>3, <3>4, <3>5, Zenon
    <2>2. k <= recvFilled[r] /\ Len(pending'[r]) = 0
      BY <1>4 DEF CountOK
    <2>3. recvFilled'[r] = recvFilled[r] /\ recvTail'[r] = k
      BY <1>5
    <2>4. recvFilled'[r] = IF active'[r] THEN recvTop'[r] - 2 ELSE recvTop'[r]
      BY <1>4, <2>1, Zenon
    <2>5. Ledger(pc'[r], step'[r], Len(pending'[r]), recvTop'[r], recvTail'[r])
      BY <1>3, <1>4, <2>2, <2>3
    <2>6. Len(sending'[r]) = IF recvTop'[r] = 0 THEN 0 ELSE 2
      BY <1>3, <1>4, <2>1
    <2>7. /\ recvTop'[r] % 2 = 0 /\ recvTop'[r] <= Slices /\ recvTop'[r] >= 2
          /\ Len(free'[r]) = NumBuffers - Substeps - (recvTop'[r] - recvFilled'[r])
          /\ recvTail'[r] <= recvFilled'[r]
      <3>1. recvTop'[r] = t + 2
        BY <1>4
      <3> HIDE DEF t, k
      <3> QED BY <1>3, <2>1, <2>2, <2>3, <3>1
    <2> QED BY <1>4, <2>4, <2>5, <2>6, <2>7, Zenon DEF CountOK
  <1>8. TagOK(r)'
    <2>1. \A s \in Slot : recvPair'[r][s].region = recvPair[r][s].region
      BY <1>3, StartWrites DEF TypesOK
    <2>2. \A j \in k .. recvFilled[r] - 1 : j % 4 \in Slot
      BY <1>1 DEF Slot
    <2>3. \A j \in k .. recvFilled[r] - 1 : recvPair'[r][j % 4].region = Tag(r, j + Substeps)
      BY <2>1, <2>2 DEF TagOK
    <2>4. {0, 1} \ reqs'[r] = {} /\ DOMAIN pending'[r] = {}
      BY <1>4
    <2> QED BY <1>4, <1>5, <2>3, <2>4, Zenon DEF TagOK
  <1> QED BY <1>7, <1>8

LEMMA Farther ==
  ASSUME NEW t \in Nat, NEW n \in Int, NEW m \in Nat
  PROVE  /\ t - n = 2 * m => (t + 2) - n = 2 * (m + 1)
         /\ (t + 1) - n = 2 * m => ((t + 2) + 1) - n = 2 * (m + 1)
  OBVIOUS

LEMMA Nearer ==
  ASSUME NEW t \in Nat, NEW n \in Int, NEW m \in Nat
  PROVE  /\ t - n = 2 * m => t - (n + 2) = 2 * (m - 1)
         /\ (t + 1) - n = 2 * m => (t + 1) - (n + 2) = 2 * (m - 1)
         /\ t - n = m => t - (n + 1) = m - 1
  OBVIOUS

\* Two messages are sent.
LEMMA StartNet ==
  ASSUME TypesOK, NetOK, NEW r \in Rank, CountOK(r), TagOK(r), StartExchange(r)
  PROVE  NetOK'
  <1> DEFINE t == recvTop[r]
             e == Envelope(pending[r][1], 2)
             f == Envelope(pending[r][2], 3)
  <1>1. t \in Nat /\ t % 2 = 0 /\ Len(pending[r]) = 2 /\ reqs[r] = {} /\ pending[r] \in Seq(SliceTag)
    BY Room DEF StartExchange, CountOK, Ledger, TypesOK, PendingType
  <1>2. /\ pending[r][1].region = Tag(r, t) /\ pending[r][2].region = Tag(r, t + 1)
    <2>1. 1 \in DOMAIN pending[r] /\ 2 \in DOMAIN pending[r]
      BY <1>1
    <2>2. /\ pending[r][1].region = Tag(r, recvTop[r] + 1 - 1)
          /\ pending[r][2].region = Tag(r, recvTop[r] + 2 - 1)
      BY <2>1 DEF TagOK
    <2> QED BY <1>1, <2>2
  <1>3. About(e, r, t) /\ About(f, r, t + 1)
    <2>1. e.region = Tag(r, t) /\ e.req = 2 /\ f.region = Tag(r, t + 1) /\ f.req = 3
      <3>1. pending[r][1] \in SliceTag /\ pending[r][2] \in SliceTag
        BY <1>1
      <3> QED BY <1>2, <3>1, TagKeeps
    <2>2. (t + 1) % 2 # 0
      BY <1>1
    <2> QED BY <1>1, <2>1, <2>2 DEF About
  <1>4. recvTop' = [recvTop EXCEPT ![r] = t + 2] /\ reqs' = [reqs EXCEPT ![r] = 0 .. 3]
    BY DEF StartExchange
  <1>5. \A x \in Rank : /\ recvTop'[x] = IF x = r THEN t + 2 ELSE recvTop[x]
                        /\ recvTop[x] \in Nat
                        /\ reqs'[x] = IF x = r THEN 0 .. 3 ELSE reqs[x]
    BY <1>4 DEF TypesOK, TopType, ReqsType
  <1>6. \A q \in Rank : Next0(q)' = Next0(q) /\ Next1(q)' = Next1(q) /\ NextOfTwo(q)' = NextOfTwo(q)
    <2> SUFFICES ASSUME NEW q \in Rank
                 PROVE  Next0(q)' = Next0(q) /\ Next1(q)' = Next1(q) /\ NextOfTwo(q)' = NextOfTwo(q)
      OBVIOUS
    <2>1. CASE q = r
      BY <1>1, <1>5, <2>1 DEF Next0, Next1, NextOfTwo
    <2>2. CASE q # r
      BY <1>5, <2>2 DEF Next0, Next1, NextOfTwo
    <2> QED BY <2>1, <2>2
  <1>7. e \in Message /\ f \in Message
    BY <1>1, StartWrites DEF TypesOK
  <1>8. \A p, q \in Rank : net'[p][q] =
          IF p # r THEN net[p][q]
          ELSE IF q = Right(r) /\ q = Left(r) THEN Append(Append(net[r][q], e), f)
          ELSE IF q = Right(r) THEN Append(net[r][q], e)
          ELSE IF q = Left(r) THEN Append(net[r][q], f)
          ELSE net[r][q]
    <2>1. net' = Posted(r, pending[r])
      BY DEF StartExchange
    <2>2. net \in [Rank -> [Rank -> Seq(Message)]]
      BY DEF TypesOK, NetType
    <2>3. Envelope(pending[r][1], 2) \in Message /\ Envelope(pending[r][2], 3) \in Message
      BY <1>7
    <2>4. \A p, q \in Rank : Posted(r, pending[r])[p][q] =
            IF p # r THEN net[p][q]
            ELSE IF q = Right(r) /\ q = Left(r)
                 THEN Append(Append(net[r][q], Envelope(pending[r][1], 2)), Envelope(pending[r][2], 3))
            ELSE IF q = Right(r) THEN Append(net[r][q], Envelope(pending[r][1], 2))
            ELSE IF q = Left(r) THEN Append(net[r][q], Envelope(pending[r][2], 3))
            ELSE net[r][q]
      <3> DEFINE pair == pending[r]
      <3>1. Envelope(pair[1], 2) \in Message /\ Envelope(pair[2], 3) \in Message
        BY <2>3
      <3> HIDE DEF pair
      <3>2. \A p, q \in Rank : Posted(r, pair)[p][q] =
              IF p # r THEN net[p][q]
              ELSE IF q = Right(r) /\ q = Left(r)
                   THEN Append(Append(net[r][q], Envelope(pair[1], 2)), Envelope(pair[2], 3))
              ELSE IF q = Right(r) THEN Append(net[r][q], Envelope(pair[1], 2))
              ELSE IF q = Left(r) THEN Append(net[r][q], Envelope(pair[2], 3))
              ELSE net[r][q]
        <4>1. PostedRow(r, pair)
          BY <2>2, <3>1, PostedNet
        <4> QED BY <4>1 DEF PostedRow
      <3> QED BY <3>2 DEF pair
    <2> QED BY <2>1, <2>4, Zenon
  <1> HIDE DEF e, f
  <1>9. \A p, q \in Rank : net[p][q] \in Seq(Message) /\ Len(net[p][q]) \in Nat
    BY DEF TypesOK, NetType
  <1>10. CASE Size >= 3
    <2>1. ASSUME NEW p \in Rank, NEW q \in Rank PROVE ManyOK(p, q)'
      <3>1. ManyOK(p, q) /\ Next0(q) \in Int /\ Next1(q) \in Int
        BY <1>5, <1>10 DEF NetOK, Next0, Next1
      <3>2. CASE p # r
        <4>1. net'[p][q] = net[p][q] /\ recvTop'[p] = recvTop[p]
          BY <1>5, <1>8, <3>2
        <4> QED BY <1>6, <3>1, <4>1 DEF ManyOK
      <3>3. CASE p = r /\ q = Right(r)
        <4> DEFINE s == net[r][q]
        <4>1. q # Left(r)
          BY <1>10, <3>3 DEF Left, Right, Rank
        <4>2. t - Next0(q) = 2 * Len(s) /\ Trail(s, r, Next0(q), 2)
          BY <3>1, <3>3 DEF ManyOK
        <4>3. s \in Seq(Message) /\ Len(s) \in Nat /\ net'[r][q] = Append(s, e)
          BY <1>8, <1>9, <3>3, <4>1
        <4>9. t \in Nat
          BY <1>1
        <4> HIDE DEF s, t
        <4>4. Next0(q) + 2 * Len(s) = t
          BY <1>1, <3>1, <4>2, <4>3
        <4>5. Trail(Append(s, e), r, Next0(q), 2)
          BY <1>3, <1>7, <3>1, <4>2, <4>3, <4>4, TrailAppend
        <4>6. Len(Append(s, e)) = Len(s) + 1
          BY <1>7, <4>3
        <4>7. (t + 2) - Next0(q) = 2 * Len(Append(s, e))
          <5>1. (t + 2) - Next0(q) = 2 * (Len(s) + 1)
            BY <3>1, <4>2, <4>3, <4>9, Farther
          <5> QED BY <4>6, <5>1
        <4>8. recvTop'[r] - Next0(q)' = 2 * Len(net'[r][q]) /\ Trail(net'[r][q], r, Next0(q)', 2)
          BY <1>5, <1>6, <4>3, <4>5, <4>7
        <4> QED BY <3>3, <4>1, <4>8 DEF ManyOK
      <3>4. CASE p = r /\ q = Left(r)
        <4> DEFINE s == net[r][q]
        <4>1. q # Right(r)
          BY <1>10, <3>4 DEF Left, Right, Rank
        <4>2. (t + 1) - Next1(q) = 2 * Len(s) /\ Trail(s, r, Next1(q), 2)
          BY <3>1, <3>4 DEF ManyOK
        <4>3. s \in Seq(Message) /\ Len(s) \in Nat /\ net'[r][q] = Append(s, f)
          BY <1>8, <1>9, <3>4, <4>1
        <4>9. t \in Nat
          BY <1>1
        <4> HIDE DEF s, t
        <4>4. Next1(q) + 2 * Len(s) = t + 1
          BY <1>1, <3>1, <4>2, <4>3
        <4>5. Trail(Append(s, f), r, Next1(q), 2)
          BY <1>3, <1>7, <3>1, <4>2, <4>3, <4>4, TrailAppend
        <4>6. Len(Append(s, f)) = Len(s) + 1
          BY <1>7, <4>3
        <4>7. ((t + 2) + 1) - Next1(q) = 2 * Len(Append(s, f))
          <5>1. ((t + 2) + 1) - Next1(q) = 2 * (Len(s) + 1)
            BY <3>1, <4>2, <4>3, <4>9, Farther
          <5> QED BY <4>6, <5>1
        <4>8. (recvTop'[r] + 1) - Next1(q)' = 2 * Len(net'[r][q]) /\ Trail(net'[r][q], r, Next1(q)', 2)
          BY <1>5, <1>6, <4>3, <4>5, <4>7
        <4> QED BY <3>4, <4>1, <4>8 DEF ManyOK
      <3>5. CASE p = r /\ q \notin {Left(r), Right(r)}
        BY <1>8, <3>1, <3>5 DEF ManyOK
      <3> QED BY <3>2, <3>3, <3>4, <3>5
    <2> QED BY <1>10, <2>1 DEF NetOK
  <1>11. CASE ~ (Size >= 3)
    <2>1. Right(r) = Left(r)
      BY <1>11 DEF Left, Right, Rank
    <2>2. ASSUME NEW p \in Rank, NEW q \in Rank PROVE FewOK(p, q)'
      <3>1. FewOK(p, q) /\ NextOfTwo(q) \in Int
        BY <1>5, <1>11 DEF NetOK, NextOfTwo
      <3>2. CASE p # r
        <4>1. net'[p][q] = net[p][q] /\ recvTop'[p] = recvTop[p]
          BY <1>5, <1>8, <3>2
        <4> QED BY <1>6, <3>1, <4>1 DEF FewOK
      <3>3. CASE p = r /\ q # Right(r)
        BY <1>8, <2>1, <3>1, <3>3 DEF FewOK
      <3>4. CASE p = r /\ q = Right(r)
        <4> DEFINE s == net[r][q]
                   u == Append(s, e)
        <4>1. t - NextOfTwo(q) = Len(s) /\ Trail(s, r, NextOfTwo(q), 1)
          BY <3>1, <3>4 DEF FewOK
        <4>2. s \in Seq(Message) /\ Len(s) \in Nat /\ net'[r][q] = Append(u, f)
          BY <1>8, <1>9, <2>1, <3>4
        <4>9. t \in Nat
          BY <1>1
        <4> HIDE DEF s, t
        <4>3. u \in Seq(Message) /\ Len(u) = Len(s) + 1 /\ Len(Append(u, f)) = Len(s) + 2
          BY <1>7, <4>2
        <4>4. NextOfTwo(q) + 1 * Len(s) = t /\ NextOfTwo(q) + 1 * Len(u) = t + 1
          BY <3>1, <4>1, <4>2, <4>3, <4>9
        <4>5. Trail(u, r, NextOfTwo(q), 1)
          BY <1>3, <1>7, <3>1, <4>1, <4>2, <4>4, TrailAppend
        <4> HIDE DEF u
        <4>6. Trail(Append(u, f), r, NextOfTwo(q), 1)
          BY <1>3, <1>7, <3>1, <4>3, <4>4, <4>5, TrailAppend
        <4>7. (t + 2) - NextOfTwo(q) = Len(Append(u, f))
          <5>1. (t + 2) - NextOfTwo(q) = Len(s) + 2
            BY <1>1, <3>1, <4>1, <4>2
          <5> QED BY <4>3, <5>1
        <4>8. recvTop'[r] - NextOfTwo(q)' = Len(net'[r][q]) /\ Trail(net'[r][q], r, NextOfTwo(q)', 1)
          BY <1>5, <1>6, <4>2, <4>6, <4>7
        <4> QED BY <3>4, <4>8 DEF FewOK
      <3> QED BY <3>2, <3>3, <3>4
    <2>3. ASSUME NEW q \in Rank, 0 \in reqs'[q] PROVE 1 \in reqs'[q]
      <3>1. 0 \in reqs[q] => 1 \in reqs[q]
        BY <1>11 DEF NetOK
      <3> QED BY <1>5, <2>3, <3>1
    <2> QED BY <1>11, <2>2, <2>3 DEF NetOK
  <1> QED BY <1>10, <1>11

\* A rank that MPI has finished a send for.
LEMMA SentRank ==
  ASSUME TypesOK, NEW x \in Rank, CountOK(x), TagOK(x),
         step'[x] = step[x], pc'[x] = pc[x], data'[x] = data[x], pending'[x] = pending[x],
         sending'[x] = sending[x], recvPair'[x] = recvPair[x], recvTop'[x] = recvTop[x],
         recvFilled'[x] = recvFilled[x], recvTail'[x] = recvTail[x], free'[x] = free[x],
         active'[x] = active[x], status'[x] = status[x],
         reqs'[x] \subseteq reqs[x], reqs[x] \ {2, 3} \subseteq reqs'[x]
  PROVE  CountOK(x)' /\ TagOK(x)'
  <1>1. reqs[x] = {} => reqs'[x] = {}
    OBVIOUS
  <1>2. CountOK(x)'
    BY <1>1 DEF CountOK
  <1>3. {0, 1} \ reqs'[x] = {0, 1} \ reqs[x]
    OBVIOUS
  <1>4. active[x] => \A k \in {0, 1} \ reqs'[x] :
                       status[x][k] = Tag(x, recvTop[x] - 2 + k + Substeps)
    <2>1. active[x] => \A k \in {0, 1} \ reqs[x] :
                         status[x][k] = Tag(x, recvTop[x] - 2 + k + Substeps)
      BY Zenon DEF TagOK
    <2> QED BY <1>3, <2>1, Zenon
  <1>5. /\ pc[x] # "take" => data[x].region = Tag(x, step[x])
        /\ \A k \in DOMAIN pending[x] : pending[x][k].region = Tag(x, recvTop[x] + k - 1)
        /\ \A j \in recvTail[x] .. recvFilled[x] - 1 :
             recvPair[x][j % 4].region = Tag(x, j + Substeps)
    BY Zenon DEF TagOK
  <1>6. TagOK(x)'
    BY <1>4, <1>5, SMTT(30) DEF TagOK
  <1> QED BY <1>2, <1>6

\* MPI copies a message out of its buffer.
LEMMA BufferedInv ==
  ASSUME RingInv, NEW p \in Rank, NEW q \in Rank, NEW i \in DOMAIN net[p][q], Buffered(p, q, i)
  PROVE  RingInv'
  <1>1. TypesOK /\ NetOK /\ \A x \in Rank : CountOK(x) /\ TagOK(x)
    BY DEF RingInv
  <1>2. TypesOK'
    BY <1>1, BufferedTypes
  <1>3. NetType /\ BitmapType /\ ReqsType
    BY <1>1 DEF TypesOK
  <1>4. PICK f \in Message : CopiedAs(p, q, i, f)
    BY <1>3, BufferedWrites
  <1> DEFINE e == net[p][q][i]
  <1>5. e.req \in {2, 3} /\ f.region = e.region /\ f.req = e.req
    BY <1>4 DEF Message, CopiedAs
  <1>6. \A a \in Rank : reqs'[a] = IF a = p THEN reqs[p] \ {e.req} ELSE reqs[a]
    BY <1>4 DEF CopiedAs
  <1>7. ASSUME NEW x \in Rank PROVE CountOK(x)' /\ TagOK(x)'
    <2>1. reqs'[x] \subseteq reqs[x] /\ reqs[x] \ {2, 3} \subseteq reqs'[x]
      BY <1>5, <1>6
    <2>2. UNCHANGED <<step, pc, data, pending, sending, recvPair, recvTop, recvFilled, recvTail,
                      free, active, status>>
      BY DEF Buffered
    <2> QED BY <1>1, <2>1, <2>2, SentRank
  <1>8. NetOK'
    <2>1. \A x \in Rank, k \in {0, 1} : k \in reqs'[x] <=> k \in reqs[x]
      BY <1>5, <1>6
    <2>2. ASSUME NEW a \in Rank, NEW b \in Rank
          PROVE  /\ Len(net'[a][b]) = Len(net[a][b]) /\ DOMAIN net'[a][b] = DOMAIN net[a][b]
                 /\ net[a][b] = <<>> => net'[a][b] = <<>>
                 /\ \A j \in DOMAIN net[a][b] : /\ net'[a][b][j].region = net[a][b][j].region
                                                /\ net'[a][b][j].req = net[a][b][j].req
      <3>1. CASE a = p /\ b = q
        <4> DEFINE s == net[p][q]
        <4>1. net'[a][b] = [s EXCEPT ![i] = f] /\ i \in DOMAIN s /\ s \in Seq(Message)
          <5>1. net'[a][b] = [net[p][q] EXCEPT ![i] = f]
            BY <1>4, <3>1 DEF CopiedAs
          <5> QED BY <1>3, <5>1 DEF NetType
        <4>2. e = s[i]
          OBVIOUS
        <4> HIDE DEF s, e
        <4>3. DOMAIN net'[a][b] = DOMAIN s /\ Len(net'[a][b]) = Len(s) /\ s # <<>>
          BY <4>1
        <4>4. \A j \in DOMAIN s : net'[a][b][j] = IF j = i THEN f ELSE s[j]
          BY <4>1
        <4>5. \A j \in DOMAIN s : net'[a][b][j].region = s[j].region /\ net'[a][b][j].req = s[j].req
          BY <1>5, <4>2, <4>4
        <4> QED BY <3>1, <4>3, <4>5 DEF s
      <3>2. CASE ~ (a = p /\ b = q)
        <4>1. net'[a][b] = net[a][b]
          BY <1>4, <3>2 DEF CopiedAs
        <4> QED BY <4>1
      <3> QED BY <3>1, <3>2
    <2>3. recvTop' = recvTop
      BY DEF Buffered
    <2> QED BY <1>1, <2>1, <2>2, <2>3, SameNet
  <1> QED BY <1>2, <1>7, <1>8 DEF RingInv

\* A step of a rank that neither sends nor receives.
LEMMA QuietInv ==
  ASSUME RingInv, NEW r \in Rank, TypesOK', CountOK(r)', TagOK(r)',
         UNCHANGED <<net, recvTop, reqs, status>>,
         \A x \in Rank \ {r} :
           /\ step'[x] = step[x] /\ pc'[x] = pc[x] /\ data'[x] = data[x] /\ pending'[x] = pending[x]
           /\ sending'[x] = sending[x] /\ recvPair'[x] = recvPair[x]
           /\ recvFilled'[x] = recvFilled[x] /\ recvTail'[x] = recvTail[x] /\ free'[x] = free[x]
           /\ active'[x] = active[x]
  PROVE  RingInv'
  <1>1. NetOK'
    BY SameNet DEF RingInv
  <1>2. ASSUME NEW x \in Rank PROVE CountOK(x)' /\ TagOK(x)'
    <2>1. CASE x = r
      BY <2>1
    <2>2. CASE x # r
      <3>1. CountOK(x) /\ TagOK(x)
        BY DEF RingInv
      <3> QED BY <2>2, <3>1, OtherRank
    <2> QED BY <2>1, <2>2
  <1> QED BY <1>1, <1>2 DEF RingInv

LEMMA RankInv ==
  ASSUME RingInv, NEW r \in Rank, RankStep(r)
  PROVE  RingInv'
  <1>1. TypesOK /\ NetOK /\ CountOK(r) /\ TagOK(r)
    BY DEF RingInv
  <1>2. CASE Complete(r)
    <2>1. Len(sending[r]) = 2
      <3>1. active[r] /\ recvTop[r] >= 2
        BY <1>1, <1>2 DEF Complete, ExchangeDone, CountOK
      <3> QED BY <1>1, <3>1 DEF CountOK, TypesOK, TopType
    <2>2. TypesOK' /\ CountOK(r)' /\ TagOK(r)'
      BY <1>1, <1>2, <2>1, CompleteTypes, CompleteCounts
    <2>3. UNCHANGED <<net, recvTop, reqs, status, step, pc, data, pending, sending, recvTail>>
      BY <1>2 DEF Complete
    <2>4. \A x \in Rank \ {r} : recvPair'[x] = recvPair[x]
      BY <1>1, <1>2, CompleteWrites DEF TypesOK
    <2>5. \A x \in Rank \ {r} : recvFilled'[x] = recvFilled[x] /\ free'[x] = free[x] /\ active'[x] = active[x]
      BY <1>1, <1>2 DEF Complete, TypesOK, TopType, FreeType, ReqsType
    <2> QED BY <2>2, <2>3, <2>4, <2>5, QuietInv
  <1>3. CASE Take(r)
    <2>1. TypesOK' /\ CountOK(r)' /\ TagOK(r)'
      BY <1>1, <1>3, TakeTypes, TakeCounts
    <2>2. UNCHANGED <<net, recvTop, reqs, status, step, pending, sending, recvPair, recvFilled, free, active>>
      BY <1>3 DEF Take
    <2>3. \A x \in Rank \ {r} : pc'[x] = pc[x] /\ data'[x] = data[x] /\ recvTail'[x] = recvTail[x]
      BY <1>1, <1>3 DEF Take, TypesOK, StepType, DataType, TailType
    <2> QED BY <2>1, <2>2, <2>3, QuietInv
  <1>4. CASE Search(r)
    <2>1. TypesOK' /\ CountOK(r)' /\ TagOK(r)'
      BY <1>1, <1>4, SearchTypes, SearchCounts
    <2>2. UNCHANGED <<net, recvTop, reqs, status, data, sending, recvPair, recvFilled, recvTail, free, active>>
      BY <1>4 DEF Search
    <2>3. \A x \in Rank \ {r} : pc'[x] = pc[x] /\ step'[x] = step[x] /\ pending'[x] = pending[x]
      BY <1>1, <1>4 DEF Search, TypesOK, StepType, PendingType
    <2> QED BY <2>1, <2>2, <2>3, QuietInv
  <1>5. CASE CopyHome(r)
    <2>1. TypesOK' /\ CountOK(r)' /\ TagOK(r)'
      BY <1>1, <1>5, CopyTypes, CopyCounts
    <2>2. UNCHANGED <<net, recvTop, reqs, status, data, pending, sending, recvPair, recvFilled, recvTail,
                      free, active>>
      BY <1>5 DEF CopyHome
    <2>3. \A x \in Rank \ {r} : pc'[x] = pc[x] /\ step'[x] = step[x]
      BY <1>1, <1>5 DEF CopyHome, TypesOK, StepType
    <2> QED BY <2>1, <2>2, <2>3, QuietInv
  <1>6. CASE StartExchange(r)
    <2>1. Len(pending[r]) = 2
      BY <1>1, <1>6 DEF StartExchange, CountOK, Ledger
    <2>2. TypesOK' /\ CountOK(r)' /\ TagOK(r)' /\ NetOK'
      BY <1>1, <1>6, <2>1, StartTypes, StartCounts, StartNet
    <2>3. ASSUME NEW x \in Rank PROVE CountOK(x)' /\ TagOK(x)'
      <3>1. CASE x = r
        BY <2>2, <3>1
      <3>2. CASE x # r
        <4>1. UNCHANGED <<data, bitmap, recvFilled, recvTail, status, newVis, last>>
          BY <1>6 DEF StartExchange
        <4>2. recvPair'[x] = recvPair[x]
          BY <1>1, <1>6, <2>1, <3>2, StartWrites DEF TypesOK
        <4>3. recvTop'[x] = recvTop[x] /\ free'[x] = free[x]
          BY <1>1, <1>6, <3>2 DEF StartExchange, TypesOK, TopType, FreeType
        <4>4. reqs'[x] = reqs[x] /\ active'[x] = active[x] /\ sending'[x] = sending[x]
              /\ pending'[x] = pending[x]
          BY <1>1, <1>6, <3>2 DEF StartExchange, TypesOK, ReqsType, SendingType, PendingType
        <4>5. pc'[x] = pc[x] /\ step'[x] = step[x]
          BY <1>1, <1>6, <3>2 DEF StartExchange, TypesOK, StepType
        <4>6. CountOK(x) /\ TagOK(x)
          BY DEF RingInv
        <4> QED BY <4>1, <4>2, <4>3, <4>4, <4>5, <4>6, OtherRank
      <3> QED BY <3>1, <3>2
    <2> QED BY <2>2, <2>3 DEF RingInv
  <1> QED BY <1>2, <1>3, <1>4, <1>5, <1>6 DEF RankStep

\* The oldest message is the one that the oldest receive is for.
LEMMA HeadTag ==
  ASSUME RingInv, NEW p \in Rank, NEW q \in Rank, NEW i \in OpenReceives(q, p), Deliver(p, q, i)
  PROVE  /\ Received(p, q, i) /\ TypesOK' /\ active[q] /\ recvTop[q] \in Nat /\ recvTop[q] >= 2
         /\ Head(net[p][q]).region = Tag(q, (recvTop[q] - 2 + i) + Substeps)
         /\ Head(net[p][q]).req \in {2, 3}
  <1>1. /\ TypesOK /\ NetOK /\ CountOK(q) /\ Slices \in Nat
    BY Bounds DEF RingInv
  <1>2. /\ recvTop[q] \in Nat /\ recvTop[p] \in Nat /\ i \in reqs[q] /\ i \in {0, 1}
        /\ net[p][q] \in Seq(Message)
    BY <1>1 DEF TypesOK, TopType, OpenReceives, NetType
  <1>3. active[q] /\ recvTop[q] >= 2 /\ recvTop[q] % 2 = 0 /\ recvTop[q] <= Slices
    BY <1>1, <1>2 DEF CountOK
  <1>4. TypesOK' /\ Received(p, q, i)
    BY <1>1, <1>3, DeliverTypes, DeliverWrites DEF TypesOK
  <1>5. /\ net[p][q] # <<>> /\ Head(net[p][q]) \in Message
        /\ i = 0 => p = Left(q)
        /\ i = 1 => p = Right(q) /\ ~ (0 \in reqs[q] /\ p = Left(q))
    BY <1>4 DEF Received
  <1> DEFINE s == recvTop[q] - 2 + i
  <1>6. s \in 0 .. Slices - 1 /\ s % 2 = i
    BY <1>1, <1>2, <1>3, SMTT(30)
  <1>7. About(Head(net[p][q]), p, s)
    <2>1. CASE Size >= 3
      <3>1. ManyOK(p, q)
        BY <1>1, <2>1 DEF NetOK
      <3>2. CASE i = 0
        <4>1. q = Right(p) /\ Next0(q) = s
          BY <1>2, <1>5, <3>2, Turned DEF Next0
        <4>2. Trail(net[p][q], p, s, 2) /\ s \in Int
          BY <1>6, <3>1, <4>1 DEF ManyOK
        <4> HIDE DEF s
        <4> QED BY <1>2, <1>5, <4>2, TrailTail
      <3>3. CASE i = 1
        <4>1. q = Left(p) /\ Next1(q) = s
          BY <1>2, <1>5, <3>3, Turned DEF Next1
        <4>2. Trail(net[p][q], p, s, 2) /\ s \in Int
          BY <1>6, <3>1, <4>1 DEF ManyOK
        <4> HIDE DEF s
        <4> QED BY <1>2, <1>5, <4>2, TrailTail
      <3> QED BY <1>2, <3>2, <3>3
    <2>2. CASE ~ (Size >= 3)
      <3>1. FewOK(p, q)
        BY <1>1, <2>2 DEF NetOK
      <3>2. Left(q) = Right(q)
        BY <2>2 DEF Left, Right, Rank
      <3>3. q = Right(p) /\ NextOfTwo(q) = s
        BY <1>2, <1>5, <3>2, Turned DEF NextOfTwo
      <3>4. Trail(net[p][q], p, s, 1) /\ s \in Int
        BY <1>6, <3>1, <3>3 DEF FewOK
      <3> HIDE DEF s
      <3> QED BY <1>2, <1>5, <3>4, TrailTail
    <2> QED BY <2>1, <2>2
  <1>8. Tag(p, s) = Tag(q, s + Substeps)
    BY <1>2, <1>5, <1>6, TagMoves
  <1> QED BY <1>2, <1>3, <1>4, <1>5, <1>7, <1>8 DEF About, Message

LEMMA DeliverInv ==
  ASSUME RingInv, NEW p \in Rank, NEW q \in Rank, NEW i \in OpenReceives(q, p), Deliver(p, q, i)
  PROVE  RingInv'
  <1> DEFINE e == Head(net[p][q])
  <1>1. /\ Received(p, q, i) /\ TypesOK' /\ active[q] /\ recvTop[q] \in Nat /\ recvTop[q] >= 2
        /\ e.region = Tag(q, (recvTop[q] - 2 + i) + Substeps) /\ e.req \in {2, 3}
    BY HeadTag
  <1>2. /\ TypesOK /\ NetOK /\ \A x \in Rank : CountOK(x) /\ TagOK(x)
    BY DEF RingInv
  <1>3. UNCHANGED <<step, pc, data, pending, sending, recvPair, recvTop, recvFilled, recvTail, free, active>>
    BY DEF Deliver
  <1>4. /\ i \in {0, 1} /\ i \in reqs[q] /\ net[p][q] # <<>>
        /\ i = 0 => p = Left(q)
        /\ i = 1 => p = Right(q) /\ ~ (0 \in reqs[q] /\ p = Left(q))
        /\ \A x, y \in Rank : net'[x][y] = IF x = p /\ y = q THEN Tail(net[p][q]) ELSE net[x][y]
        /\ \A x \in Rank : /\ status'[x] = IF x = q THEN [status[q] EXCEPT ![i] = e.region] ELSE status[x]
                           /\ reqs'[x] = reqs[x] \ ((IF x = q THEN {i} ELSE {}) \cup
                                                    (IF x = p /\ ~ e.copied THEN {e.req} ELSE {}))
    BY <1>1 DEF Received
  <1> HIDE DEF e
  <1>5. \A x \in Rank : /\ reqs'[x] \subseteq reqs[x]
                        /\ x # q => reqs[x] \ {2, 3} \subseteq reqs'[x]
                        /\ \A k \in {0, 1} : k \in reqs'[x] <=> k \in reqs[x] /\ ~ (x = q /\ k = i)
    BY <1>1, <1>4
  <1>6. ASSUME NEW x \in Rank PROVE CountOK(x)' /\ TagOK(x)'
    <2>1. CASE x # q
      <3>1. status'[x] = status[x]
        BY <1>4, <2>1
      <3> QED BY <1>2, <1>3, <1>5, <2>1, <3>1, SentRank
    <2>2. CASE x = q
      <3>1. CountOK(q)'
        BY <1>1, <1>2, <1>3 DEF CountOK
      <3>2. ASSUME NEW k \in {0, 1} \ reqs'[q]
            PROVE  status'[q][k] = Tag(q, (recvTop[q] - 2 + k) + Substeps)
        <4>1. status'[q] = [status[q] EXCEPT ![i] = e.region] /\ status[q] \in [{0, 1} -> Region]
          BY <1>2, <1>4 DEF TypesOK, StatusType
        <4>2. CASE k = i
          BY <1>1, <4>1, <4>2
        <4>3. CASE k # i
          <5>1. k \in {0, 1} \ reqs[q]
            BY <1>5, <4>3
          <5>2. status[q][k] = Tag(q, recvTop[q] - 2 + k + Substeps)
            BY <1>1, <1>2, <5>1 DEF TagOK
          <5>3. recvTop[q] - 2 + k + Substeps = (recvTop[q] - 2 + k) + Substeps
            BY <1>1
          <5> QED BY <4>1, <4>3, <5>1, <5>2, <5>3
        <4> QED BY <4>2, <4>3
      <3>3. \A k \in {0, 1} \ reqs'[q] : status'[q][k] = Tag(q, recvTop[q] - 2 + k + Substeps)
        BY <1>1, <3>2
      <3>4. TagOK(q)'
        BY <1>2, <1>3, <3>3, Zenon DEF TagOK
      <3> QED BY <2>2, <3>1, <3>4
    <2> QED BY <2>1, <2>2
  <1>7. \A x \in Rank : recvTop[x] \in Nat
    BY <1>2 DEF TypesOK, TopType
  <1>8. net[p][q] \in Seq(Message)
    BY <1>2 DEF TypesOK, NetType
  <1>9. ASSUME Size >= 3 PROVE NetOK'
    <2>1. ASSUME NEW a \in Rank, NEW b \in Rank PROVE ManyOK(a, b)'
      <3>1. ManyOK(a, b) /\ Next0(b) \in Int /\ Next1(b) \in Int
        BY <1>2, <1>7, <1>9 DEF NetOK, Next0, Next1
      <3>2. b = Right(a) /\ b = Left(a) => FALSE
        BY <1>9 DEF Left, Right, Rank
      <3>3. CASE b # q
        <4>1. Next0(b)' = Next0(b) /\ Next1(b)' = Next1(b)
          BY <1>3, <1>5, <3>3 DEF Next0, Next1
        <4>2. net'[a][b] = net[a][b]
          BY <1>4, <3>3
        <4> QED BY <1>3, <3>1, <4>1, <4>2 DEF ManyOK
      <3>4. CASE b = q /\ a = p /\ i = 0
        <4>1. b = Right(a) /\ b # Left(a)
          BY <1>4, <3>2, <3>4, Turned
        <4>2. Next0(b)' = Next0(b) + 2
          BY <1>3, <1>4, <1>5, <1>7, <3>4 DEF Next0
        <4>3. recvTop[a] - Next0(b) = 2 * Len(net[p][q]) /\ Trail(net[p][q], a, Next0(b), 2)
          BY <3>1, <3>4, <4>1 DEF ManyOK
        <4>4. Trail(Tail(net[p][q]), a, Next0(b) + 2, 2)
              /\ Len(Tail(net[p][q])) = Len(net[p][q]) - 1 /\ Len(net[p][q]) \in Nat
          BY <1>4, <1>8, <3>1, <4>3, TrailTail
        <4>5. recvTop[a] - (Next0(b) + 2) = 2 * Len(Tail(net[p][q]))
          <5>1. recvTop[a] \in Nat /\ Next0(b) \in Int
            BY <1>7, <3>1
          <5>2. recvTop[a] - (Next0(b) + 2) = 2 * (Len(net[p][q]) - 1)
            BY <4>3, <4>4, <5>1, Nearer
          <5> QED BY <4>4, <5>2
        <4>6. net'[a][b] = Tail(net[p][q]) /\ recvTop'[a] = recvTop[a]
          BY <1>3, <1>4, <3>4
        <4> QED BY <4>1, <4>2, <4>4, <4>5, <4>6 DEF ManyOK
      <3>5. CASE b = q /\ a = p /\ i = 1
        <4>1. b = Left(a) /\ b # Right(a)
          BY <1>4, <3>2, <3>5, Turned
        <4>2. Next1(b)' = Next1(b) + 2
          BY <1>3, <1>4, <1>5, <1>7, <3>5 DEF Next1
        <4>3. (recvTop[a] + 1) - Next1(b) = 2 * Len(net[p][q]) /\ Trail(net[p][q], a, Next1(b), 2)
          BY <3>1, <3>5, <4>1 DEF ManyOK
        <4>4. Trail(Tail(net[p][q]), a, Next1(b) + 2, 2)
              /\ Len(Tail(net[p][q])) = Len(net[p][q]) - 1 /\ Len(net[p][q]) \in Nat
          BY <1>4, <1>8, <3>1, <4>3, TrailTail
        <4>5. (recvTop[a] + 1) - (Next1(b) + 2) = 2 * Len(Tail(net[p][q]))
          <5>1. recvTop[a] \in Nat /\ Next1(b) \in Int
            BY <1>7, <3>1
          <5>2. (recvTop[a] + 1) - (Next1(b) + 2) = 2 * (Len(net[p][q]) - 1)
            BY <4>3, <4>4, <5>1, Nearer
          <5> QED BY <4>4, <5>2
        <4>6. net'[a][b] = Tail(net[p][q]) /\ recvTop'[a] = recvTop[a]
          BY <1>3, <1>4, <3>5
        <4> QED BY <4>1, <4>2, <4>4, <4>5, <4>6 DEF ManyOK
      <3>6. CASE b = q /\ a # p
        <4>1. net'[a][b] = net[a][b]
          BY <1>4, <3>6
        <4>2. b = Right(a) => i = 1 /\ Next0(b)' = Next0(b)
          <5> SUFFICES ASSUME b = Right(a) PROVE i = 1 /\ Next0(b)' = Next0(b)
            OBVIOUS
          <5>1. a = Left(b)
            BY Turned
          <5>2. i = 1
            BY <1>4, <3>6, <5>1
          <5> QED BY <1>3, <1>5, <5>2 DEF Next0
        <4>3. b = Left(a) => i = 0 /\ Next1(b)' = Next1(b)
          <5> SUFFICES ASSUME b = Left(a) PROVE i = 0 /\ Next1(b)' = Next1(b)
            OBVIOUS
          <5>1. a = Right(b)
            BY Turned
          <5>2. i = 0
            BY <1>4, <3>6, <5>1
          <5> QED BY <1>3, <1>5, <5>2 DEF Next1
        <4> QED BY <1>3, <3>1, <4>1, <4>2, <4>3 DEF ManyOK
      <3> QED BY <1>4, <3>3, <3>4, <3>5, <3>6
    <2> QED BY <1>9, <2>1 DEF NetOK
  <1>10. ASSUME ~ (Size >= 3) PROVE NetOK'
    <2>1. Left(q) = Right(q)
      BY <1>10 DEF Left, Right, Rank
    <2>2. /\ 0 \in reqs[q] => 1 \in reqs[q]
          /\ i = 1 => 0 \notin reqs[q]
          /\ q = Right(p)
      BY <1>2, <1>4, <1>10, <2>1, Turned DEF NetOK
    <2>3. ASSUME NEW a \in Rank, NEW b \in Rank PROVE FewOK(a, b)'
      <3>1. FewOK(a, b) /\ NextOfTwo(b) \in Int
        BY <1>2, <1>7, <1>10 DEF NetOK, NextOfTwo
      <3>2. CASE b # q
        <4>1. NextOfTwo(b)' = NextOfTwo(b)
          BY <1>3, <1>5, <3>2 DEF NextOfTwo
        <4>2. net'[a][b] = net[a][b]
          BY <1>4, <3>2
        <4> QED BY <1>3, <3>1, <4>1, <4>2 DEF FewOK
      <3>3. CASE b = q /\ a = p
        <4>1. NextOfTwo(b)' = NextOfTwo(b) + 1
          BY <1>3, <1>4, <1>5, <1>7, <2>2, <3>3 DEF NextOfTwo
        <4>2. recvTop[a] - NextOfTwo(b) = Len(net[p][q]) /\ Trail(net[p][q], a, NextOfTwo(b), 1)
          BY <2>2, <3>1, <3>3 DEF FewOK
        <4>3. Trail(Tail(net[p][q]), a, NextOfTwo(b) + 1, 1)
              /\ Len(Tail(net[p][q])) = Len(net[p][q]) - 1 /\ Len(net[p][q]) \in Nat
          BY <1>4, <1>8, <3>1, <4>2, TrailTail
        <4>4. recvTop[a] - (NextOfTwo(b) + 1) = Len(Tail(net[p][q]))
          BY <1>7, <3>1, <4>2, <4>3
        <4>5. net'[a][b] = Tail(net[p][q]) /\ recvTop'[a] = recvTop[a]
          BY <1>3, <1>4, <3>3
        <4> QED BY <2>2, <3>3, <4>1, <4>3, <4>4, <4>5 DEF FewOK
      <3>4. CASE b = q /\ a # p
        <4>1. net'[a][b] = net[a][b]
          BY <1>4, <3>4
        <4>2. b # Right(a)
          BY <2>2, <3>4, Turned
        <4> QED BY <3>1, <4>1, <4>2 DEF FewOK
      <3> QED BY <3>2, <3>3, <3>4
    <2>4. ASSUME NEW b \in Rank, 0 \in reqs'[b] PROVE 1 \in reqs'[b]
      <3>1. 0 \in reqs[b] => 1 \in reqs[b]
        BY <1>2, <1>10 DEF NetOK
      <3> QED BY <1>4, <1>5, <2>2, <2>4, <3>1
    <2> QED BY <1>10, <2>3, <2>4 DEF NetOK
  <1> QED BY <1>1, <1>6, <1>9, <1>10 DEF RingInv

LEMMA StepInv == RingInv /\ [Next]_ringVars => RingInv'
  <1> SUFFICES ASSUME RingInv, [Next]_ringVars PROVE RingInv'
    OBVIOUS
  <1>1. CASE \E r \in Rank : RankStep(r)
    BY <1>1, RankInv
  <1>2. CASE \E p, q \in Rank : \E i \in DOMAIN net[p][q] : Buffered(p, q, i)
    BY <1>2, BufferedInv
  <1>3. CASE \E p, q \in Rank : \E i \in OpenReceives(q, p) : Deliver(p, q, i)
    BY <1>3, DeliverInv
  <1>4. CASE UNCHANGED ringVars
    <2>1. TypesOK'
      BY <1>4 DEF RingInv, TypesOK, ringVars, StepType, DataType, BitmapType, PendingType, SendingType,
             PairType, TopType, TailType, FreeType, ReqsType, StatusType, NetType, VisType, LastType
    <2>2. \A x \in Rank : CountOK(x) /\ TagOK(x)
      BY DEF RingInv
    <2>3. \A x \in Rank : CountOK(x)' /\ TagOK(x)'
      BY <1>4, <2>2, OtherRank DEF ringVars
    <2>4. NetOK'
      BY <1>4, SameNet DEF RingInv, ringVars
    <2> QED BY <2>1, <2>3, <2>4 DEF RingInv
  <1> QED BY <1>1, <1>2, <1>3, <1>4 DEF Next

\* The ring never runs out of messages or of buffers: a rank that asks for a
\* slice has one, or an exchange under way that brings it, and an exchange finds
\* two free buffers.
THEOREM NeverRunsOut == Spec => []NeverFails
  <1>1. RingInv => NeverFails
    <2> SUFFICES ASSUME RingInv, NEW r \in Rank
                 PROVE  /\ pc[r] = "take" /\ Substeps <= step[r] /\ step[r] < TotalSteps =>
                             recvTail[r] < recvFilled[r] \/ active[r]
                        /\ pc[r] = "exchange" /\ ~ active[r] => Len(free[r]) >= 2
      BY DEF NeverFails
    <2>1. TypesOK /\ CountOK(r)
      BY DEF RingInv
    <2>2. /\ recvTop[r] \in Nat /\ recvFilled[r] \in Nat /\ recvTail[r] \in Nat /\ step[r] \in Nat
          /\ Len(pending[r]) \in Nat /\ Slices \in Nat /\ Slices % 2 = 0 /\ Slices >= Substeps
          /\ TotalSteps = Slices + Substeps
      BY <2>1, Room
    <2>3. ASSUME pc[r] = "take", Substeps <= step[r], step[r] < TotalSteps, ~ active[r]
          PROVE  recvTail[r] < recvFilled[r]
      <3> DEFINE t == recvTop[r]
                 l == Len(pending[r])
                 n == step[r]
      <3>1. /\ recvFilled[r] = t /\ t % 2 = 0 /\ recvTail[r] = n - Substeps
            /\ l <= 1 /\ t + l = IF n < Slices THEN n ELSE Slices
        <4>1. recvFilled[r] = t /\ t % 2 = 0 /\ Ledger("take", n, l, t, recvTail[r])
          BY <2>1, <2>3 DEF CountOK
        <4>2. /\ l <= 1 /\ t + l = (IF n < Slices THEN n ELSE Slices)
              /\ recvTail[r] = IF n < Substeps THEN 0 ELSE n - Substeps
          BY <4>1 DEF Ledger
        <4> QED BY <2>2, <2>3, <4>1, <4>2
      <3>2. t \in Nat /\ l \in Nat /\ n \in Nat /\ Substeps <= n /\ n < Slices + Substeps
        BY <2>2, <2>3
      <3> HIDE DEF t, l, n
      <3>3. n - Substeps < t
        <4>1. CASE n < Slices
          BY <3>1, <3>2, <4>1
        <4>2. CASE ~ (n < Slices)
          <5>1. l = 0 /\ t = Slices
            BY <2>2, <3>1, <3>2, <4>2
          <5> QED BY <2>2, <3>2, <5>1
        <4> QED BY <4>1, <4>2
      <3> QED BY <3>1, <3>3
    <2>4. ASSUME pc[r] = "exchange", ~ active[r] PROVE Len(free[r]) >= 2
      <3>1. recvFilled[r] = recvTop[r]
            /\ Len(free[r]) = NumBuffers - Substeps - (recvTop[r] - recvFilled[r])
        BY <2>1, <2>4 DEF CountOK
      <3>2. recvTop[r] - recvFilled[r] = 0
        BY <2>2, <3>1
      <3> QED BY <3>1, <3>2
    <2> QED BY <2>3, <2>4
  <1> QED BY <1>1, InitInv, StepInv, PTL DEF Spec
-----------------------------------------------------------------------------
(* The way of a slice *)

\* The m-th rank after its owner that slice g gets to, and which one rank r is.
Along(g, m) == IF g % 2 = 0 THEN Fwd(OwnerOf(g), m) ELSE Bwd(OwnerOf(g), m)
Dist(g, r)  == IF g % 2 = 0 THEN Bwd(r, OwnerOf(g)) ELSE Bwd(OwnerOf(g), r)

\* The rank that slice g comes from when it gets to rank r.
From(g, r) == IF g % 2 = 0 THEN Left(r) ELSE Right(r)

\* Slice g before it is searched, and when rank r has just searched it.
Fresh(g)    == [region |-> g, path |-> <<>>]
Trip(g, r)  == [i \in 1 .. Dist(g, r) + 1 |-> Along(g, i - 1)]
After(g, r) == [region |-> g, path |-> Trip(g, r)]

LEMMA Owners ==
  ASSUME NEW g \in Region
  PROVE  /\ OwnerOf(g) \in Rank /\ g % Substeps \in 0 .. Substeps - 1
         /\ g = OwnerOf(g) * Substeps + (g % Substeps) /\ (g % Substeps) % 2 = g % 2
  <1>1. g \in Nat /\ g < Slices
    BY Bounds DEF Region, Slices
  <1>2. /\ Hop(g) \in Nat /\ Sub(g) \in 0 .. Substeps - 1 /\ g = Hop(g) * Substeps + Sub(g)
        /\ Sub(g) % 2 = g % 2 /\ Hop(g) < Size
    BY <1>1, Steps, Bounds
  <1>3. OwnerOf(g) = Hop(g) /\ g % Substeps = Sub(g)
    BY DEF OwnerOf, Hop, Sub
  <1>4. OwnerOf(g) \in Rank
    BY <1>2, <1>3 DEF Rank
  <1>5. g = OwnerOf(g) * Substeps + (g % Substeps) /\ (g % Substeps) % 2 = g % 2
    <2>1. (g % Substeps) % 2 = g % 2
      BY <1>2, <1>3
    <2>2. g = Hop(g) * Substeps + Sub(g)
      BY <1>2
    <2>3. g = OwnerOf(g) * Substeps + (g % Substeps)
      <3> DEFINE o == OwnerOf(g)
                 k == g % Substeps
      <3>1. o = Hop(g) /\ k = Sub(g)
        BY <1>3
      <3> HIDE DEF o, k
      <3>2. g = o * Substeps + k
        BY <2>2, <3>1
      <3> QED BY <3>2 DEF o, k
    <2> QED BY <2>1, <2>3
  <1> QED BY <1>2, <1>3, <1>4, <1>5, Zenon

LEMMA Route ==
  ASSUME NEW g \in Region, NEW r \in Rank
  PROVE  /\ Dist(g, r) \in 0 .. Size - 1 /\ Along(g, Dist(g, r)) = r
         /\ \A m \in 0 .. Size - 1 : Along(g, m) \in Rank /\ Dist(g, Along(g, m)) = m
         /\ Dist(g, r) = 0 <=> OwnerOf(g) = r
         /\ From(g, r) \in Rank
         /\ OwnerOf(g) # r => Dist(g, From(g, r)) = Dist(g, r) - 1
         /\ OwnerOf(g) = r => Dist(g, From(g, r)) = Size - 1
  <1> DEFINE o == OwnerOf(g)
  <1>1. o \in Rank
    BY Owners
  <1>2. Right(r) = Fwd(r, 1) /\ Left(r) = Bwd(r, 1)
    BY Neighbours
  <1> HIDE DEF o
  <1>3. CASE g % 2 = 0
    <2>1. \A m : Along(g, m) = Fwd(o, m)
      BY <1>3 DEF Along, o
    <2>2. \A x : Dist(g, x) = Bwd(x, o)
      BY <1>3 DEF Dist, o
    <2>3. From(g, r) = Bwd(r, 1)
      BY <1>2, <1>3 DEF From
    <2> QED BY <1>1, <2>1, <2>2, <2>3 DEF o, Fwd, Bwd, Rank
  <1>4. CASE g % 2 # 0
    <2>1. \A m : Along(g, m) = Bwd(o, m)
      BY <1>4 DEF Along, o
    <2>2. \A x : Dist(g, x) = Bwd(o, x)
      BY <1>4 DEF Dist, o
    <2>3. From(g, r) = Fwd(r, 1)
      BY <1>2, <1>4 DEF From
    <2> QED BY <1>1, <2>1, <2>2, <2>3 DEF o, Fwd, Bwd, Rank
  <1> QED BY <1>3, <1>4

\* What a search adds to the way.
LEMMA TripGrows ==
  ASSUME NEW g \in Region, NEW r \in Rank
  PROVE  /\ Trip(g, r) \in Seq(Rank) /\ Trip(g, r) # <<>>
         /\ OwnerOf(g) = r => Trip(g, r) = Append(<<>>, r)
         /\ OwnerOf(g) # r => /\ Trip(g, r) = Append(Trip(g, From(g, r)), r)
                              /\ r \notin ToSet(Trip(g, From(g, r)))
         /\ OwnerOf(g) = r => ToSet(Trip(g, From(g, r))) = Rank
  <1> DEFINE f == From(g, r)
             d == Dist(g, r)
             c == Dist(g, f)
  <1>1. /\ d \in 0 .. Size - 1 /\ Along(g, d) = r /\ f \in Rank
        /\ \A m \in 0 .. Size - 1 : Along(g, m) \in Rank /\ Dist(g, Along(g, m)) = m
        /\ d = 0 <=> OwnerOf(g) = r
        /\ OwnerOf(g) # r => c = d - 1
        /\ OwnerOf(g) = r => c = Size - 1
    BY Route
  <1>2. Trip(g, r) = [i \in 1 .. d + 1 |-> Along(g, i - 1)] /\ Trip(g, f) = [i \in 1 .. c + 1 |-> Along(g, i - 1)]
    BY DEF Trip
  <1> HIDE DEF f, d, c
  <1>3. \A m \in 0 .. Size - 1, n \in 0 .. Size - 1 : Along(g, m) = Along(g, n) => m = n
    BY <1>1
  <1>4. Trip(g, r) \in Seq(Rank) /\ Trip(g, r) # <<>>
    BY <1>1, <1>2
  <1>5. ASSUME OwnerOf(g) = r
        PROVE  Trip(g, r) = Append(<<>>, r)
    <2>1. d = 0 /\ Along(g, 0) = r
      BY <1>1, <1>5
    <2>2. Trip(g, r) = [i \in 1 .. 1 |-> Along(g, i - 1)]
      BY <1>2, <2>1
    <2> QED BY <2>1, <2>2
  <1>6. ASSUME OwnerOf(g) # r
        PROVE  Trip(g, r) = Append(Trip(g, f), r) /\ r \notin ToSet(Trip(g, f))
    <2>1. c = d - 1 /\ d \in 1 .. Size - 1 /\ c + 1 = d /\ c \in Nat /\ Trip(g, f) \in Seq(Rank)
      BY <1>1, <1>2, <1>6
    <2>2. Len(Trip(g, f)) = d /\ \A i \in 1 .. d : Trip(g, f)[i] = Along(g, i - 1)
      BY <1>2, <2>1
    <2>3. Trip(g, r) = Append(Trip(g, f), r)
      <3>1. \A i \in 1 .. d + 1 : Append(Trip(g, f), r)[i] = Trip(g, r)[i]
        BY <1>1, <1>2, <2>1, <2>2
      <3>2. Append(Trip(g, f), r) \in Seq(Rank) /\ Len(Append(Trip(g, f), r)) = d + 1
            /\ Trip(g, r) \in Seq(Rank) /\ Len(Trip(g, r)) = d + 1
        BY <1>1, <1>2, <1>4, <2>1, <2>2
      <3> QED BY <3>1, <3>2
    <2>4. ASSUME NEW i \in 1 .. d PROVE Trip(g, f)[i] # r
      <3>1. i - 1 \in 0 .. Size - 1 /\ i - 1 # d
        BY <2>1
      <3> QED BY <1>1, <1>3, <2>2, <3>1
    <2>5. r \notin ToSet(Trip(g, f))
      BY <2>1, <2>2, <2>4 DEF ToSet
    <2> QED BY <2>3, <2>5
  <1>7. ASSUME OwnerOf(g) = r
        PROVE  ToSet(Trip(g, f)) = Rank
    <2>1. Trip(g, f) = [i \in 1 .. Size |-> Along(g, i - 1)]
      BY <1>1, <1>2, <1>7
    <2>2. ASSUME NEW x \in Rank PROVE x \in ToSet(Trip(g, f))
      <3>1. Dist(g, x) \in 0 .. Size - 1 /\ Along(g, Dist(g, x)) = x
        BY Route
      <3>2. Dist(g, x) + 1 \in 1 .. Size /\ Trip(g, f)[Dist(g, x) + 1] = x
        BY <2>1, <3>1
      <3> QED BY <2>1, <3>2 DEF ToSet
    <2>3. \A i \in 1 .. Size : Trip(g, f)[i] \in Rank
      BY <1>1, <2>1
    <2> QED BY <2>1, <2>2, <2>3 DEF ToSet
  <1> QED BY <1>4, <1>5, <1>6, <1>7 DEF f
-----------------------------------------------------------------------------
(* Buffers *)

\* The first own slice of a rank that is not taken.
FirstOwn(r) == IF pc[r] = "take" THEN step[r] ELSE step[r] + 1

\* What buffer b of rank r is used for.
Uses(r, a, k, b) ==
  \/ a = "own" /\ k \in FirstOwn(r) .. Substeps - 1 /\ b = k
  \/ a = "work" /\ pc[r] \in {"search", "copy"} /\ k = 0 /\ b = data[r].buf
  \/ a = "pending" /\ k \in DOMAIN pending[r] /\ b = pending[r][k].buf
  \/ a = "sending" /\ active[r] /\ k \in DOMAIN sending[r] /\ b = sending[r][k].buf
  \/ a = "recv" /\ k \in recvTail[r] .. recvTop[r] - 1 /\ b = recvPair[r][k % 4].buf
  \/ a = "free" /\ k \in DOMAIN free[r] /\ b = free[r][k]

\* No buffer is used for two things.
Apart(r) ==
  \A a, c, j, k, b : Uses(r, a, j, b) /\ Uses(r, c, k, b) => a = c /\ j = k

\* Each slice is in its buffer as the ranks before have left it.
Content(r) ==
  /\ \A k \in FirstOwn(r) .. Substeps - 1 : bitmap[r][k] = Fresh(r * Substeps + k)
  /\ pc[r] = "search" =>
       bitmap[r][data[r].buf] = IF OwnerOf(data[r].region) = r THEN Fresh(data[r].region)
                                ELSE After(data[r].region, From(data[r].region, r))
  /\ pc[r] = "copy" => bitmap[r][data[r].buf] = After(data[r].region, From(data[r].region, r))
  /\ \A k \in DOMAIN pending[r] : bitmap[r][pending[r][k].buf] = After(pending[r][k].region, r)
  /\ active[r] => \A k \in DOMAIN sending[r] : bitmap[r][sending[r][k].buf] = After(sending[r][k].region, r)
  /\ \A j \in recvTail[r] .. recvFilled[r] - 1 :
       bitmap[r][recvPair[r][j % 4].buf] =
         After(recvPair[r][j % 4].region, From(recvPair[r][j % 4].region, r))
  /\ active[r] => \A k \in {0, 1} \ reqs[r] :
       bitmap[r][recvPair[r][(recvTop[r] - 2 + k) % 4].buf] = After(status[r][k], From(status[r][k], r))

\* A message is a slice that its sender has searched; until MPI copies it, it is
\* in a buffer of the exchange under way, and it alone is the send of its request.
MessageOK(p, e) ==
  IF e.copied THEN e.slice = After(e.region, p)
  ELSE /\ e.req \in reqs[p]
       /\ e.buf = sending[p][e.req - 1].buf /\ e.region = sending[p][e.req - 1].region
SendsOK(p) ==
  /\ \A q \in Rank : \A j \in DOMAIN net[p][q] : MessageOK(p, net[p][q][j])
  /\ \A q, x \in Rank : \A j \in DOMAIN net[p][q], k \in DOMAIN net[p][x] :
       ~ net[p][q][j].copied /\ ~ net[p][x][k].copied /\ net[p][q][j].req = net[p][x][k].req =>
         q = x /\ j = k

DataInv == \A r \in Rank : Apart(r) /\ Content(r) /\ SendsOK(r)

LEMMA InitData == Init => DataInv
  <1> SUFFICES ASSUME Init, NEW r \in Rank PROVE Apart(r) /\ Content(r) /\ SendsOK(r)
    BY DEF DataInv
  <1>1. /\ step[r] = 0 /\ pc[r] = "take" /\ pending[r] = <<>> /\ sending[r] = <<>>
        /\ recvTop[r] = 0 /\ recvFilled[r] = 0 /\ recvTail[r] = 0 /\ active[r] = FALSE /\ reqs[r] = {}
        /\ free[r] = [k \in 1 .. NumBuffers - Substeps |-> Substeps + k - 1]
        /\ \A q \in Rank : net[r][q] = <<>>
        /\ bitmap[r] = [b \in Buffer |-> IF b < Substeps THEN [region |-> r * Substeps + b, path |-> <<>>]
                                         ELSE NoSlice]
    BY DEF Init
  <1>2. FirstOwn(r) = 0
    BY <1>1 DEF FirstOwn
  <1>3. \A a, k, b : Uses(r, a, k, b) =>
          \/ a = "own" /\ k \in 0 .. Substeps - 1 /\ b = k
          \/ a = "free" /\ k \in 1 .. NumBuffers - Substeps /\ b = Substeps + k - 1
    BY <1>1, <1>2 DEF Uses
  <1>4. Apart(r)
    <2> SUFFICES ASSUME NEW a, NEW c, NEW j, NEW k, NEW b, Uses(r, a, j, b), Uses(r, c, k, b)
                 PROVE  a = c /\ j = k
      BY DEF Apart
    <2>1. /\ \/ a = "own" /\ j \in 0 .. Substeps - 1 /\ b = j
             \/ a = "free" /\ j \in 1 .. NumBuffers - Substeps /\ b = Substeps + j - 1
          /\ \/ c = "own" /\ k \in 0 .. Substeps - 1 /\ b = k
             \/ c = "free" /\ k \in 1 .. NumBuffers - Substeps /\ b = Substeps + k - 1
      BY <1>3
    <2> QED BY <2>1
  <1>5. Content(r)
    <2>1. \A k \in 0 .. Substeps - 1 : bitmap[r][k] = Fresh(r * Substeps + k)
      BY <1>1 DEF Fresh, Buffer
    <2>2. DOMAIN pending[r] = {} /\ recvTail[r] .. recvFilled[r] - 1 = {}
      BY <1>1
    <2> QED BY <1>1, <1>2, <2>1, <2>2 DEF Content
  <1>6. SendsOK(r)
    BY <1>1 DEF SendsOK
  <1> QED BY <1>4, <1>5, <1>6

\* A rank of which nothing changes.
LEMMA SameData ==
  ASSUME NEW x \in Rank, Apart(x), Content(x),
         step'[x] = step[x], pc'[x] = pc[x], data'[x] = data[x], pending'[x] = pending[x],
         sending'[x] = sending[x], recvPair'[x] = recvPair[x], recvTop'[x] = recvTop[x],
         recvFilled'[x] = recvFilled[x], recvTail'[x] = recvTail[x], free'[x] = free[x],
         active'[x] = active[x], bitmap'[x] = bitmap[x], status'[x] = status[x],
         {0, 1} \ reqs'[x] = {0, 1} \ reqs[x]
  PROVE  Apart(x)' /\ Content(x)'
  <1>1. FirstOwn(x)' = FirstOwn(x)
    BY DEF FirstOwn
  <1>2. ASSUME NEW a, NEW k, NEW b PROVE Uses(x, a, k, b)' <=> Uses(x, a, k, b)
    BY <1>1 DEF Uses
  <1>3. Apart(x)'
    BY <1>2 DEF Apart
  <1>4. Content(x)'
    BY <1>1 DEF Content
  <1> QED BY <1>3, <1>4

\* The messages of a rank that has no new one, and of which no open send ends.
LEMMA SameSends ==
  ASSUME NEW x \in Rank, SendsOK(x), sending'[x] = sending[x], reqs'[x] = reqs[x], net'[x] = net[x]
  PROVE  SendsOK(x)'
  <1>1. ASSUME NEW e PROVE MessageOK(x, e)' <=> MessageOK(x, e)
    BY DEF MessageOK
  <1>2. ASSUME NEW q \in Rank, NEW j \in DOMAIN net'[x][q] PROVE MessageOK(x, net[x][q][j])'
    BY <1>1, <1>2 DEF SendsOK
  <1> HIDE DEF MessageOK
  <1> QED BY <1>2 DEF SendsOK

\* The entries of recv_pair wrap around.
LEMMA Wrap ==
  /\ \A j \in Nat : j % 4 \in Slot
  /\ \A j, k \in Nat : j < k /\ k < j + 4 => j % 4 # k % 4
  BY DEF Slot

\* The buffers stay apart when each use comes from another one.
LEMMA CompleteData ==
  ASSUME RingInv, DataInv, NEW r \in Rank, Complete(r)
  PROVE  Apart(r)' /\ Content(r)'
  <1> DEFINE n == Len(free[r])
             f == recvFilled[r]
  <1>1. /\ TypesOK /\ CountOK(r) /\ Apart(r) /\ Content(r)
    BY DEF RingInv, DataInv
  <1>2. /\ active[r] /\ reqs[r] = {} /\ active'[r] = FALSE /\ recvFilled'[r] = f + 2
        /\ f \in Nat /\ recvTop[r] \in Nat /\ recvTail[r] \in Nat /\ n \in Nat
        /\ f = recvTop[r] - 2 /\ recvTop[r] - recvTail[r] <= 4 /\ recvTail[r] <= f
        /\ Len(sending[r]) = 2 /\ sending[r] \in Seq(SliceTag) /\ free[r] \in Seq(Buffer)
    <2>1. /\ active[r] /\ reqs[r] = {} /\ active'[r] = FALSE /\ recvFilled'[r] = f + 2
      BY <1>1 DEF Complete, ExchangeDone, TypesOK, TopType, ReqsType
    <2>2. /\ f \in Nat /\ recvTop[r] \in Nat /\ recvTail[r] \in Nat /\ n \in Nat
          /\ recvTop[r] - recvTail[r] <= 4
      BY <1>1, Room
    <2>3. f = recvTop[r] - 2 /\ recvTail[r] <= f /\ recvTop[r] >= 2
      BY <1>1, <2>1 DEF CountOK
    <2>4. Len(sending[r]) = 2
      BY <1>1, <2>2, <2>3 DEF CountOK
    <2> QED BY <1>1, <2>1, <2>2, <2>3, <2>4 DEF TypesOK, SendingType, FreeType
  <1>3. /\ DOMAIN sending[r] = {1, 2}
        /\ free'[r] = Freed(r) /\ DOMAIN free[r] = 1 .. n /\ DOMAIN free'[r] = 1 .. n + 2
        /\ \A k \in 1 .. n : free'[r][k] = free[r][k]
        /\ free'[r][n + 1] = sending[r][1].buf /\ free'[r][n + 2] = sending[r][2].buf
    <2>1. sending[r][1] \in SliceTag /\ sending[r][2] \in SliceTag /\ DOMAIN sending[r] = {1, 2}
      BY <1>2
    <2>2. sending[r][1].buf \in Buffer /\ sending[r][2].buf \in Buffer
      BY <2>1 DEF SliceTag
    <2>3. free'[r] = free[r] \o <<sending[r][1].buf, sending[r][2].buf>> /\ free'[r] = Freed(r)
      BY <1>1 DEF Complete, Freed, TypesOK, FreeType
    <2> DEFINE x == sending[r][1].buf
               y == sending[r][2].buf
               s == free[r]
    <2> HIDE DEF x, y, s
    <2>4. free'[r] = s \o <<x, y>> /\ s \in Seq(Buffer) /\ x \in Buffer /\ y \in Buffer /\ n = Len(s)
      BY <1>2, <2>2, <2>3 DEF x, y, s
    <2>5. /\ DOMAIN s = 1 .. n /\ DOMAIN free'[r] = 1 .. n + 2
          /\ \A k \in 1 .. n : free'[r][k] = s[k]
          /\ free'[r][n + 1] = x /\ free'[r][n + 2] = y
      BY <2>4
    <2> QED BY <2>1, <2>3, <2>5 DEF x, y, s
  <1>4. /\ \A s \in Slot : recvPair'[r][s].buf = recvPair[r][s].buf
        /\ \A s \in Slot : recvPair'[r][s].region =
             IF s = TagSlot(r, 0) THEN status[r][0] ELSE IF s = TagSlot(r, 1) THEN status[r][1]
             ELSE recvPair[r][s].region
        /\ TagSlot(r, 0) = f % 4 /\ TagSlot(r, 1) = (f + 1) % 4 /\ TagSlot(r, 0) # TagSlot(r, 1)
    <2>1. TagSlot(r, 0) = f % 4 /\ TagSlot(r, 1) = (f + 1) % 4
      BY <1>2 DEF TagSlot
    <2> QED BY <1>1, <2>1, CompleteWrites DEF TypesOK
  <1>5. /\ UNCHANGED <<step, pc, data, bitmap, pending, sending, recvTop, recvTail, status, reqs>>
        /\ FirstOwn(r)' = FirstOwn(r)
    BY DEF Complete, FirstOwn
  <1>6. ASSUME NEW k \in recvTail[r] .. recvTop[r] - 1 PROVE k \in Nat /\ k % 4 \in Slot
    <2>1. k \in Nat
      BY <1>2
    <2> QED BY <2>1, Wrap
  <1> HIDE DEF n, f
  <1>7. ASSUME NEW a, NEW k, NEW b, Uses(r, a, k, b)'
        PROVE  IF a = "free" /\ k \in {n + 1, n + 2} THEN Uses(r, "sending", k - n, b)
               ELSE Uses(r, a, k, b) /\ a # "sending"
    <2>1. CASE a = "free"
      <3>1. k \in 1 .. n + 2 /\ b = free'[r][k]
        BY <1>3, <1>7, <2>1 DEF Uses
      <3>2. CASE k \in 1 .. n
        BY <1>2, <1>3, <2>1, <3>1, <3>2, SMTT(30) DEF Uses
      <3>3. CASE k = n + 1
        <4>1. k - n = 1
          BY <1>2, <3>3
        <4> QED BY <1>2, <1>3, <2>1, <3>1, <3>3, <4>1 DEF Uses
      <3>4. CASE k = n + 2
        <4>1. k - n = 2
          BY <1>2, <3>4
        <4> QED BY <1>2, <1>3, <2>1, <3>1, <3>4, <4>1 DEF Uses
      <3> QED BY <1>2, <3>1, <3>2, <3>3, <3>4
    <2>2. CASE a = "recv"
      <3>1. k \in recvTail[r] .. recvTop[r] - 1 /\ b = recvPair'[r][k % 4].buf
        BY <1>5, <1>7, <2>2 DEF Uses
      <3> QED BY <1>4, <1>6, <2>2, <3>1 DEF Uses
    <2>3. CASE a \notin {"free", "recv"}
      BY <1>2, <1>5, <1>7, <2>3 DEF Uses
    <2> QED BY <2>1, <2>2, <2>3
  <1>8. Apart(r)'
    <2> SUFFICES ASSUME NEW a, NEW c, NEW j, NEW k, NEW b, Uses(r, a, j, b)', Uses(r, c, k, b)'
                 PROVE  a = c /\ j = k
      BY DEF Apart
    <2>1. CASE a = "free" /\ j \in {n + 1, n + 2}
      <3>1. Uses(r, "sending", j - n, b)
        BY <1>7, <2>1
      <3>2. c = "free" /\ k \in {n + 1, n + 2} /\ Uses(r, "sending", k - n, b)
        BY <1>1, <1>7, <3>1 DEF Apart
      <3>3. j - n = k - n
        BY <1>1, <3>1, <3>2 DEF Apart
      <3> QED BY <1>2, <2>1, <3>2, <3>3
    <2>2. CASE ~ (a = "free" /\ j \in {n + 1, n + 2})
      <3>1. Uses(r, a, j, b) /\ a # "sending"
        BY <1>7, <2>2
      <3>2. Uses(r, c, k, b)
        BY <1>1, <1>7, <3>1 DEF Apart
      <3> QED BY <1>1, <3>1, <3>2 DEF Apart
    <2> QED BY <2>1, <2>2
  <1>9. Content(r)'
    <2>1. ASSUME NEW j \in recvTail[r] .. f + 1
          PROVE  bitmap[r][recvPair'[r][j % 4].buf] =
                   After(recvPair'[r][j % 4].region, From(recvPair'[r][j % 4].region, r))
      <3>1. j % 4 \in Slot /\ recvPair'[r][j % 4].buf = recvPair[r][j % 4].buf /\ j \in Nat
        <4>1. j \in recvTail[r] .. recvTop[r] - 1
          BY <1>2
        <4> QED BY <1>4, <1>6, <4>1
      <3>2. CASE j = f
        <4>1. 0 \in {0, 1} \ reqs[r] /\ (recvTop[r] - 2 + 0) % 4 = f % 4
          BY <1>2
        <4>2. bitmap[r][recvPair[r][f % 4].buf] = After(status[r][0], From(status[r][0], r))
          BY <1>1, <1>2, <4>1 DEF Content
        <4>3. recvPair'[r][f % 4].region = status[r][0]
          BY <1>4, <3>1, <3>2
        <4> QED BY <3>1, <3>2, <4>2, <4>3
      <3>3. CASE j = f + 1
        <4>1. 1 \in {0, 1} \ reqs[r] /\ (recvTop[r] - 2 + 1) % 4 = (f + 1) % 4
          BY <1>2
        <4>2. bitmap[r][recvPair[r][(f + 1) % 4].buf] = After(status[r][1], From(status[r][1], r))
          BY <1>1, <1>2, <4>1 DEF Content
        <4>3. recvPair'[r][(f + 1) % 4].region = status[r][1]
          BY <1>4, <3>1, <3>3
        <4> QED BY <3>1, <3>3, <4>2, <4>3
      <3>4. CASE j < f
        <4>1. f \in Nat /\ f + 1 \in Nat /\ j < f + 1 /\ f < j + 4 /\ f + 1 < j + 4
          <5>1. f + 2 - recvTail[r] <= 4 /\ recvTail[r] <= j /\ recvTail[r] \in Nat /\ f \in Nat
            BY <1>2
          <5> QED BY <3>1, <3>4, <5>1
        <4>2. j % 4 # f % 4 /\ j % 4 # (f + 1) % 4
          BY <3>1, <3>4, <4>1, Wrap
        <4>3. recvPair'[r][j % 4].region = recvPair[r][j % 4].region
          BY <1>4, <3>1, <4>2
        <4>4. j \in recvTail[r] .. recvFilled[r] - 1
          BY <1>2, <3>4 DEF f
        <4> QED BY <1>1, <3>1, <4>3, <4>4 DEF Content
      <3> QED BY <1>2, <3>1, <3>2, <3>3, <3>4
    <2>2. recvFilled'[r] - 1 = f + 1
      BY <1>2
    <2> QED BY <1>1, <1>2, <1>5, <2>1, <2>2 DEF Content
  <1> QED BY <1>8, <1>9

\* Own slices first, then those that the ring has brought.
LEMMA TakeData ==
  ASSUME RingInv, DataInv, NEW r \in Rank, Take(r)
  PROVE  Apart(r)' /\ Content(r)'
  <1> DEFINE n == step[r]
             t == recvTail[r]
  <1>1. /\ TypesOK /\ CountOK(r) /\ Apart(r) /\ Content(r)
    BY DEF RingInv, DataInv
  <1>2. /\ n \in Nat /\ t \in Nat /\ recvTop[r] \in Nat /\ recvFilled[r] \in Nat
        /\ recvFilled[r] <= recvTop[r] /\ pc[r] = "take" /\ FirstOwn(r) = n
    <2>1. n \in Nat /\ t \in Nat /\ recvTop[r] \in Nat /\ recvFilled[r] \in Nat
      BY <1>1, Room
    <2>2. pc[r] = "take"
      BY DEF Take
    <2>3. recvFilled[r] <= recvTop[r]
      BY <1>1, <2>1 DEF CountOK
    <2> QED BY <2>1, <2>2, <2>3 DEF FirstOwn
  <1>3. UNCHANGED <<step, pending, sending, recvPair, recvTop, recvFilled, free, active, reqs,
                    status, bitmap>>
    BY DEF Take
  <1>4. CASE n < Substeps
    <2>1. /\ pc'[r] = "search" /\ recvTail' = recvTail
          /\ data'[r] = [region |-> r * Substeps + n, buf |-> n]
      BY <1>1, <1>4 DEF Take, TypesOK, StepType, DataType
    <2>2. data'[r].region = r * Substeps + n /\ data'[r].buf = n
      BY <2>1
    <2>3. FirstOwn(r)' = n + 1
      BY <1>3, <2>1 DEF FirstOwn
    <2>4. OwnerOf(data'[r].region) = r
      BY <1>2, <1>4, <2>2, Parts
    <2> HIDE DEF n, t
    <2>5. ASSUME NEW a, NEW k, NEW b, Uses(r, a, k, b)'
          PROVE  IF a = "work" THEN k = 0 /\ Uses(r, "own", n, b)
                 ELSE Uses(r, a, k, b) /\ (a = "own" => k # n)
      <3>1. CASE a = "work"
        BY <1>2, <1>4, <2>2, <2>5, <3>1 DEF Uses
      <3>2. CASE a = "own"
        BY <1>2, <1>4, <2>3, <2>5, <3>2 DEF Uses
      <3>3. CASE a \notin {"work", "own"}
        BY <1>3, <2>1, <2>5, <3>3 DEF Uses
      <3> QED BY <3>1, <3>2, <3>3
    <2>6. Apart(r)'
      <3> SUFFICES ASSUME NEW a, NEW c, NEW j, NEW k, NEW b, Uses(r, a, j, b)', Uses(r, c, k, b)'
                   PROVE  a = c /\ j = k
        BY DEF Apart
      <3> QED BY <1>1, <2>5 DEF Apart
    <2>7. bitmap[r][n] = Fresh(r * Substeps + n)
          /\ \A k \in n + 1 .. Substeps - 1 : bitmap[r][k] = Fresh(r * Substeps + k)
      BY <1>1, <1>2, <1>4 DEF Content
    <2>8. Content(r)'
      BY <1>1, <1>3, <2>1, <2>2, <2>3, <2>4, <2>7 DEF Content
    <2> QED BY <2>6, <2>8
  <1>5. CASE ~ (n < Substeps)
    <2> DEFINE d == recvPair[r][t % 4]
    <2>1. /\ t < recvFilled[r] /\ recvTail'[r] = t + 1 /\ data'[r] = d
          /\ pc'[r] = IF OwnerOf(d.region) = r THEN "copy" ELSE "search"
      BY <1>1, <1>5 DEF Take, TypesOK, TailType, DataType, StepType
    <2>2. FirstOwn(r)' = n + 1
      BY <1>3, <2>1 DEF FirstOwn
    <2>3. bitmap[r][d.buf] = After(d.region, From(d.region, r))
      BY <1>1, <1>2, <2>1, SMTT(30) DEF Content
    <2> HIDE DEF n, t, d
    <2>4. ASSUME NEW a, NEW k, NEW b, Uses(r, a, k, b)'
          PROVE  IF a = "work" THEN k = 0 /\ Uses(r, "recv", t, b)
                 ELSE Uses(r, a, k, b) /\ (a = "recv" => k # t)
      <3>1. CASE a = "work"
        BY <1>2, <2>1, <2>4, <3>1 DEF Uses, t, d
      <3>2. CASE a = "recv"
        BY <1>2, <1>3, <2>1, <2>4, <3>2 DEF Uses, t
      <3>3. CASE a = "own"
        BY <1>2, <1>5, <2>2, <2>4, <3>3 DEF Uses
      <3>4. CASE a \notin {"work", "own", "recv"}
        BY <1>3, <2>1, <2>4, <3>4 DEF Uses
      <3> QED BY <3>1, <3>2, <3>3, <3>4
    <2>5. Apart(r)'
      <3> SUFFICES ASSUME NEW a, NEW c, NEW j, NEW k, NEW b, Uses(r, a, j, b)', Uses(r, c, k, b)'
                   PROVE  a = c /\ j = k
        BY DEF Apart
      <3> QED BY <1>1, <2>4 DEF Apart
    <2>6. n + 1 .. Substeps - 1 = {}
      BY <1>2, <1>5
    <2>7. /\ pc'[r] = "search" => OwnerOf(data'[r].region) # r
          /\ bitmap[r][data'[r].buf] = After(data'[r].region, From(data'[r].region, r))
      BY <2>1, <2>3
    <2>8. \A j \in t + 1 .. recvFilled[r] - 1 :
            bitmap[r][recvPair[r][j % 4].buf] =
              After(recvPair[r][j % 4].region, From(recvPair[r][j % 4].region, r))
      BY <1>1, <1>2 DEF Content, t
    <2>9. Content(r)'
      BY <1>1, <1>3, <2>1, <2>2, <2>6, <2>7, <2>8 DEF Content
    <2> QED BY <2>5, <2>9
  <1> QED BY <1>4, <1>5

LEMMA CopyData ==
  ASSUME RingInv, DataInv, NEW r \in Rank, CopyHome(r)
  PROVE  Apart(r)' /\ Content(r)'
  <1>1. /\ TypesOK /\ Apart(r) /\ Content(r)
    BY DEF RingInv, DataInv
  <1>2. /\ pc[r] = "copy" /\ pc'[r] = "take" /\ step'[r] = step[r] + 1
        /\ UNCHANGED <<data, pending, sending, recvPair, recvTop, recvFilled, recvTail, free, active,
                       reqs, status, bitmap>>
    BY <1>1 DEF CopyHome, TypesOK, StepType
  <1>3. FirstOwn(r)' = FirstOwn(r)
    BY <1>2 DEF FirstOwn
  <1>4. ASSUME NEW a, NEW k, NEW b, Uses(r, a, k, b)' PROVE Uses(r, a, k, b)
    BY <1>2, <1>3, <1>4 DEF Uses
  <1>5. Apart(r)'
    BY <1>1, <1>4 DEF Apart
  <1>6. Content(r)'
    BY <1>1, <1>2, <1>3 DEF Content
  <1> QED BY <1>5, <1>6

\* A slice that is searched grows by the rank, and nothing else changes.
LEMMA SearchData ==
  ASSUME RingInv, DataInv, NEW r \in Rank, Search(r)
  PROVE  Apart(r)' /\ Content(r)' /\ last' = [last EXCEPT ![data[r].region] = Trip(data[r].region, r)]
  <1> DEFINE b == data[r].buf
             g == data[r].region
             l == Len(pending[r])
  <1>1. /\ TypesOK /\ Apart(r) /\ Content(r) /\ CountOK(r)
    BY DEF RingInv, DataInv
  <1>2. /\ pc[r] = "search" /\ pc'[r] \in {"take", "exchange"} /\ pending'[r] = Append(pending[r], data[r])
        /\ step'[r] = IF pc'[r] = "take" THEN step[r] + 1 ELSE step[r]
        /\ UNCHANGED <<data, sending, recvPair, recvTop, recvFilled, recvTail, free, active, reqs, status>>
    <2>1. pc[r] = "search" /\ pending'[r] = Append(pending[r], data[r])
          /\ UNCHANGED <<data, sending, recvPair, recvTop, recvFilled, recvTail, free, active, reqs, status>>
      BY <1>1 DEF Search, TypesOK, PendingType
    <2>2. CASE Len(pending[r]) = 1
      BY <1>1, <2>1, <2>2 DEF Search, TypesOK, StepType
    <2>3. CASE Len(pending[r]) # 1
      BY <1>1, <2>1, <2>3 DEF Search, TypesOK, StepType
    <2> QED BY <2>1, <2>2, <2>3
  <1>3. FirstOwn(r)' = FirstOwn(r)
    BY <1>2 DEF FirstOwn
  <1>4. /\ l \in Nat /\ pending[r] \in Seq(SliceTag) /\ data[r] \in SliceTag
        /\ DOMAIN pending[r] = 1 .. l /\ DOMAIN pending'[r] = 1 .. l + 1
        /\ \A k \in 1 .. l : pending'[r][k] = pending[r][k]
        /\ pending'[r][l + 1] = data[r]
    <2>1. pending[r] \in Seq(SliceTag) /\ data[r] \in SliceTag
      BY <1>1 DEF TypesOK, PendingType, DataType
    <2> QED BY <1>2, <2>1
  <1>5. /\ b \in Buffer /\ g \in Region
        /\ bitmap'[r] = [bitmap[r] EXCEPT ![b] = After(g, r)] /\ bitmap[r] \in [Buffer -> SliceData]
        /\ last' = [last EXCEPT ![g] = Trip(g, r)]
    <2> DEFINE old == bitmap[r][b]
               searched == [region |-> old.region, path |-> Append(old.path, r)]
    <2>1. /\ b \in Buffer /\ g \in Region
          /\ bitmap' = [bitmap EXCEPT ![r] = [bitmap[r] EXCEPT ![b] = searched]]
          /\ last' = [last EXCEPT ![g] = searched.path]
      BY <1>1, SearchWrites DEF TypesOK
    <2>2. old = IF OwnerOf(g) = r THEN Fresh(g) ELSE After(g, From(g, r))
      BY <1>1, <1>2 DEF Content
    <2> HIDE DEF old
    <2>3. searched = After(g, r)
      <3> HIDE DEF g
      <3>1. CASE OwnerOf(g) = r
        BY <2>1, <2>2, <3>1, TripGrows DEF Fresh, After
      <3>2. CASE OwnerOf(g) # r
        BY <2>1, <2>2, <3>2, TripGrows DEF After
      <3> QED BY <3>1, <3>2
    <2>4. searched.path = Trip(g, r)
      BY <2>3 DEF After
    <2> HIDE DEF searched, g
    <2>5. bitmap \in [Rank -> [Buffer -> SliceData]]
      BY <1>1 DEF TypesOK, BitmapType
    <2>6. bitmap'[r] = [bitmap[r] EXCEPT ![b] = After(g, r)] /\ bitmap[r] \in [Buffer -> SliceData]
      BY <2>1, <2>3, <2>5
    <2> QED BY <2>1, <2>4, <2>6
  <1>6. Uses(r, "work", 0, b)
    BY <1>2 DEF Uses
  <1>7. ASSUME NEW a, NEW k, NEW c, Uses(r, a, k, c), a # "work", c \in Buffer
        PROVE  bitmap'[r][c] = bitmap[r][c]
    <2>1. c # b
      BY <1>1, <1>6, <1>7 DEF Apart
    <2> QED BY <1>5, <1>7, <2>1
  <1> HIDE DEF l
  <1>8. ASSUME NEW a, NEW k, NEW c, Uses(r, a, k, c)'
        PROVE  IF a = "pending" /\ k = l + 1 THEN Uses(r, "work", 0, c)
               ELSE Uses(r, a, k, c) /\ a # "work"
    <2>1. CASE a = "pending"
      <3>1. k \in 1 .. l + 1 /\ c = pending'[r][k].buf
        BY <1>4, <1>8, <2>1 DEF Uses
      <3>2. CASE k = l + 1
        BY <1>2, <1>4, <2>1, <3>1, <3>2 DEF Uses
      <3>3. CASE k \in 1 .. l
        BY <1>4, <2>1, <3>1, <3>3 DEF Uses
      <3> QED BY <1>4, <3>1, <3>2, <3>3
    <2>2. CASE a # "pending"
      BY <1>2, <1>3, <1>8, <2>2 DEF Uses
    <2> QED BY <2>1, <2>2
  <1>9. Apart(r)'
    <2> SUFFICES ASSUME NEW a, NEW c, NEW j, NEW k, NEW d, Uses(r, a, j, d)', Uses(r, c, k, d)'
                 PROVE  a = c /\ j = k
      BY DEF Apart
    <2> QED BY <1>1, <1>8 DEF Apart
  <1>10. Content(r)'
    <2>1. ASSUME NEW k \in FirstOwn(r) .. Substeps - 1
          PROVE  bitmap'[r][k] = Fresh(r * Substeps + k)
      <3>1. Uses(r, "own", k, k)
        BY DEF Uses
      <3>2. k \in Buffer
        BY <1>1 DEF Buffer, FirstOwn, TypesOK, StepType
      <3> QED BY <1>1, <1>7, <3>1, <3>2 DEF Content
    <2>2. ASSUME NEW k \in 1 .. l + 1
          PROVE  bitmap'[r][pending'[r][k].buf] = After(pending'[r][k].region, r)
      <3>1. CASE k = l + 1
        BY <1>4, <1>5, <3>1
      <3>2. CASE k \in 1 .. l
        <4>1. Uses(r, "pending", k, pending[r][k].buf) /\ pending[r][k] \in SliceTag
          BY <1>4, <3>2 DEF Uses
        <4>2. bitmap'[r][pending[r][k].buf] = bitmap[r][pending[r][k].buf]
          BY <1>7, <4>1 DEF SliceTag
        <4> QED BY <1>1, <1>4, <3>2, <4>2 DEF Content
      <3> QED BY <1>4, <3>1, <3>2
    <2>3. ASSUME active[r], NEW k \in DOMAIN sending[r]
          PROVE  bitmap'[r][sending[r][k].buf] = After(sending[r][k].region, r)
      <3>1. Uses(r, "sending", k, sending[r][k].buf) /\ sending[r][k] \in SliceTag
        BY <1>1, <2>3 DEF Uses, TypesOK, SendingType
      <3>2. bitmap'[r][sending[r][k].buf] = bitmap[r][sending[r][k].buf]
        BY <1>7, <3>1 DEF SliceTag
      <3> QED BY <1>1, <2>3, <3>2 DEF Content
    <2>4. ASSUME NEW j \in recvTail[r] .. recvTop[r] - 1
          PROVE  bitmap'[r][recvPair[r][j % 4].buf] = bitmap[r][recvPair[r][j % 4].buf]
      <3>1. j \in Nat
        BY <1>1, Room
      <3>2. recvPair[r][j % 4].buf \in Buffer
        BY <1>1, <3>1, Wrap DEF TypesOK, PairType, SliceTag
      <3>3. Uses(r, "recv", j, recvPair[r][j % 4].buf)
        BY DEF Uses
      <3> QED BY <1>7, <3>2, <3>3
    <2>5. /\ recvTail[r] \in Nat /\ recvTop[r] \in Nat /\ recvFilled[r] \in Nat
          /\ recvFilled[r] = (IF active[r] THEN recvTop[r] - 2 ELSE recvTop[r])
          /\ recvTail[r] <= recvFilled[r]
      BY <1>1, Room DEF CountOK
    <2>6. ASSUME NEW j \in recvTail[r] .. recvFilled[r] - 1
          PROVE  bitmap'[r][recvPair[r][j % 4].buf] =
                   After(recvPair[r][j % 4].region, From(recvPair[r][j % 4].region, r))
      <3>1. j \in recvTail[r] .. recvTop[r] - 1
        BY <2>5
      <3> QED BY <1>1, <2>4, <3>1 DEF Content
    <2>7. ASSUME active[r], NEW k \in {0, 1} \ reqs[r]
          PROVE  bitmap'[r][recvPair[r][(recvTop[r] - 2 + k) % 4].buf] = After(status[r][k], From(status[r][k], r))
      <3>1. recvTop[r] - 2 + k \in recvTail[r] .. recvTop[r] - 1
        BY <2>5, <2>7
      <3> QED BY <1>1, <2>4, <2>7, <3>1 DEF Content
    <2> HIDE DEF b, g
    <2> QED BY <1>2, <1>3, <1>4, <2>1, <2>2, <2>3, <2>6, <2>7 DEF Content
  <1> QED BY <1>5, <1>9, <1>10

\* The pair that is sent takes the place of the pending one, and the receives
\* get two buffers of the free list.
LEMMA StartData ==
  ASSUME RingInv, DataInv, NEW r \in Rank, StartExchange(r)
  PROVE  Apart(r)' /\ Content(r)'
  <1> DEFINE n == Len(free[r])
             t == recvTop[r]
             k0 == recvTail[r]
  <1>1. /\ TypesOK /\ CountOK(r) /\ Apart(r) /\ Content(r)
    BY DEF RingInv, DataInv
  <1>2. /\ n \in Nat /\ t \in Nat /\ k0 \in Nat /\ t - k0 <= 2 /\ k0 <= t /\ step[r] \in Nat
        /\ ~ active[r] /\ recvFilled[r] = t /\ pc[r] = "exchange" /\ n >= 2
        /\ Len(pending[r]) = 2
    <2>1. /\ n \in Nat /\ t \in Nat /\ k0 \in Nat /\ t - k0 <= 2 /\ step[r] \in Nat
      BY <1>1, Room DEF StartExchange
    <2>2. ~ active[r] /\ pc[r] = "exchange" /\ n >= 2
      BY DEF StartExchange
    <2>3. recvFilled[r] = t /\ k0 <= t
      BY <1>1, <2>2 DEF CountOK
    <2>4. Len(pending[r]) = 2
      BY <1>1, <2>2 DEF CountOK, Ledger
    <2> QED BY <2>1, <2>2, <2>3, <2>4
  <1>3. /\ pc'[r] = "take" /\ step'[r] = step[r] + 1 /\ pending'[r] = <<>> /\ sending'[r] = pending[r]
        /\ recvTop'[r] = t + 2 /\ active'[r] = TRUE /\ reqs'[r] = 0 .. 3 /\ free'[r] = SubSeq(free[r], 1, n - 2)
        /\ UNCHANGED <<data, bitmap, recvFilled, recvTail, status>>
    <2>1. pc'[r] = "take" /\ step'[r] = step[r] + 1 /\ recvTop'[r] = t + 2
      BY <1>1 DEF StartExchange, TypesOK, StepType, TopType
    <2>2. pending'[r] = <<>> /\ sending'[r] = pending[r] /\ active'[r] = TRUE /\ reqs'[r] = 0 .. 3
      BY <1>1 DEF StartExchange, TypesOK, PendingType, SendingType, ReqsType
    <2>3. free'[r] = SubSeq(free[r], 1, n - 2)
      BY <1>1 DEF StartExchange, TypesOK, FreeType
    <2>4. UNCHANGED <<data, bitmap, recvFilled, recvTail, status>>
      BY DEF StartExchange
    <2> QED BY <2>1, <2>2, <2>3, <2>4
  <1>4. /\ \A s \in Slot : /\ recvPair'[r][s].region = recvPair[r][s].region
                           /\ recvPair'[r][s].buf =
                                IF s = t % 4 THEN free[r][n] ELSE IF s = (t + 1) % 4 THEN free[r][n - 1]
                                ELSE recvPair[r][s].buf
        /\ t % 4 # (t + 1) % 4 /\ t % 4 \in Slot /\ (t + 1) % 4 \in Slot
    BY <1>1, <1>2, StartWrites DEF TypesOK
  <1>5. DOMAIN free'[r] = 1 .. n - 2 /\ DOMAIN free[r] = 1 .. n
        /\ \A k \in 1 .. n - 2 : free'[r][k] = free[r][k]
    <2> DEFINE s == free[r]
               m == n - 2
    <2>1. s \in Seq(Buffer) /\ m \in 0 .. Len(s)
      BY <1>1, <1>2 DEF TypesOK, FreeType
    <2> HIDE DEF s
    <2>2. DOMAIN SubSeq(s, 1, m) = 1 .. m /\ \A k \in 1 .. m : SubSeq(s, 1, m)[k] = s[k]
      <3> HIDE DEF m
      <3> QED BY <2>1
    <2>3. DOMAIN s = 1 .. Len(s)
      BY <2>1
    <2> QED BY <1>3, <2>2, <2>3 DEF s
  <1>6. FirstOwn(r)' = FirstOwn(r)
    BY <1>2, <1>3 DEF FirstOwn
  <1>7. DOMAIN pending[r] = {1, 2} /\ DOMAIN pending'[r] = {}
    <2>1. pending[r] \in Seq(SliceTag)
      BY <1>1 DEF TypesOK, PendingType
    <2> QED BY <1>2, <1>3, <2>1
  <1> HIDE DEF n, t, k0
  <1>8. ASSUME NEW k \in k0 .. t - 1
        PROVE  k % 4 \in Slot /\ recvPair'[r][k % 4].buf = recvPair[r][k % 4].buf
    <2>1. k \in Nat /\ k < t /\ t < k + 4 /\ k < t + 1 /\ t + 1 < k + 4 /\ t + 1 \in Nat
      BY <1>2
    <2>2. k % 4 \in Slot /\ k % 4 # t % 4 /\ k % 4 # (t + 1) % 4
      BY <1>2, <2>1, Wrap
    <2> QED BY <1>4, <2>2
  <1>9. ASSUME NEW a, NEW k, NEW b, Uses(r, a, k, b)'
        PROVE  /\ a = "sending" => Uses(r, "pending", k, b)
               /\ a = "recv" /\ k = t => Uses(r, "free", n, b)
               /\ a = "recv" /\ k = t + 1 => Uses(r, "free", n - 1, b)
               /\ a = "recv" /\ k \notin {t, t + 1} => Uses(r, a, k, b)
               /\ a = "free" => Uses(r, a, k, b) /\ k # n /\ k # n - 1
               /\ a \notin {"sending", "recv", "free"} => Uses(r, a, k, b) /\ a # "pending"
    <2>1. ASSUME a = "sending" PROVE Uses(r, "pending", k, b)
      BY <1>3, <1>7, <1>9, <2>1 DEF Uses
    <2>2. ASSUME a = "recv" PROVE k \in k0 .. t + 1 /\ b = recvPair'[r][k % 4].buf
      <3>1. k \in recvTail'[r] .. recvTop'[r] - 1 /\ b = recvPair'[r][k % 4].buf
        BY <1>9, <2>2 DEF Uses
      <3> QED BY <1>2, <1>3, <3>1 DEF k0
    <2>3. ASSUME a = "recv", k = t PROVE Uses(r, "free", n, b)
      BY <1>2, <1>4, <1>5, <2>2, <2>3 DEF Uses
    <2>4. ASSUME a = "recv", k = t + 1 PROVE Uses(r, "free", n - 1, b)
      BY <1>2, <1>4, <1>5, <2>2, <2>4 DEF Uses
    <2>5. ASSUME a = "recv", k \notin {t, t + 1} PROVE Uses(r, a, k, b)
      <3>1. k \in k0 .. t - 1 /\ b = recvPair'[r][k % 4].buf
        BY <1>2, <2>2, <2>5
      <3> QED BY <1>8, <2>5, <3>1 DEF Uses, k0, t
    <2>6. ASSUME a = "free" PROVE Uses(r, a, k, b) /\ k # n /\ k # n - 1
      <3>1. k \in 1 .. n - 2 /\ b = free'[r][k]
        BY <1>5, <1>9, <2>6 DEF Uses
      <3> QED BY <1>2, <1>5, <2>6, <3>1 DEF Uses
    <2>7. ASSUME a \notin {"sending", "recv", "free"} PROVE Uses(r, a, k, b) /\ a # "pending"
      BY <1>3, <1>6, <1>7, <1>9, <2>7 DEF Uses
    <2> QED BY <2>1, <2>3, <2>4, <2>5, <2>6, <2>7
  <1>10. Apart(r)'
    <2> SUFFICES ASSUME NEW a, NEW c, NEW j, NEW k, NEW b, Uses(r, a, j, b)', Uses(r, c, k, b)'
                 PROVE  a = c /\ j = k
      BY DEF Apart
    <2>1. \A d, e, x, y : Uses(r, d, x, b) /\ Uses(r, e, y, b) => d = e /\ x = y
      BY <1>1 DEF Apart
    <2>2. CASE a = "recv" /\ j \in {t, t + 1}
      <3>1. c = "recv" /\ k \in {t, t + 1}
        BY <1>2, <1>9, <2>1, <2>2
      <3>2. n # n - 1
        BY <1>2
      <3> QED BY <1>9, <2>1, <2>2, <3>1, <3>2
    <2>3. CASE ~ (a = "recv" /\ j \in {t, t + 1})
      <3>1. ~ (c = "recv" /\ k \in {t, t + 1})
        BY <1>2, <1>9, <2>1, <2>3
      <3> QED BY <1>9, <2>1, <2>3, <3>1
    <2> QED BY <2>2, <2>3
  <1>11. Content(r)'
    <2>1. ASSUME NEW j \in k0 .. t - 1
          PROVE  bitmap[r][recvPair'[r][j % 4].buf] =
                   After(recvPair'[r][j % 4].region, From(recvPair'[r][j % 4].region, r))
      <3>1. j % 4 \in Slot /\ recvPair'[r][j % 4].buf = recvPair[r][j % 4].buf
        BY <1>8
      <3>2. recvPair'[r][j % 4].region = recvPair[r][j % 4].region
        BY <1>4, <3>1
      <3>3. j \in recvTail[r] .. recvFilled[r] - 1
        BY <1>2 DEF k0
      <3> QED BY <1>1, <3>1, <3>2, <3>3 DEF Content
    <2>2. recvFilled'[r] - 1 = t - 1 /\ recvTail'[r] = k0 /\ {0, 1} \ reqs'[r] = {}
      BY <1>2, <1>3 DEF k0
    <2> QED BY <1>1, <1>3, <1>6, <1>7, <2>1, <2>2 DEF Content
  <1> QED BY <1>10, <1>11

LEMMA AppendAt ==
  ASSUME NEW s \in Seq(Message), NEW e \in Message
  PROVE  /\ Append(s, e) \in Seq(Message) /\ Len(s) \in Nat /\ Len(Append(s, e)) = Len(s) + 1
         /\ DOMAIN s = 1 .. Len(s) /\ DOMAIN Append(s, e) = 1 .. Len(s) + 1
         /\ \A k \in 1 .. Len(s) : Append(s, e)[k] = s[k]
         /\ Append(s, e)[Len(s) + 1] = e
  OBVIOUS

\* When a pair is sent, MPI has copied all the messages before.
LEMMA StartSends ==
  ASSUME RingInv, DataInv, NEW r \in Rank, StartExchange(r)
  PROVE  SendsOK(r)' /\ \A x \in Rank \ {r} : net'[x] = net[x]
  <1> DEFINE e == Envelope(pending[r][1], 2)
             f == Envelope(pending[r][2], 3)
             N(q) == Len(net[r][q])
  <1>1. /\ TypesOK /\ CountOK(r) /\ SendsOK(r)
    BY DEF RingInv, DataInv
  <1>2. /\ ~ active[r] /\ pc[r] = "exchange" /\ reqs[r] = {} /\ Len(pending[r]) = 2
        /\ sending'[r] = pending[r] /\ reqs'[r] = 0 .. 3 /\ net' = Posted(r, pending[r])
    <2>1. ~ active[r] /\ pc[r] = "exchange" /\ net' = Posted(r, pending[r])
      BY DEF StartExchange
    <2>2. reqs[r] = {} /\ Len(pending[r]) = 2
      BY <1>1, <2>1 DEF CountOK, Ledger
    <2>3. sending'[r] = pending[r] /\ reqs'[r] = 0 .. 3
      BY <1>1 DEF StartExchange, TypesOK, SendingType, ReqsType
    <2> QED BY <2>1, <2>2, <2>3
  <1>3. /\ e \in Message /\ f \in Message /\ ~ e.copied /\ ~ f.copied /\ e.req = 2 /\ f.req = 3
        /\ e.buf = pending[r][1].buf /\ e.region = pending[r][1].region
        /\ f.buf = pending[r][2].buf /\ f.region = pending[r][2].region
    <2>1. e \in Message /\ f \in Message
      BY <1>1, <1>2, StartWrites DEF TypesOK
    <2>2. pending[r] \in Seq(SliceTag)
      BY <1>1 DEF TypesOK, PendingType
    <2>3. pending[r][1] \in SliceTag /\ pending[r][2] \in SliceTag
      BY <1>2, <2>2
    <2> QED BY <2>1, <2>3, TagKeeps
  <1>4. PostedRow(r, pending[r]) /\ net' \in [Rank -> [Rank -> Seq(Message)]]
    BY <1>1, <1>2, <1>3, PostedNet DEF TypesOK, NetType
  <1>5. ASSUME NEW p \in Rank, NEW q \in Rank
        PROVE  net'[p][q] =
                 IF p # r THEN net[p][q]
                 ELSE IF q = Right(r) /\ q = Left(r) THEN Append(Append(net[r][q], e), f)
                 ELSE IF q = Right(r) THEN Append(net[r][q], e)
                 ELSE IF q = Left(r) THEN Append(net[r][q], f)
                 ELSE net[r][q]
    BY <1>2, <1>4, Zenon DEF PostedRow
  <1> HIDE DEF e, f
  <1>6. \A q \in Rank : net[r][q] \in Seq(Message) /\ N(q) \in Nat
    BY <1>1 DEF TypesOK, NetType
  <1>7. ASSUME NEW x \in Rank \ {r} PROVE net'[x] = net[x]
    <2>1. net[x] \in [Rank -> Seq(Message)] /\ net'[x] \in [Rank -> Seq(Message)]
      BY <1>1, <1>4 DEF TypesOK, NetType
    <2>2. \A q \in Rank : net'[x][q] = net[x][q]
      BY <1>5
    <2> QED BY <2>1, <2>2
  <1>8. ASSUME NEW q \in Rank, NEW j \in DOMAIN net[r][q]
        PROVE  net[r][q][j].copied /\ net[r][q][j].slice = After(net[r][q][j].region, r)
    BY <1>1, <1>2 DEF SendsOK, MessageOK
  <1>9. ASSUME NEW q \in Rank, NEW j \in DOMAIN net'[r][q]
        PROVE  \/ j \in DOMAIN net[r][q] /\ net'[r][q][j] = net[r][q][j]
               \/ q = Right(r) /\ j = N(q) + 1 /\ net'[r][q][j] = e
               \/ q = Left(r) /\ j = (IF q = Right(r) THEN (N(q) + 1) + 1 ELSE N(q) + 1) /\ net'[r][q][j] = f
    <2> DEFINE s == net[r][q]
    <2>1. s \in Seq(Message) /\ Len(s) = N(q)
      BY <1>6
    <2> HIDE DEF s, N
    <2>2. CASE q = Right(r) /\ q = Left(r)
      <3>1. net'[r][q] = Append(Append(s, e), f)
        BY <1>5, <2>2 DEF s
      <3>2. /\ Append(s, e) \in Seq(Message) /\ Len(Append(s, e)) = N(q) + 1
            /\ DOMAIN s = 1 .. N(q) /\ \A k \in 1 .. N(q) : Append(s, e)[k] = s[k]
            /\ Append(s, e)[N(q) + 1] = e /\ N(q) \in Nat
        BY <1>3, <2>1, AppendAt
      <3>3. /\ DOMAIN net'[r][q] = 1 .. (N(q) + 1) + 1
            /\ \A k \in 1 .. N(q) + 1 : net'[r][q][k] = Append(s, e)[k]
            /\ net'[r][q][(N(q) + 1) + 1] = f
        BY <1>3, <3>1, <3>2, AppendAt
      <3>4. j \in 1 .. N(q) \/ j = N(q) + 1 \/ j = (N(q) + 1) + 1
        BY <3>2, <3>3
      <3>5. CASE j \in 1 .. N(q)
        <4>1. j \in 1 .. N(q) + 1
          BY <3>2, <3>5
        <4>2. j \in DOMAIN s /\ net'[r][q][j] = s[j]
          BY <3>2, <3>3, <3>5, <4>1
        <4> QED BY <4>2 DEF s
      <3>6. CASE j = N(q) + 1
        <4>1. N(q) + 1 \in 1 .. N(q) + 1
          BY <3>2
        <4> QED BY <2>2, <3>2, <3>3, <3>6, <4>1
      <3>7. CASE j = (N(q) + 1) + 1
        BY <2>2, <3>3, <3>7
      <3> QED BY <3>4, <3>5, <3>6, <3>7
    <2>3. CASE q = Right(r) /\ q # Left(r)
      <3>1. net'[r][q] = Append(s, e)
        BY <1>5, <2>3 DEF s
      <3>2. /\ DOMAIN net'[r][q] = 1 .. N(q) + 1 /\ DOMAIN s = 1 .. N(q) /\ N(q) \in Nat
            /\ \A k \in 1 .. N(q) : net'[r][q][k] = s[k]
            /\ net'[r][q][N(q) + 1] = e
        BY <1>3, <2>1, <3>1, AppendAt
      <3> QED BY <2>3, <3>2 DEF s
    <2>4. CASE q # Right(r) /\ q = Left(r)
      <3>1. net'[r][q] = Append(s, f)
        BY <1>5, <2>4 DEF s
      <3>2. /\ DOMAIN net'[r][q] = 1 .. N(q) + 1 /\ DOMAIN s = 1 .. N(q) /\ N(q) \in Nat
            /\ \A k \in 1 .. N(q) : net'[r][q][k] = s[k]
            /\ net'[r][q][N(q) + 1] = f
        BY <1>3, <2>1, <3>1, AppendAt
      <3> QED BY <2>4, <3>2 DEF s
    <2>5. CASE q # Right(r) /\ q # Left(r)
      BY <1>5, <2>5
    <2> QED BY <2>2, <2>3, <2>4, <2>5
  <1> HIDE DEF N
  <1>10. ASSUME NEW q \in Rank, NEW j \in DOMAIN net'[r][q]
         PROVE  MessageOK(r, net[r][q][j])'
    <2>1. CASE j \in DOMAIN net[r][q] /\ net'[r][q][j] = net[r][q][j]
      BY <1>8, <2>1 DEF MessageOK
    <2>2. CASE net'[r][q][j] = e
      BY <1>2, <1>3, <2>2 DEF MessageOK
    <2>3. CASE net'[r][q][j] = f
      BY <1>2, <1>3, <2>3 DEF MessageOK
    <2> QED BY <1>9, <2>1, <2>2, <2>3
  <1>11. ASSUME NEW q \in Rank, NEW x \in Rank, NEW j \in DOMAIN net'[r][q], NEW k \in DOMAIN net'[r][x],
                ~ net'[r][q][j].copied, ~ net'[r][x][k].copied, net'[r][q][j].req = net'[r][x][k].req
         PROVE  q = x /\ j = k
    <2>1. \/ q = Right(r) /\ j = N(q) + 1 /\ net'[r][q][j] = e
          \/ q = Left(r) /\ j = (IF q = Right(r) THEN (N(q) + 1) + 1 ELSE N(q) + 1) /\ net'[r][q][j] = f
      BY <1>8, <1>9, <1>11
    <2>2. \/ x = Right(r) /\ k = N(x) + 1 /\ net'[r][x][k] = e
          \/ x = Left(r) /\ k = (IF x = Right(r) THEN (N(x) + 1) + 1 ELSE N(x) + 1) /\ net'[r][x][k] = f
      BY <1>8, <1>9, <1>11
    <2> QED BY <1>3, <1>11, <2>1, <2>2
  <1>12. SendsOK(r)'
    BY <1>10, <1>11 DEF SendsOK
  <1> QED BY <1>7, <1>12

\* A send buffer has what the rank left there until MPI has copied it.
LEMMA OpenSend ==
  ASSUME RingInv, DataInv, NEW p \in Rank, NEW q \in Rank, NEW j \in DOMAIN net[p][q],
         ~ net[p][q][j].copied
  PROVE  /\ active[p] /\ net[p][q][j].req \in {2, 3} \cap reqs[p]
         /\ bitmap[p][net[p][q][j].buf] = After(net[p][q][j].region, p)
  <1> DEFINE e == net[p][q][j]
  <1>1. /\ TypesOK /\ CountOK(p) /\ Content(p) /\ SendsOK(p)
    BY DEF RingInv, DataInv
  <1>2. e \in Message
    BY <1>1 DEF TypesOK, NetType
  <1>3. e.req \in {2, 3} /\ e.req \in reqs[p] /\ e.buf = sending[p][e.req - 1].buf
        /\ e.region = sending[p][e.req - 1].region
    BY <1>1, <1>2, SMTT(30) DEF SendsOK, MessageOK, Message
  <1>4. active[p]
    BY <1>1, <1>3 DEF CountOK
  <1>5. e.req - 1 \in DOMAIN sending[p]
    <2>1. Len(sending[p]) = 2 /\ sending[p] \in Seq(SliceTag)
      <3>1. recvTop[p] # 0
        BY <1>1, <1>4 DEF CountOK, TypesOK, TopType
      <3> QED BY <1>1, <3>1 DEF CountOK, TypesOK, SendingType
    <2> QED BY <1>3, <2>1
  <1>6. \A k \in DOMAIN sending[p] :
          bitmap[p][sending[p][k].buf] = After(sending[p][k].region, p)
    BY <1>1, <1>4 DEF Content
  <1> QED BY <1>3, <1>4, <1>5, <1>6

LEMMA BufferedData ==
  ASSUME RingInv, DataInv, NEW p \in Rank, NEW q \in Rank, NEW i \in DOMAIN net[p][q], Buffered(p, q, i)
  PROVE  DataInv'
  <1> DEFINE e == net[p][q][i]
  <1>1. TypesOK /\ \A x \in Rank : Apart(x) /\ Content(x) /\ SendsOK(x)
    BY DEF RingInv, DataInv
  <1>2. UNCHANGED <<step, pc, data, bitmap, pending, sending, recvPair, recvTop, recvFilled, recvTail,
                    free, active, status, newVis, last>> /\ ~ e.copied
    BY DEF Buffered
  <1>3. PICK f \in Message : CopiedAs(p, q, i, f)
    BY <1>1, BufferedWrites DEF TypesOK
  <1>4. /\ e.req \in {2, 3} /\ bitmap[p][e.buf] = After(e.region, p) /\ e.req \in reqs[p]
    BY <1>2, OpenSend
  <1>5. /\ f.req = e.req /\ f.copied /\ f.slice = After(f.region, p)
        /\ \A a, b \in Rank : net'[a][b] = IF a = p /\ b = q THEN [net[p][q] EXCEPT ![i] = f] ELSE net[a][b]
        /\ \A a \in Rank : reqs'[a] = IF a = p THEN reqs[p] \ {e.req} ELSE reqs[a]
    BY <1>3, <1>4 DEF CopiedAs
  <1> HIDE DEF e
  <1>6. ASSUME NEW x \in Rank PROVE Apart(x)' /\ Content(x)'
    <2>1. {0, 1} \ reqs'[x] = {0, 1} \ reqs[x]
      BY <1>4, <1>5
    <2> QED BY <1>1, <1>2, <2>1, SameData
  <1>7. ASSUME NEW a \in Rank, NEW b \in Rank, NEW j \in DOMAIN net'[a][b]
        PROVE  /\ j \in DOMAIN net[a][b]
               /\ IF a = p /\ b = q /\ j = i THEN net'[a][b][j] = f ELSE net'[a][b][j] = net[a][b][j]
    <2>1. CASE a = p /\ b = q
      <3>1. net'[a][b] = [net[p][q] EXCEPT ![i] = f]
        BY <1>5, <2>1
      <3> QED BY <2>1, <3>1
    <2>2. CASE ~ (a = p /\ b = q)
      BY <1>5, <2>2
    <2> QED BY <2>1, <2>2
  <1>8. ASSUME NEW x \in Rank PROVE SendsOK(x)'
    <2>1. ASSUME NEW b \in Rank, NEW j \in DOMAIN net'[x][b] PROVE MessageOK(x, net[x][b][j])'
      <3>1. CASE x = p /\ b = q /\ j = i
        <4>1. net'[x][b][j] = f
          BY <1>7, <3>1
        <4> QED BY <1>5, <3>1, <4>1 DEF MessageOK
      <3>2. CASE ~ (x = p /\ b = q /\ j = i)
        <4>1. j \in DOMAIN net[x][b] /\ net'[x][b][j] = net[x][b][j]
          BY <1>7, <3>2
        <4>2. MessageOK(x, net[x][b][j])
          BY <1>1, <4>1 DEF SendsOK
        <4>3. ~ net[x][b][j].copied => net[x][b][j].req \in reqs'[x]
          <5> SUFFICES ASSUME ~ net[x][b][j].copied PROVE net[x][b][j].req \in reqs'[x]
            OBVIOUS
          <5>1. net[x][b][j].req \in reqs[x]
            BY <4>2 DEF MessageOK
          <5>2. x = p => net[x][b][j].req # e.req
            BY <1>1, <1>2, <3>2, <4>1 DEF SendsOK, e
          <5> QED BY <1>5, <5>1, <5>2
        <4> QED BY <1>2, <4>1, <4>2, <4>3 DEF MessageOK
      <3> QED BY <3>1, <3>2
    <2>2. ASSUME NEW a \in Rank, NEW b \in Rank, NEW j \in DOMAIN net'[x][a], NEW k \in DOMAIN net'[x][b],
                 ~ net'[x][a][j].copied, ~ net'[x][b][k].copied, net'[x][a][j].req = net'[x][b][k].req
          PROVE  a = b /\ j = k
      <3>1. /\ j \in DOMAIN net[x][a] /\ net'[x][a][j] = net[x][a][j]
            /\ k \in DOMAIN net[x][b] /\ net'[x][b][k] = net[x][b][k]
        BY <1>5, <1>7, <2>2
      <3> QED BY <1>1, <2>2, <3>1 DEF SendsOK
    <2> QED BY <2>1, <2>2 DEF SendsOK
  <1> QED BY <1>6, <1>8 DEF DataInv

\* The slice of a message was searched by its sender, and it comes from where
\* the receiver expects it.
LEMMA Arrives ==
  ASSUME RingInv, DataInv, NEW p \in Rank, NEW q \in Rank, NEW i \in OpenReceives(q, p), Deliver(p, q, i)
  PROVE  LET e == Head(net[p][q])
             v == IF e.copied THEN e.slice ELSE bitmap[p][e.buf]
         IN  e.region \in Region /\ v = After(e.region, From(e.region, q))
  <1> DEFINE e == Head(net[p][q])
             v == IF e.copied THEN e.slice ELSE bitmap[p][e.buf]
             s == recvTop[q] - 2 + i
  <1>1. /\ Received(p, q, i) /\ recvTop[q] \in Nat /\ recvTop[q] >= 2
        /\ e.region = Tag(q, s + Substeps)
    BY HeadTag
  <1>2. /\ e \in Message /\ i \in {0, 1} /\ net[p][q] # <<>>
        /\ i = 0 => p = Left(q)
        /\ i = 1 => p = Right(q)
    BY <1>1 DEF Received
  <1>3. TypesOK /\ CountOK(q) /\ SendsOK(p) /\ recvTop[q] % 2 = 0
    BY DEF RingInv, DataInv, CountOK
  <1>4. s \in Nat /\ s % 2 = i /\ s + Substeps \in 0 .. TotalSteps - 1
    <2>1. recvTop[q] <= Slices /\ Slices \in Nat /\ TotalSteps = Slices + Substeps
      BY <1>3, Bounds DEF CountOK
    <2>2. s \in Nat /\ s < Slices
      BY <1>1, <1>2, <2>1
    <2>3. s % 2 = i
      <3> DEFINE t == recvTop[q]
      <3>1. t \in Nat /\ t >= 2 /\ t % 2 = 0
        BY <1>1, <1>3
      <3> HIDE DEF t
      <3>2. (t - 2) % 2 = 0 /\ (t - 2 + 1) % 2 = 1
        BY <3>1
      <3> QED BY <1>2, <3>1, <3>2 DEF t
    <2> HIDE DEF s
    <2> QED BY <2>1, <2>2, <2>3
  <1> HIDE DEF s
  <1>5. e.region \in Region /\ e.region % 2 = i
    <2> DEFINE g == Tag(q, s + Substeps)
    <2>1. g \in Region /\ g % Substeps = Sub(s + Substeps)
      BY <1>4, Tags
    <2>2. Sub(s + Substeps) = Sub(s) /\ Sub(s) % 2 = s % 2
      BY <1>4, Steps
    <2> HIDE DEF g
    <2>3. (g % Substeps) % 2 = g % 2
      BY <2>1, Owners
    <2> QED BY <1>1, <1>4, <2>1, <2>2, <2>3 DEF g
  <1>6. From(e.region, q) = p
    BY <1>2, <1>5 DEF From
  <1>7. v = After(e.region, p)
    <2>1. net[p][q] \in Seq(Message) /\ 1 \in DOMAIN net[p][q] /\ e = net[p][q][1]
      BY <1>2, <1>3 DEF TypesOK, NetType
    <2>2. CASE e.copied
      BY <1>3, <2>1, <2>2 DEF SendsOK, MessageOK
    <2>3. CASE ~ e.copied
      BY <2>1, <2>3, OpenSend
    <2> QED BY <2>2, <2>3
  <1> QED BY <1>5, <1>6, <1>7

LEMMA DeliverBuffers ==
  ASSUME RingInv, DataInv, NEW p \in Rank, NEW q \in Rank, NEW i \in OpenReceives(q, p), Deliver(p, q, i)
  PROVE  Apart(q)' /\ Content(q)'
  <1> DEFINE e    == Head(net[p][q])
             v    == IF e.copied THEN e.slice ELSE bitmap[p][e.buf]
             t    == recvTop[q]
             slot == (t - 2 + i) % 4
             b    == recvPair[q][slot].buf
  <1>1. /\ TypesOK /\ CountOK(q) /\ Apart(q) /\ Content(q)
    BY DEF RingInv, DataInv
  <1>2. /\ Received(p, q, i) /\ active[q] /\ t \in Nat /\ t >= 2 /\ e.req \in {2, 3}
    BY HeadTag
  <1>3. UNCHANGED <<step, pc, data, pending, sending, recvPair, recvTop, recvFilled, recvTail, free, active>>
    BY DEF Deliver
  <1>4. /\ i \in {0, 1} /\ slot \in Slot /\ b \in Buffer
        /\ bitmap'[q] = [bitmap[q] EXCEPT ![b] = v]
        /\ status'[q] = [status[q] EXCEPT ![i] = e.region]
        /\ \A k \in {0, 1} \ {i} : k \in reqs'[q] <=> k \in reqs[q]
    <2>1. reqs'[q] = reqs[q] \ ({i} \cup (IF q = p /\ ~ e.copied THEN {e.req} ELSE {}))
      BY <1>2, Zenon DEF Received
    <2>2. \A k \in {0, 1} \ {i} : k \in reqs'[q] <=> k \in reqs[q]
      BY <1>2, <2>1
    <2>3. /\ i \in {0, 1} /\ slot \in Slot /\ b \in Buffer
          /\ bitmap'[q] = [bitmap[q] EXCEPT ![b] = v]
          /\ status'[q] = [status[q] EXCEPT ![i] = e.region]
      BY <1>2, Zenon DEF Received
    <2> QED BY <2>2, <2>3
  <1>5. v = After(e.region, From(e.region, q))
    BY Arrives
  <1>6. /\ bitmap[q] \in [Buffer -> SliceData] /\ status[q] \in [{0, 1} -> Region]
        /\ recvTail[q] \in Nat /\ recvFilled[q] = t - 2 /\ recvTail[q] <= t - 2
    <2>1. recvFilled[q] = t - 2 /\ recvTail[q] <= recvFilled[q] /\ recvTail[q] \in Nat
      BY <1>1, <1>2, Room DEF CountOK
    <2> QED BY <1>1, <2>1 DEF TypesOK, BitmapType, StatusType
  <1> HIDE DEF e, v, t
  <1>7. Uses(q, "recv", t - 2 + i, b)
    <2>1. t - 2 + i \in recvTail[q] .. recvTop[q] - 1
      BY <1>2, <1>4, <1>6 DEF t
    <2> QED BY <2>1 DEF Uses
  <1> HIDE DEF slot, b
  <1>8. ASSUME NEW a, NEW k, NEW c, Uses(q, a, k, c), c \in Buffer, ~ (a = "recv" /\ k = t - 2 + i)
        PROVE  bitmap'[q][c] = bitmap[q][c]
    <2>1. c # b
      BY <1>1, <1>7, <1>8 DEF Apart
    <2> QED BY <1>4, <1>6, <1>8, <2>1
  <1>9. FirstOwn(q)' = FirstOwn(q)
    BY <1>3 DEF FirstOwn
  <1>10. Apart(q)'
    <2>1. ASSUME NEW a, NEW k, NEW c PROVE Uses(q, a, k, c)' <=> Uses(q, a, k, c)
      BY <1>3, <1>9 DEF Uses
    <2> QED BY <1>1, <2>1 DEF Apart
  <1>11. ASSUME NEW k \in FirstOwn(q) .. Substeps - 1
         PROVE  bitmap'[q][k] = Fresh(q * Substeps + k)
    <2>1. Uses(q, "own", k, k)
      BY DEF Uses
    <2>2. k \in Buffer
      BY <1>1 DEF Buffer, FirstOwn, TypesOK, StepType
    <2> QED BY <1>1, <1>8, <2>1, <2>2 DEF Content
  <1>12. pc[q] \in {"search", "copy"} => bitmap'[q][data[q].buf] = bitmap[q][data[q].buf]
    <2> SUFFICES ASSUME pc[q] \in {"search", "copy"} PROVE bitmap'[q][data[q].buf] = bitmap[q][data[q].buf]
      OBVIOUS
    <2>1. Uses(q, "work", 0, data[q].buf) /\ data[q].buf \in Buffer
      BY <1>1 DEF Uses, TypesOK, DataType, SliceTag
    <2> QED BY <1>8, <2>1
  <1>13. ASSUME NEW k \in DOMAIN pending[q]
         PROVE  bitmap'[q][pending[q][k].buf] = After(pending[q][k].region, q)
    <2>1. Uses(q, "pending", k, pending[q][k].buf) /\ pending[q][k] \in SliceTag
      BY <1>1 DEF Uses, TypesOK, PendingType
    <2>2. bitmap'[q][pending[q][k].buf] = bitmap[q][pending[q][k].buf]
      BY <1>8, <2>1 DEF SliceTag
    <2> QED BY <1>1, <2>2 DEF Content
  <1>14. ASSUME NEW k \in DOMAIN sending[q]
         PROVE  bitmap'[q][sending[q][k].buf] = After(sending[q][k].region, q)
    <2>1. Uses(q, "sending", k, sending[q][k].buf) /\ sending[q][k] \in SliceTag
      BY <1>1, <1>2 DEF Uses, TypesOK, SendingType
    <2>2. bitmap'[q][sending[q][k].buf] = bitmap[q][sending[q][k].buf]
      BY <1>8, <2>1 DEF SliceTag
    <2> QED BY <1>1, <1>2, <2>2 DEF Content
  <1>15. ASSUME NEW j \in recvTail[q] .. t - 1, j # t - 2 + i
         PROVE  bitmap'[q][recvPair[q][j % 4].buf] = bitmap[q][recvPair[q][j % 4].buf]
    <2>1. j \in Nat
      BY <1>2, <1>6
    <2>2. recvPair[q][j % 4].buf \in Buffer
      BY <1>1, <2>1, Wrap DEF TypesOK, PairType, SliceTag
    <2>3. Uses(q, "recv", j, recvPair[q][j % 4].buf)
      BY DEF Uses, t
    <2> QED BY <1>8, <1>15, <2>2, <2>3
  <1>16. ASSUME NEW j \in recvTail[q] .. recvFilled[q] - 1
         PROVE  bitmap'[q][recvPair[q][j % 4].buf] =
                  After(recvPair[q][j % 4].region, From(recvPair[q][j % 4].region, q))
    <2>1. j \in recvTail[q] .. t - 1 /\ j # t - 2 + i
      BY <1>2, <1>4, <1>6
    <2> QED BY <1>1, <1>15, <2>1 DEF Content
  <1>17. ASSUME NEW k \in {0, 1} \ reqs'[q]
         PROVE  bitmap'[q][recvPair[q][(t - 2 + k) % 4].buf] = After(status'[q][k], From(status'[q][k], q))
    <2>1. CASE k = i
      <3>1. status'[q][k] = e.region
        BY <1>4, <1>6, <2>1
      <3>2. bitmap'[q][b] = v
        BY <1>4, <1>6
      <3> QED BY <1>5, <2>1, <3>1, <3>2 DEF b, slot
    <2>2. CASE k # i
      <3>1. status'[q][k] = status[q][k] /\ k \in {0, 1} \ reqs[q]
        BY <1>4, <1>6, <2>2
      <3>2. t - 2 + k \in recvTail[q] .. t - 1 /\ t - 2 + k # t - 2 + i
        BY <1>2, <1>4, <1>6, <2>2
      <3>3. bitmap'[q][recvPair[q][(t - 2 + k) % 4].buf] = bitmap[q][recvPair[q][(t - 2 + k) % 4].buf]
        BY <1>15, <3>2
      <3>4. \A x \in {0, 1} \ reqs[q] :
              bitmap[q][recvPair[q][(t - 2 + x) % 4].buf] = After(status[q][x], From(status[q][x], q))
        BY <1>1, <1>2 DEF Content, t
      <3> QED BY <3>1, <3>3, <3>4
    <2> QED BY <2>1, <2>2
  <1>18. Content(q)'
    BY <1>1, <1>3, <1>9, <1>11, <1>12, <1>13, <1>14, <1>16, <1>17 DEF Content, t
  <1> QED BY <1>10, <1>18

LEMMA DeliverSends ==
  ASSUME RingInv, DataInv, NEW p \in Rank, NEW q \in Rank, NEW i \in OpenReceives(q, p), Deliver(p, q, i),
         NEW x \in Rank
  PROVE  SendsOK(x)'
  <1> DEFINE s == net[p][q]
             e == Head(s)
  <1>1. /\ TypesOK /\ SendsOK(x) /\ Received(p, q, i) /\ e.req \in {2, 3}
    BY HeadTag DEF RingInv, DataInv
  <1>2. UNCHANGED sending
    BY DEF Deliver
  <1>3. /\ i \in {0, 1} /\ s # <<>>
        /\ \A a, b \in Rank : net'[a][b] = IF a = p /\ b = q THEN Tail(s) ELSE net[a][b]
        /\ \A a \in Rank : reqs'[a] = reqs[a] \ ((IF a = q THEN {i} ELSE {}) \cup
                                                 (IF a = p /\ ~ e.copied THEN {e.req} ELSE {}))
    BY <1>1, Zenon DEF Received
  <1>4. /\ \A a, b \in Rank : net[a][b] \in Seq(Message)
    BY <1>1 DEF TypesOK, NetType
  <1>5. e = s[1] /\ 1 \in DOMAIN s /\ \A j \in DOMAIN Tail(s) : j \in Nat /\ j >= 1 /\ j + 1 \in DOMAIN s /\ Tail(s)[j] = s[j + 1]
    <2>1. s \in Seq(Message)
      BY <1>4
    <2> HIDE DEF s
    <2>2. /\ e = s[1] /\ 1 \in DOMAIN s /\ DOMAIN s = 1 .. Len(s) /\ Len(s) \in Nat
          /\ Tail(s) \in Seq(Message) /\ Len(Tail(s)) = Len(s) - 1
      BY <1>3, <2>1
    <2>3. \A j \in 1 .. Len(s) - 1 : Tail(s)[j] = s[j + 1]
      BY <1>3, <2>1
    <2>4. DOMAIN Tail(s) = 1 .. Len(s) - 1
      BY <2>2
    <2> QED BY <2>2, <2>3, <2>4
  <1> HIDE DEF e, s
  <1> DEFINE was(b, j) == IF x = p /\ b = q THEN j + 1 ELSE j
  <1>6. ASSUME NEW b \in Rank, NEW j \in DOMAIN net'[x][b]
        PROVE  /\ j \in Nat /\ was(b, j) \in DOMAIN net[x][b] /\ net'[x][b][j] = net[x][b][was(b, j)]
               /\ x = p /\ b = q => was(b, j) # 1
               /\ net[x][b][was(b, j)] \in Message
    <2>1. CASE x = p /\ b = q
      <3>1. net'[x][b] = Tail(s) /\ net[x][b] = s /\ s \in Seq(Message) /\ was(b, j) = j + 1
        BY <1>3, <1>4, <2>1 DEF s
      <3>2. j \in DOMAIN Tail(s)
        BY <3>1
      <3>3. j \in Nat /\ j >= 1 /\ j + 1 \in DOMAIN s /\ Tail(s)[j] = s[j + 1]
        BY <1>5, <3>2
      <3>4. s[j + 1] \in Message
        BY <3>1, <3>3
      <3> QED BY <3>1, <3>3, <3>4
    <2>2. CASE ~ (x = p /\ b = q)
      <3>1. net'[x][b] = net[x][b]
        BY <1>3, <2>2
      <3> QED BY <1>4, <2>2, <3>1
    <2> QED BY <2>1, <2>2
  <1>7. ASSUME NEW b \in Rank, NEW j \in DOMAIN net'[x][b] PROVE MessageOK(x, net[x][b][j])'
    <2> DEFINE m == net[x][b][was(b, j)]
    <2>1. MessageOK(x, m) /\ net'[x][b][j] = m /\ m \in Message
      BY <1>1, <1>6 DEF SendsOK
    <2>2. ASSUME ~ m.copied PROVE m.req \in reqs'[x]
      <3>1. m.req \in reqs[x] /\ m.req \in {2, 3}
        BY <2>1, <2>2 DEF MessageOK, Message
      <3>2. ASSUME x = p, ~ e.copied PROVE m.req # e.req
        <4>1. was(b, j) \in DOMAIN net[x][b] /\ (b = q => was(b, j) # 1)
          BY <1>6, <3>2
        <4> HIDE DEF was
        <4> QED BY <1>1, <1>5, <2>2, <3>2, <4>1 DEF SendsOK, s
      <3> QED BY <1>3, <3>1, <3>2
    <2> HIDE DEF m
    <2> QED BY <1>2, <2>1, <2>2 DEF MessageOK
  <1>8. ASSUME NEW a \in Rank, NEW b \in Rank, NEW j \in DOMAIN net'[x][a], NEW k \in DOMAIN net'[x][b],
               ~ net'[x][a][j].copied, ~ net'[x][b][k].copied, net'[x][a][j].req = net'[x][b][k].req
        PROVE  a = b /\ j = k
    <2>1. a = b /\ was(a, j) = was(b, k)
      <3>1. /\ was(a, j) \in DOMAIN net[x][a] /\ net'[x][a][j] = net[x][a][was(a, j)]
            /\ was(b, k) \in DOMAIN net[x][b] /\ net'[x][b][k] = net[x][b][was(b, k)]
        BY <1>6
      <3> HIDE DEF was
      <3> QED BY <1>1, <1>8, <3>1 DEF SendsOK
    <2>2. j \in Nat /\ k \in Nat
      BY <1>6
    <2> QED BY <2>1, <2>2
  <1> QED BY <1>7, <1>8 DEF SendsOK

LEMMA DeliverData ==
  ASSUME RingInv, DataInv, NEW p \in Rank, NEW q \in Rank, NEW i \in OpenReceives(q, p), Deliver(p, q, i)
  PROVE  DataInv'
  <1> SUFFICES ASSUME NEW x \in Rank PROVE Apart(x)' /\ Content(x)'
    BY DeliverSends DEF DataInv
  <1>1. Apart(x) /\ Content(x) /\ Received(p, q, i) /\ Head(net[p][q]).req \in {2, 3}
    BY HeadTag DEF DataInv
  <1>2. UNCHANGED <<step, pc, data, pending, sending, recvPair, recvTop, recvFilled, recvTail, free, active>>
    BY DEF Deliver
  <1>3. CASE x = q
    BY <1>3, DeliverBuffers
  <1>4. CASE x # q
    <2> DEFINE e == Head(net[p][q])
    <2>1. /\ bitmap'[x] = bitmap[x] /\ status'[x] = status[x]
          /\ reqs'[x] = reqs[x] \ (IF x = p /\ ~ e.copied THEN {e.req} ELSE {})
      BY <1>1, <1>4 DEF Received
    <2>2. {0, 1} \ reqs'[x] = {0, 1} \ reqs[x]
      BY <1>1, <2>1
    <2> QED BY <1>1, <1>2, <2>1, <2>2, SameData
  <1> QED BY <1>3, <1>4

\* Rank x keeps its state.
Unmoved(x) ==
  /\ step'[x] = step[x] /\ pc'[x] = pc[x] /\ data'[x] = data[x] /\ pending'[x] = pending[x]
  /\ sending'[x] = sending[x] /\ recvPair'[x] = recvPair[x] /\ recvTop'[x] = recvTop[x]
  /\ recvFilled'[x] = recvFilled[x] /\ recvTail'[x] = recvTail[x] /\ free'[x] = free[x]
  /\ active'[x] = active[x] /\ bitmap'[x] = bitmap[x] /\ status'[x] = status[x]
  /\ reqs'[x] = reqs[x]

LEMMA Others ==
  ASSUME RingInv, NEW r \in Rank, RankStep(r), NEW x \in Rank \ {r}
  PROVE  Unmoved(x)
  <1>1. TypesOK /\ CountOK(r)
    BY DEF RingInv
  <1>2. CASE Complete(r)
    <2>1. recvPair'[x] = recvPair[x]
      BY <1>1, <1>2, CompleteWrites DEF TypesOK
    <2>2. recvFilled'[x] = recvFilled[x] /\ free'[x] = free[x] /\ active'[x] = active[x]
      BY <1>1, <1>2 DEF Complete, TypesOK, TopType, FreeType, ReqsType
    <2> QED BY <1>2, <2>1, <2>2 DEF Complete, Unmoved
  <1>3. CASE Take(r)
    <2>1. pc'[x] = pc[x] /\ data'[x] = data[x] /\ recvTail'[x] = recvTail[x]
      BY <1>1, <1>3 DEF Take, TypesOK, StepType, DataType, TailType
    <2> QED BY <1>3, <2>1 DEF Take, Unmoved
  <1>4. CASE Search(r)
    <2>1. pc'[x] = pc[x] /\ step'[x] = step[x] /\ pending'[x] = pending[x]
      BY <1>1, <1>4 DEF Search, TypesOK, StepType, PendingType
    <2>2. bitmap'[x] = bitmap[x]
      <3>1. \E b : bitmap' = [bitmap EXCEPT ![r] = b]
        BY <1>1, <1>4, SearchWrites DEF TypesOK
      <3> QED BY <1>1, <3>1 DEF TypesOK, BitmapType
    <2> QED BY <1>4, <2>1, <2>2 DEF Search, Unmoved
  <1>5. CASE StartExchange(r)
    <2>1. Len(pending[r]) = 2
      BY <1>1, <1>5 DEF StartExchange, CountOK, Ledger
    <2>2. recvPair'[x] = recvPair[x]
      BY <1>1, <1>5, <2>1, StartWrites DEF TypesOK
    <2>3. recvTop'[x] = recvTop[x] /\ free'[x] = free[x] /\ reqs'[x] = reqs[x] /\ active'[x] = active[x]
      BY <1>1, <1>5 DEF StartExchange, TypesOK, TopType, FreeType, ReqsType
    <2>4. sending'[x] = sending[x] /\ pending'[x] = pending[x] /\ pc'[x] = pc[x] /\ step'[x] = step[x]
      BY <1>1, <1>5 DEF StartExchange, TypesOK, SendingType, PendingType, StepType
    <2> QED BY <1>5, <2>2, <2>3, <2>4 DEF StartExchange, Unmoved
  <1>6. CASE CopyHome(r)
    <2>1. pc'[x] = pc[x] /\ step'[x] = step[x]
      BY <1>1, <1>6 DEF CopyHome, TypesOK, StepType
    <2> QED BY <1>6, <2>1 DEF CopyHome, Unmoved
  <1> QED BY <1>2, <1>3, <1>4, <1>5, <1>6 DEF RankStep

LEMMA RankData ==
  ASSUME RingInv, DataInv, NEW r \in Rank, RankStep(r)
  PROVE  DataInv'
  <1>1. \A x \in Rank : Apart(x) /\ Content(x) /\ SendsOK(x)
    BY DEF DataInv
  <1>2. Apart(r)' /\ Content(r)'
    BY TakeData, SearchData, CopyData, StartData, CompleteData DEF RankStep
  <1>3. ASSUME NEW x \in Rank \ {r} PROVE Apart(x)' /\ Content(x)'
    BY <1>1, Others, SameData DEF Unmoved
  <1>4. ASSUME NEW x \in Rank PROVE SendsOK(x)'
    <2>1. CASE StartExchange(r)
      <3>1. SendsOK(r)' /\ (x # r => net'[x] = net[x])
        BY <2>1, StartSends
      <3>2. CASE x # r
        BY <1>1, <3>1, <3>2, Others, SameSends DEF Unmoved
      <3> QED BY <3>1, <3>2
    <2>2. CASE ~ StartExchange(r)
      <3>1. UNCHANGED <<sending, reqs, net>>
        BY <2>2 DEF RankStep, Complete, Take, Search, CopyHome
      <3> QED BY <1>1, <3>1, SameSends
    <2> QED BY <2>1, <2>2
  <1> QED BY <1>2, <1>3, <1>4 DEF DataInv

LEMMA DataStep == RingInv /\ DataInv /\ [Next]_ringVars => DataInv'
  <1> SUFFICES ASSUME RingInv, DataInv, [Next]_ringVars PROVE DataInv'
    OBVIOUS
  <1>1. ASSUME UNCHANGED ringVars PROVE DataInv'
    <2>1. \A x \in Rank : Apart(x) /\ Content(x) /\ SendsOK(x)
      BY DEF DataInv
    <2>2. \A x \in Rank : Apart(x)' /\ Content(x)'
      BY <1>1, <2>1, SameData DEF ringVars
    <2>3. \A x \in Rank : SendsOK(x)'
      BY <1>1, <2>1, SameSends DEF ringVars
    <2> QED BY <2>2, <2>3 DEF DataInv
  <1>2. ASSUME NEW r \in Rank, RankStep(r) PROVE DataInv'
    BY <1>2, RankData
  <1>3. ASSUME NEW p \in Rank, NEW q \in Rank, NEW i \in DOMAIN net[p][q], Buffered(p, q, i) PROVE DataInv'
    BY <1>3, BufferedData
  <1>4. ASSUME NEW p \in Rank, NEW q \in Rank, NEW i \in OpenReceives(q, p), Deliver(p, q, i) PROVE DataInv'
    BY <1>4, DeliverData
  <1> QED BY <1>1, <1>2, <1>3, <1>4 DEF Next
-----------------------------------------------------------------------------
(* What was searched *)

\* The step in which rank x searches slice g.
StepOf(g, x) == Dist(g, x) * Substeps + (g % Substeps)

\* The number of steps that rank x has searched in, and whether slice g was among them.
Done(x)   == recvTop[x] + Len(pending[x])
Hit(g, x) == StepOf(g, x) < Done(x)

\* The first n ranks on the way of slice g.
Road(g, n) == [i \in 1 .. n |-> Along(g, i - 1)]

LEMMA Timetable ==
  ASSUME NEW g \in Region, NEW x \in Rank
  PROVE  /\ StepOf(g, x) \in 0 .. Slices - 1 /\ Tag(x, StepOf(g, x)) = g
         /\ OwnerOf(g) # x => StepOf(g, From(g, x)) = StepOf(g, x) - Substeps
         /\ OwnerOf(g) = x => StepOf(g, From(g, x)) = Slices - Substeps + (g % Substeps)
  <1> DEFINE d == Dist(g, x)
             k == g % Substeps
             s == d * Substeps + k
             o == OwnerOf(g)
  <1>1. /\ d \in 0 .. Size - 1
        /\ o # x => Dist(g, From(g, x)) = d - 1
        /\ o = x => Dist(g, From(g, x)) = Size - 1
    BY Route
  <1>2. o \in Rank /\ k \in 0 .. Substeps - 1 /\ g = o * Substeps + k /\ k % 2 = g % 2
    BY Owners
  <1>3. s \in 0 .. Slices - 1 /\ Hop(s) = d /\ Sub(s) = k /\ s % 2 = k % 2
    <2> HIDE DEF d, k
    <2>1. CASE Substeps = 2
      BY <1>1, <1>2, <2>1 DEF Slices, Hop, Sub
    <2>2. CASE Substeps = 4
      BY <1>1, <1>2, <2>2 DEF Slices, Hop, Sub
    <2> QED BY <2>1, <2>2
  <1>4. Before(x, s, d) = o
    <2>1. s % 2 = g % 2
      BY <1>2, <1>3
    <2>2. CASE g % 2 = 0
      <3>1. d = Bwd(x, o) /\ Before(x, s, d) = Bwd(x, d)
        BY <2>1, <2>2 DEF Dist, Before
      <3>2. o \in Rank
        BY <1>2
      <3> HIDE DEF d, o, s
      <3> QED BY <3>1, <3>2 DEF Bwd, Rank
    <2>3. CASE g % 2 # 0
      <3>1. d = Bwd(o, x) /\ Before(x, s, d) = Fwd(x, d)
        BY <2>1, <2>3 DEF Dist, Before
      <3>2. o \in Rank
        BY <1>2
      <3> HIDE DEF d, o, s
      <3> QED BY <3>1, <3>2 DEF Bwd, Fwd, Rank
    <2> QED BY <2>2, <2>3
  <1>5. Tag(x, s) = g
    <2> HIDE DEF s, o, k, d
    <2> QED BY <1>2, <1>3, <1>4 DEF Tag
  <1>6. ASSUME o # x PROVE StepOf(g, From(g, x)) = s - Substeps
    <2>1. StepOf(g, From(g, x)) = (d - 1) * Substeps + k
      BY <1>1, <1>6 DEF StepOf
    <2> HIDE DEF d, k
    <2>2. (d - 1) * Substeps + k = s - Substeps
      <3>1. CASE Substeps = 2
        BY <1>1, <1>2, <3>1
      <3>2. CASE Substeps = 4
        BY <1>1, <1>2, <3>2
      <3> QED BY <3>1, <3>2
    <2> QED BY <2>1, <2>2
  <1>7. ASSUME o = x PROVE StepOf(g, From(g, x)) = Slices - Substeps + k
    <2>1. StepOf(g, From(g, x)) = (Size - 1) * Substeps + k
      BY <1>1, <1>7 DEF StepOf
    <2> HIDE DEF k
    <2>2. (Size - 1) * Substeps + k = Slices - Substeps + k
      <3>1. CASE Substeps = 2
        BY <1>2, <3>1 DEF Slices
      <3>2. CASE Substeps = 4
        BY <1>2, <3>2 DEF Slices
      <3> QED BY <3>1, <3>2
    <2> QED BY <2>1, <2>2
  <1> QED BY <1>3, <1>5, <1>6, <1>7 DEF StepOf

\* A step is about one slice.
LEMMA AtStep ==
  ASSUME NEW x \in Rank, NEW s \in 0 .. Slices - 1
  PROVE  /\ Tag(x, s) \in Region /\ StepOf(Tag(x, s), x) = s
         /\ \A g \in Region : StepOf(g, x) = s => g = Tag(x, s)
  <1> DEFINE g == Tag(x, s)
             o == OwnerOf(g)
             h == Hop(s)
  <1>1. s \in Nat /\ s \in 0 .. TotalSteps - 1 /\ h \in 0 .. Size - 1 /\ s = h * Substeps + Sub(s)
        /\ Sub(s) % 2 = s % 2
    <2>1. s \in Nat /\ s < Slices /\ s \in 0 .. TotalSteps - 1
      BY Bounds
    <2>2. h \in Nat /\ s = h * Substeps + Sub(s) /\ Sub(s) % 2 = s % 2
      BY <2>1, Steps
    <2>3. h < Size
      BY <2>1, Bounds
    <2> HIDE DEF h
    <2> QED BY <2>1, <2>2, <2>3
  <1>2. g \in Region /\ o = Before(x, s, h) /\ g % Substeps = Sub(s)
    BY <1>1, Tags
  <1>3. g % 2 = s % 2 /\ o \in Rank
    BY <1>1, <1>2, Owners
  <1>4. Dist(g, x) = h
    <2>1. CASE s % 2 = 0
      <3>1. o = Bwd(x, h) /\ Dist(g, x) = Bwd(x, o)
        BY <1>2, <1>3, <2>1 DEF Before, Dist
      <3> HIDE DEF o, h, g
      <3> QED BY <1>1, <1>3, <3>1 DEF Bwd, Rank
    <2>2. CASE s % 2 # 0
      <3>1. o = Fwd(x, h) /\ Dist(g, x) = Bwd(o, x)
        BY <1>2, <1>3, <2>2 DEF Before, Dist
      <3> HIDE DEF o, h, g
      <3> QED BY <1>1, <1>3, <3>1 DEF Bwd, Fwd, Rank
    <2> QED BY <2>1, <2>2
  <1>5. StepOf(g, x) = s
    <2> HIDE DEF g, h
    <2> QED BY <1>1, <1>2, <1>4 DEF StepOf
  <1>6. \A f \in Region : StepOf(f, x) = s => f = g
    BY Timetable
  <1> QED BY <1>2, <1>5, <1>6

\* The ranks have searched a slice in the order of its way, and each of its
\* searches is in the history; when its owner has gone through the step in which
\* it came home, and not before, it is back as it was searched last.
WayOK(g) ==
  \E n \in 0 .. Size : last[g] = Road(g, n) /\ \A x \in Rank : Hit(g, x) <=> Dist(g, x) < n
HomeOK(g) ==
  IF step[OwnerOf(g)] > Slices + (g % Substeps)
  THEN newVis[g] = [region |-> g, path |-> Road(g, Size)] /\ last[g] = Road(g, Size)
  ELSE newVis[g].path = <<>>

HistInv == \A g \in Region : WayOK(g) /\ HomeOK(g)

LEMMA Roads ==
  ASSUME NEW g \in Region
  PROVE  /\ Road(g, 0) = <<>> /\ Road(g, Size) # <<>>
         /\ \A r \in Rank : Trip(g, r) = Road(g, Dist(g, r) + 1)
         /\ \A m, n \in 0 .. Size : Road(g, m) = Road(g, n) => m = n
  <1>1. \A n \in 0 .. Size : Road(g, n) \in Seq(Rank) /\ Len(Road(g, n)) = n
    <2> SUFFICES ASSUME NEW n \in 0 .. Size PROVE Road(g, n) \in Seq(Rank) /\ Len(Road(g, n)) = n
      OBVIOUS
    <2>1. \A i \in 1 .. n : Along(g, i - 1) \in Rank
      <3> SUFFICES ASSUME NEW i \in 1 .. n PROVE Along(g, i - 1) \in Rank
        OBVIOUS
      <3>1. i - 1 \in 0 .. Size - 1 /\ 0 \in Rank
        BY DEF Rank
      <3> QED BY <3>1, Route
    <2> QED BY <2>1 DEF Road
  <1>2. Road(g, 0) = <<>> /\ Road(g, Size) # <<>>
    BY <1>1
  <1>3. \A r \in Rank : Trip(g, r) = Road(g, Dist(g, r) + 1)
    BY DEF Trip, Road
  <1> QED BY <1>1, <1>2, <1>3

LEMMA InitHist == Init => HistInv
  <1> SUFFICES ASSUME Init, NEW g \in Region PROVE WayOK(g) /\ HomeOK(g)
    BY DEF HistInv
  <1>1. \A x \in Rank : step[x] = 0 /\ Done(x) = 0
    BY DEF Init, Done
  <1>2. last[g] = Road(g, 0) /\ newVis[g].path = <<>>
    BY Roads DEF Init, NoSlice
  <1>3. \A x \in Rank : StepOf(g, x) \in Nat /\ Dist(g, x) \in Nat
    BY Timetable, Route
  <1>4. \A x \in Rank : ~ Hit(g, x) /\ ~ (Dist(g, x) < 0)
    BY <1>1, <1>3 DEF Hit
  <1>5. WayOK(g)
    <2>1. 0 \in 0 .. Size
      OBVIOUS
    <2> QED BY <1>2, <1>4, <2>1 DEF WayOK
  <1>6. ~ (step[OwnerOf(g)] > Slices + (g % Substeps))
    BY <1>1, Owners, Bounds
  <1> QED BY <1>2, <1>5, <1>6 DEF HomeOK

\* What a rank has received, its neighbours have sent.
LEMMA Causal ==
  ASSUME RingInv, NEW q \in Rank
  PROVE  recvFilled[q] <= recvTop[Left(q)] /\ recvFilled[q] <= recvTop[Right(q)]
  <1>1. TypesOK /\ NetOK /\ CountOK(q)
    BY DEF RingInv
  <1>2. /\ Left(q) \in Rank /\ Right(q) \in Rank /\ Right(Left(q)) = q /\ Left(Right(q)) = q
    BY Neighbours, Turned
  <1>3. /\ recvTop[q] \in Nat /\ recvTop[Left(q)] \in Nat /\ recvTop[Right(q)] \in Nat
        /\ recvFilled[q] = (IF active[q] THEN recvTop[q] - 2 ELSE recvTop[q])
        /\ ~ active[q] => reqs[q] = {}
    BY <1>1, <1>2 DEF TypesOK, TopType, CountOK
  <1>4. \A p \in Rank : Len(net[p][q]) \in Nat
    BY <1>1 DEF TypesOK, NetType
  <1>5. CASE Size >= 3
    <2>1. recvTop[Left(q)] - Next0(q) = 2 * Len(net[Left(q)][q])
      BY <1>1, <1>2, <1>5 DEF NetOK, ManyOK
    <2>2. (recvTop[Right(q)] + 1) - Next1(q) = 2 * Len(net[Right(q)][q])
      BY <1>1, <1>2, <1>5 DEF NetOK, ManyOK
    <2>3. Next0(q) >= recvFilled[q] /\ Next1(q) >= recvFilled[q] + 1 /\ Next0(q) \in Int /\ Next1(q) \in Int
      BY <1>3 DEF Next0, Next1
    <2>4. recvTop[Left(q)] - Next0(q) >= 0 /\ (recvTop[Right(q)] + 1) - Next1(q) >= 0
      <3>1. Len(net[Left(q)][q]) \in Nat /\ Len(net[Right(q)][q]) \in Nat
        BY <1>2, <1>4
      <3>2. 2 * Len(net[Left(q)][q]) >= 0 /\ 2 * Len(net[Right(q)][q]) >= 0
        BY <3>1
      <3> QED BY <2>1, <2>2, <3>2
    <2>5. recvFilled[q] \in Int
      BY <1>3
    <2>6. recvTop[Left(q)] >= recvFilled[q]
      BY <1>3, <2>3, <2>4, <2>5
    <2>7. recvTop[Right(q)] >= recvFilled[q]
      BY <1>3, <2>3, <2>4, <2>5
    <2> QED BY <1>3, <2>5, <2>6, <2>7
  <1>6. CASE ~ (Size >= 3)
    <2>1. Left(q) = Right(q)
      BY <1>6 DEF Left, Right, Rank
    <2>2. recvTop[Left(q)] - NextOfTwo(q) = Len(net[Left(q)][q])
      BY <1>1, <1>2, <1>6 DEF NetOK, FewOK
    <2>3. NextOfTwo(q) >= recvFilled[q] /\ NextOfTwo(q) \in Int
      BY <1>3 DEF NextOfTwo
    <2> QED BY <1>2, <1>3, <1>4, <2>1, <2>2, <2>3
  <1> QED BY <1>5, <1>6

\* The slice in work, and that the rank before has searched it.
LEMMA InWork ==
  ASSUME RingInv, NEW r \in Rank, pc[r] \in {"search", "copy"}
  PROVE  LET g == data[r].region IN
         /\ g \in Region
         /\ pc[r] = "search" => StepOf(g, r) = step[r] /\ step[r] = Done(r) /\ step[r] < Slices
         /\ pc[r] = "copy" => OwnerOf(g) = r /\ step[r] = Slices + (g % Substeps)
         /\ pc[r] = "copy" \/ OwnerOf(g) # r => Hit(g, From(g, r))
  <1> DEFINE g == data[r].region
             s == step[r]
             f == From(g, r)
  <1>1. TypesOK /\ CountOK(r) /\ TagOK(r)
    BY DEF RingInv
  <1>2. /\ s \in Nat /\ recvTail[r] \in Nat /\ recvFilled[r] \in Nat /\ recvTop[r] \in Nat
        /\ Len(pending[r]) \in Nat /\ Slices \in Nat /\ TotalSteps = Slices + Substeps
    BY <1>1, Room
  <1>3. /\ g = Tag(r, s) /\ recvTail[r] <= recvFilled[r]
        /\ Ledger(pc[r], s, Len(pending[r]), recvTop[r], recvTail[r])
    BY <1>1 DEF TagOK, CountOK
  <1>4. /\ pc[r] = "search" => s < Slices /\ s = Done(r)
        /\ pc[r] = "copy" => Slices <= s /\ s < TotalSteps
        /\ recvTail[r] = IF s < Substeps THEN 0 ELSE s + 1 - Substeps
    BY <1>2, <1>3 DEF Ledger, Done
  <1>5. s \in 0 .. TotalSteps - 1
    BY <1>2, <1>4
  <1> HIDE DEF s
  <1>6. /\ g \in Region /\ g % Substeps = Sub(s)
        /\ OwnerOf(g) = r <=> s < Substeps \/ Slices <= s
    BY <1>3, <1>5, Tags
  <1>7. pc[r] = "search" => StepOf(g, r) = s
    <2> SUFFICES ASSUME pc[r] = "search" PROVE StepOf(g, r) = s
      OBVIOUS
    <2>1. s \in 0 .. Slices - 1
      BY <1>2, <1>4
    <2> QED BY <1>3, <2>1, AtStep
  <1>8. pc[r] = "copy" => OwnerOf(g) = r /\ s = Slices + (g % Substeps)
    <2> SUFFICES ASSUME pc[r] = "copy" PROVE OwnerOf(g) = r /\ s = Slices + (g % Substeps)
      OBVIOUS
    <2>1. Hop(s) = Size
      <3>1. s \in Nat /\ ~ (s < Slices) /\ s < TotalSteps
        BY <1>2, <1>4
      <3>2. Hop(s) \in Nat /\ ~ (Hop(s) < Size) /\ Hop(s) <= Size
        BY <3>1, Bounds, Steps
      <3> QED BY <3>2
    <2>2. s = Hop(s) * Substeps + Sub(s)
      BY <1>2, Steps
    <2>3. s = Slices + Sub(s)
      BY <2>1, <2>2 DEF Slices
    <2> QED BY <1>2, <1>4, <1>6, <2>3
  <1> HIDE DEF g
  <1>9. ASSUME pc[r] = "copy" \/ OwnerOf(g) # r PROVE Hit(g, f)
    <2>1. f \in Rank /\ f \in {Left(r), Right(r)}
      BY <1>6, Route DEF From
    <2>2. recvFilled[r] <= recvTop[f]
      BY <2>1, Causal
    <2>3. recvTop[f] \in Nat /\ Len(pending[f]) \in Nat
      BY <1>1, <2>1 DEF TypesOK, TopType, PendingType
    <2>4. StepOf(g, f) = s - Substeps /\ s >= Substeps
      <3>1. CASE pc[r] = "copy"
        <4>1. StepOf(g, f) = Slices - Substeps + (g % Substeps) /\ s = Slices + (g % Substeps)
          BY <1>6, <1>8, <3>1, Timetable
        <4>2. g % Substeps \in Nat /\ Slices >= Substeps
          BY <1>6, Owners, Bounds
        <4> DEFINE k == g % Substeps
        <4>3. StepOf(g, f) = Slices - Substeps + k /\ s = Slices + k /\ k \in Nat
          BY <4>1, <4>2
        <4> HIDE DEF k
        <4> QED BY <1>2, <4>2, <4>3
      <3>2. CASE pc[r] = "search"
        <4>1. StepOf(g, f) = StepOf(g, r) - Substeps
          BY <1>6, <1>9, <3>2, Timetable
        <4> QED BY <1>2, <1>6, <1>7, <1>9, <3>2, <4>1
      <3> QED BY <3>1, <3>2
    <2>5. recvTail[r] = s + 1 - Substeps
      BY <1>2, <1>4, <2>4
    <2> HIDE DEF f
    <2>6. s - Substeps < recvTail[r] /\ recvTail[r] <= recvTop[f]
      BY <1>2, <1>3, <2>2, <2>3, <2>4, <2>5, SMTT(30)
    <2>7. StepOf(g, f) < recvTop[f] + Len(pending[f])
      BY <1>2, <2>3, <2>4, <2>6
    <2> QED BY <2>7 DEF Hit, Done
  <1> QED BY <1>4, <1>6, <1>7, <1>8, <1>9 DEF g, s

\* Steps that neither search a slice nor bring one home.
LEMMA KeptHist ==
  ASSUME HistInv, UNCHANGED <<last, newVis>>, \A x \in Rank : Done(x)' = Done(x),
         \A x \in Rank : step'[x] > Slices <=> step[x] > Slices,
         \A x \in Rank : step[x] > Slices => step'[x] = step[x],
         \A x \in Rank : step[x] \in Nat /\ step'[x] \in Nat
  PROVE  HistInv'
  <1> SUFFICES ASSUME NEW g \in Region PROVE WayOK(g)' /\ HomeOK(g)'
    BY DEF HistInv
  <1>1. WayOK(g) /\ HomeOK(g)
    BY DEF HistInv
  <1>2. \A x \in Rank : Hit(g, x)' <=> Hit(g, x)
    BY DEF Hit
  <1>3. WayOK(g)'
    BY <1>1, <1>2 DEF WayOK
  <1>4. step'[OwnerOf(g)] > Slices + (g % Substeps) <=> step[OwnerOf(g)] > Slices + (g % Substeps)
    <2> DEFINE k == g % Substeps
               o == OwnerOf(g)
    <2>1. o \in Rank /\ k \in Nat /\ Slices \in Nat
      BY Owners, Bounds
    <2> HIDE DEF k, o
    <2>2. step'[o] > Slices + k <=> step[o] > Slices + k
      BY <2>1
    <2> QED BY <2>2 DEF k, o
  <1>5. HomeOK(g)'
    BY <1>1, <1>4 DEF HomeOK
  <1> QED BY <1>3, <1>5

\* A search goes on where the way of its slice has ended.
LEMMA SearchWay ==
  ASSUME RingInv, HistInv, NEW r \in Rank, pc[r] = "search"
  PROVE  LET g == data[r].region IN
         /\ g \in Region /\ Dist(g, r) \in 0 .. Size - 1 /\ last[g] = Road(g, Dist(g, r))
         /\ \A x \in Rank : Hit(g, x) <=> Dist(g, x) < Dist(g, r)
         /\ newVis[g].path = <<>> /\ last[g] # Road(g, Size)
  <1> DEFINE g == data[r].region
             d == Dist(g, r)
  <1>1. /\ g \in Region /\ StepOf(g, r) = step[r] /\ step[r] = Done(r)
        /\ OwnerOf(g) # r => Hit(g, From(g, r))
    BY InWork
  <1>2. step[r] \in Nat
    BY DEF RingInv, TypesOK, StepType
  <1> HIDE DEF g
  <1>3. WayOK(g) /\ HomeOK(g)
    BY <1>1 DEF HistInv
  <1>4. PICK n \in 0 .. Size : last[g] = Road(g, n) /\ \A x \in Rank : Hit(g, x) <=> Dist(g, x) < n
    BY <1>3 DEF WayOK
  <1>5. /\ d \in 0 .. Size - 1 /\ From(g, r) \in Rank
        /\ d = 0 <=> OwnerOf(g) = r
        /\ OwnerOf(g) # r => Dist(g, From(g, r)) = d - 1
    BY <1>1, Route
  <1>6. ~ Hit(g, r)
    BY <1>1, <1>2 DEF Hit
  <1>7. n = d
    <2>1. ~ (d < n)
      BY <1>4, <1>6
    <2>2. d # 0 => d - 1 < n
      BY <1>1, <1>4, <1>5
    <2> HIDE DEF d
    <2> QED BY <1>5, <2>1, <2>2
  <1>8. last[g] # Road(g, Size)
    <2>1. d \in 0 .. Size /\ Size \in 0 .. Size /\ d # Size
      BY <1>5
    <2> QED BY <1>1, <1>4, <1>7, <2>1, Roads
  <1>9. newVis[g].path = <<>>
    BY <1>3, <1>8 DEF HomeOK
  <1> QED BY <1>1, <1>4, <1>5, <1>7, <1>8, <1>9 DEF g

LEMMA SearchHist ==
  ASSUME RingInv, DataInv, HistInv, NEW r \in Rank, Search(r)
  PROVE  HistInv'
  <1>0. PICK g \in Region : g = data[r].region
    BY SearchWay DEF Search
  <1>1. pc[r] = "search" /\ newVis' = newVis
    BY DEF Search
  <1> DEFINE d == Dist(g, r)
  <1>2. /\ g \in Region /\ d \in 0 .. Size - 1 /\ last[g] = Road(g, d)
        /\ \A x \in Rank : Hit(g, x) <=> Dist(g, x) < d
        /\ newVis[g].path = <<>> /\ last[g] # Road(g, Size)
    BY <1>0, <1>1, SearchWay
  <1>3. StepOf(g, r) = step[r] /\ step[r] = Done(r) /\ step[r] < Slices
    BY <1>0, <1>1, InWork
  <1>4. last' = [last EXCEPT ![g] = Trip(g, r)]
    BY <1>0, SearchData
  <1>5. TypesOK /\ step[r] \in Nat /\ Slices \in Nat
    BY Bounds DEF RingInv, TypesOK, StepType
  <1>6. /\ Done(r)' = Done(r) + 1 /\ \A x \in Rank \ {r} : Done(x)' = Done(x)
    <2>1. recvTop' = recvTop /\ pending' = [pending EXCEPT ![r] = Append(@, data[r])]
      BY DEF Search
    <2>2. pending[r] \in Seq(SliceTag) /\ data[r] \in SliceTag /\ pending \in [Rank -> Seq(SliceTag)]
          /\ recvTop[r] \in Nat
      BY <1>5 DEF TypesOK, PendingType, DataType, TopType
    <2>3. Len(pending'[r]) = Len(pending[r]) + 1 /\ Len(pending[r]) \in Nat
      BY <2>1, <2>2
    <2>4. Done(r)' = recvTop[r] + (Len(pending[r]) + 1)
      BY <2>1, <2>3 DEF Done
    <2>5. Done(r)' = Done(r) + 1
      BY <2>2, <2>3, <2>4 DEF Done
    <2>6. \A x \in Rank \ {r} : Done(x)' = Done(x)
      BY <2>1, <2>2 DEF Done
    <2> QED BY <2>5, <2>6
  <1>7. /\ step'[r] <= Slices /\ step'[r] \in Nat
        /\ \A x \in Rank \ {r} : step'[x] = step[x]
    BY <1>3, <1>5 DEF Search, TypesOK, StepType
  <1> HIDE DEF d
  <1>8. Hit(g, r)' /\ \A x \in Rank \ {r} : Hit(g, x)' <=> Hit(g, x)
    <2>1. Hit(g, r)'
      <3>1. StepOf(g, r) < Done(r)'
        BY <1>3, <1>5, <1>6
      <3> QED BY <3>1 DEF Hit
    <2>2. \A x \in Rank \ {r} : Hit(g, x)' <=> Hit(g, x)
      BY <1>6 DEF Hit
    <2> QED BY <2>1, <2>2
  <1>9. ASSUME NEW f \in Region \ {g}, NEW x \in Rank PROVE Hit(f, x)' <=> Hit(f, x)
    <2>1. CASE x # r
      BY <1>6, <2>1 DEF Hit
    <2>2. CASE x = r
      <3>1. step[r] \in 0 .. Slices - 1
        BY <1>3, <1>5
      <3>2. StepOf(f, r) # step[r]
        BY <1>2, <1>3, <1>9, <3>1, AtStep
      <3>3. StepOf(f, r) \in Nat
        BY <1>9, Timetable
      <3> QED BY <1>3, <1>5, <1>6, <2>2, <3>2, <3>3 DEF Hit
    <2> QED BY <2>1, <2>2
  <1>10. last'[g] = Road(g, d + 1) /\ \A f \in Region \ {g} : last'[f] = last[f]
    BY <1>2, <1>4, <1>5, Roads DEF TypesOK, LastType, d
  <1>11. ASSUME NEW f \in Region PROVE WayOK(f)'
    <2>1. CASE f = g
      <3>1. \A x \in Rank : Hit(g, x)' <=> Dist(g, x) < d + 1
        <4> SUFFICES ASSUME NEW x \in Rank PROVE Hit(g, x)' <=> Dist(g, x) < d + 1
          OBVIOUS
        <4>1. CASE x = r
          BY <1>2, <1>8, <4>1 DEF d
        <4>2. CASE x # r
          <5>1. Dist(g, x) \in 0 .. Size - 1 /\ Along(g, Dist(g, x)) = x /\ Along(g, d) = r
            BY <1>2, Route DEF d
          <5>2. Dist(g, x) # d
            BY <4>2, <5>1
          <5> QED BY <1>2, <1>8, <4>2, <5>1, <5>2
        <4> QED BY <4>1, <4>2
      <3>2. d + 1 \in 0 .. Size
        BY <1>2
      <3>3. WayOK(g)'
        BY <1>10, <3>1, <3>2 DEF WayOK
      <3> QED BY <2>1, <3>3
    <2>2. CASE f # g
      <3>1. WayOK(f)
        BY DEF HistInv
      <3> QED BY <1>9, <1>10, <2>2, <3>1 DEF WayOK
    <2> QED BY <2>1, <2>2
  <1>12. ASSUME NEW f \in Region PROVE HomeOK(f)'
    <2>1. HomeOK(f) /\ OwnerOf(f) \in Rank /\ f % Substeps \in Nat
      BY Owners DEF HistInv
    <2>2. CASE OwnerOf(f) = r
      <3> DEFINE k == f % Substeps
      <3>1. k \in Nat
        BY <2>1
      <3> HIDE DEF k
      <3>2. ~ (step'[r] > Slices + k) /\ ~ (step[r] > Slices + k)
        BY <1>3, <1>5, <1>7, <3>1
      <3> QED BY <1>1, <2>1, <2>2, <3>2 DEF HomeOK, k
    <2>3. CASE OwnerOf(f) # r
      <3>1. step'[OwnerOf(f)] = step[OwnerOf(f)]
        BY <1>7, <2>1, <2>3
      <3>2. f # g => last'[f] = last[f]
        BY <1>10
      <3>3. f = g => newVis[f].path = <<>> /\ last[f] # Road(f, Size)
        BY <1>2
      <3> QED BY <1>1, <2>1, <3>1, <3>2, <3>3 DEF HomeOK
    <2> QED BY <2>2, <2>3
  <1> QED BY <1>11, <1>12 DEF HistInv

\* What comes home has been searched by all ranks.
LEMMA CopyWay ==
  ASSUME RingInv, DataInv, HistInv, NEW r \in Rank, CopyHome(r)
  PROVE  LET g == data[r].region IN
         /\ g \in Region /\ OwnerOf(g) = r /\ step[r] = Slices + (g % Substeps)
         /\ last[g] = Road(g, Size) /\ newVis[g].path = <<>>
         /\ newVis' = [newVis EXCEPT ![g] = [region |-> g, path |-> Road(g, Size)]]
  <1> DEFINE g == data[r].region
             f == From(g, r)
  <1>1. pc[r] = "copy" /\ newVis' = [newVis EXCEPT ![g] = bitmap[r][data[r].buf]]
    BY DEF CopyHome
  <1>2. g \in Region /\ OwnerOf(g) = r /\ step[r] = Slices + (g % Substeps) /\ Hit(g, f)
    BY <1>1, InWork
  <1>3. bitmap[r][data[r].buf] = After(g, f)
    BY <1>1 DEF DataInv, Content
  <1> HIDE DEF g
  <1>4. f \in Rank /\ Dist(g, f) = Size - 1
    BY <1>2, Route
  <1>5. Trip(g, f) = Road(g, Size)
    <2>1. Dist(g, f) + 1 = Size
      BY <1>4
    <2> QED BY <1>2, <1>4, <2>1, Roads
  <1>6. WayOK(g) /\ HomeOK(g)
    BY <1>2 DEF HistInv
  <1>7. last[g] = Road(g, Size)
    <2>1. PICK n \in 0 .. Size : last[g] = Road(g, n) /\ \A x \in Rank : Hit(g, x) <=> Dist(g, x) < n
      BY <1>6 DEF WayOK
    <2>2. Size - 1 < n
      BY <1>2, <1>4, <2>1
    <2>3. n = Size
      BY <2>1, <2>2
    <2> QED BY <2>1, <2>3
  <1>8. newVis[g].path = <<>>
    <2> DEFINE k == g % Substeps
    <2>1. k \in Nat /\ Slices \in Nat /\ step[r] = Slices + k
      BY <1>2, Owners, Bounds
    <2> HIDE DEF k
    <2>2. ~ (step[r] > Slices + k)
      BY <2>1
    <2> QED BY <1>2, <1>6, <2>2 DEF HomeOK, k
  <1> QED BY <1>1, <1>2, <1>3, <1>5, <1>7, <1>8 DEF After, g

LEMMA CopyHist ==
  ASSUME RingInv, DataInv, HistInv, NEW r \in Rank, CopyHome(r)
  PROVE  HistInv'
  <1> DEFINE g == data[r].region
  <1>1. /\ g \in Region /\ OwnerOf(g) = r /\ step[r] = Slices + (g % Substeps)
        /\ last[g] = Road(g, Size) /\ newVis[g].path = <<>>
        /\ newVis' = [newVis EXCEPT ![g] = [region |-> g, path |-> Road(g, Size)]]
    BY CopyWay
  <1>2. TypesOK /\ newVis \in [Region -> SliceData]
    BY DEF RingInv, TypesOK, VisType
  <1>3. /\ UNCHANGED <<recvTop, pending, last>> /\ step'[r] = step[r] + 1
        /\ \A x \in Rank \ {r} : step'[x] = step[x]
    BY <1>2 DEF CopyHome, TypesOK, StepType
  <1> HIDE DEF g
  <1>4. ASSUME NEW f \in Region PROVE WayOK(f)'
    <2>1. WayOK(f)
      BY DEF HistInv
    <2>2. \A x \in Rank : Hit(f, x)' <=> Hit(f, x)
      BY <1>3 DEF Hit, Done
    <2> QED BY <1>3, <2>1, <2>2 DEF WayOK
  <1>5. ASSUME NEW f \in Region PROVE HomeOK(f)'
    <2> DEFINE k == f % Substeps
               j == g % Substeps
    <2>1. /\ HomeOK(f) /\ OwnerOf(f) \in Rank /\ k \in Nat /\ j \in Nat /\ Slices \in Nat
          /\ step[r] = Slices + j
      BY <1>1, Owners, Bounds DEF HistInv
    <2>2. CASE f = g
      <3>1. step'[r] > Slices + j
        <4> HIDE DEF j
        <4> QED BY <1>3, <2>1
      <3>2. newVis'[f] = [region |-> f, path |-> Road(f, Size)] /\ last'[f] = Road(f, Size)
        BY <1>1, <1>2, <1>3, <2>2
      <3> QED BY <1>1, <2>2, <3>1, <3>2 DEF HomeOK
    <2>3. CASE f # g
      <3>1. newVis'[f] = newVis[f] /\ last'[f] = last[f]
        BY <1>1, <1>2, <1>3, <2>3
      <3>2. step'[OwnerOf(f)] > Slices + k <=> step[OwnerOf(f)] > Slices + k
        <4>1. CASE OwnerOf(f) # r
          BY <1>3, <2>1, <4>1
        <4>2. CASE OwnerOf(f) = r
          <5>1. k # j
            BY <1>1, <2>3, <4>2, Owners
          <5> HIDE DEF k, j
          <5> QED BY <1>3, <2>1, <4>2, <5>1
        <4> QED BY <4>1, <4>2
      <3> QED BY <2>1, <3>1, <3>2 DEF HomeOK
    <2> QED BY <2>2, <2>3
  <1> QED BY <1>4, <1>5 DEF HistInv

LEMMA StartHist ==
  ASSUME RingInv, HistInv, NEW r \in Rank, StartExchange(r)
  PROVE  HistInv'
  <1>1. TypesOK /\ CountOK(r)
    BY DEF RingInv
  <1>2. /\ pc[r] = "exchange" /\ Len(pending[r]) = 2 /\ step[r] < Slices /\ Slices \in Nat
    BY <1>1, Bounds DEF StartExchange, CountOK, Ledger
  <1>3. /\ \A x \in Rank : step[x] \in Nat /\ recvTop[x] \in Nat
        /\ step' = [step EXCEPT ![r] = @ + 1] /\ recvTop' = [recvTop EXCEPT ![r] = @ + 2]
        /\ pending' = [pending EXCEPT ![r] = <<>>] /\ UNCHANGED <<last, newVis>>
    BY <1>1 DEF StartExchange, TypesOK, StepType, TopType
  <1>4. ASSUME NEW x \in Rank PROVE Done(x)' = Done(x)
    <2>1. CASE x = r
      <3>1. recvTop'[r] = recvTop[r] + 2 /\ Len(pending'[r]) = 0
        BY <1>1, <1>3 DEF TypesOK, TopType, PendingType
      <3>2. Done(r)' = (recvTop[r] + 2) + 0 /\ Done(r) = recvTop[r] + 2
        BY <1>2, <3>1 DEF Done
      <3>3. recvTop[r] \in Nat
        BY <1>3
      <3> QED BY <2>1, <3>2, <3>3
    <2>2. CASE x # r
      <3>1. recvTop'[x] = recvTop[x] /\ pending'[x] = pending[x]
        BY <1>1, <1>3, <2>2 DEF TypesOK, TopType, PendingType
      <3> QED BY <3>1 DEF Done
    <2> QED BY <2>1, <2>2
  <1>5. step'[r] = step[r] + 1 /\ \A x \in Rank \ {r} : step'[x] = step[x]
    BY <1>1, <1>3 DEF TypesOK, StepType
  <1>6. step'[r] <= Slices /\ step'[r] \in Nat
    BY <1>2, <1>3, <1>5
  <1>7. /\ \A x \in Rank : step'[x] > Slices <=> step[x] > Slices
        /\ \A x \in Rank : step[x] > Slices => step'[x] = step[x]
        /\ \A x \in Rank : step[x] \in Nat /\ step'[x] \in Nat
    <2> SUFFICES ASSUME NEW x \in Rank
                 PROVE  /\ step'[x] > Slices <=> step[x] > Slices
                        /\ step[x] > Slices => step'[x] = step[x]
                        /\ step[x] \in Nat /\ step'[x] \in Nat
      BY Zenon
    <2>1. CASE x = r
      BY <1>2, <1>3, <1>6, <2>1
    <2>2. CASE x # r
      BY <1>3, <1>5, <2>2
    <2> QED BY <2>1, <2>2
  <1> QED BY <1>3, <1>4, <1>7, KeptHist

LEMMA HistStep == RingInv /\ DataInv /\ HistInv /\ [Next]_ringVars => HistInv'
  <1> SUFFICES ASSUME RingInv, DataInv, HistInv, [Next]_ringVars PROVE HistInv'
    OBVIOUS
  <1>1. ASSUME UNCHANGED <<last, newVis, step, recvTop, pending>> PROVE HistInv'
    <2>1. \A x \in Rank : Done(x)' = Done(x)
      BY <1>1 DEF Done
    <2>2. \A x \in Rank : step[x] \in Nat
      BY DEF RingInv, TypesOK, StepType
    <2> QED BY <1>1, <2>1, <2>2, KeptHist
  <1>2. ASSUME NEW r \in Rank, RankStep(r) PROVE HistInv'
    <2>1. CASE Complete(r) \/ Take(r)
      BY <1>1, <2>1 DEF Complete, Take
    <2>2. CASE Search(r)
      BY <2>2, SearchHist
    <2>3. CASE StartExchange(r)
      BY <2>3, StartHist
    <2>4. CASE CopyHome(r)
      BY <2>4, CopyHist
    <2> QED BY <1>2, <2>1, <2>2, <2>3, <2>4 DEF RankStep
  <1>3. ASSUME NEW p \in Rank, NEW q \in Rank, NEW i \in DOMAIN net[p][q], Buffered(p, q, i) PROVE HistInv'
    BY <1>1, <1>3 DEF Buffered
  <1>4. ASSUME NEW p \in Rank, NEW q \in Rank, NEW i \in OpenReceives(q, p), Deliver(p, q, i) PROVE HistInv'
    BY <1>1, <1>4 DEF Deliver
  <1>5. ASSUME UNCHANGED ringVars PROVE HistInv'
    BY <1>1, <1>5 DEF ringVars
  <1> QED BY <1>2, <1>3, <1>4, <1>5 DEF Next

RowInv == RingInv /\ DataInv /\ HistInv

LEMMA RowInvariance == Spec => []RowInv
  <1>1. Init => RowInv
    BY InitInv, InitData, InitHist DEF RowInv
  <1>2. RowInv /\ [Next]_ringVars => RowInv'
    BY StepInv, DataStep, HistStep DEF RowInv
  <1> QED BY <1>1, <1>2, PTL DEF Spec

LEMMA Homes ==
  ASSUME RowInv, NEW g \in Region
  PROVE  /\ Home(g) <=> step[OwnerOf(g)] > Slices + (g % Substeps)
         /\ Home(g) => last[g] = Road(g, Size)
  <1>1. HomeOK(g) /\ Road(g, Size) # <<>>
    BY Roads DEF RowInv, HistInv
  <1> QED BY <1>1 DEF HomeOK, Home

\* All slices are home when a rank has gone through its steps, and nothing of
\* the level is left: send_first and recv of the next level find the state that
\* begin left (bottom_up_comm.hpp).
THEOREM SlicesHome == Spec => []AllHome
  <1>1. RowInv => AllHome
    <2> SUFFICES ASSUME RowInv, NEW r \in Rank, step[r] = TotalSteps
                 PROVE  /\ \A g \in Region : OwnerOf(g) = r => Home(g)
                        /\ ~ active[r] /\ pending[r] = <<>>
                        /\ recvTail[r] = recvFilled[r] /\ recvFilled[r] = recvTop[r]
                        /\ \A p \in Rank : net[p][r] = <<>>
      BY DEF AllHome
    <2>1. TypesOK /\ NetOK /\ CountOK(r) /\ \A p \in Rank : CountOK(p)
      BY DEF RowInv, RingInv
    <2>2. Slices \in Nat /\ Slices % 2 = 0 /\ TotalSteps = Slices + Substeps
      BY Bounds
    <2>3. /\ recvTop[r] \in Nat /\ recvFilled[r] \in Nat /\ recvTail[r] \in Nat
          /\ pending[r] \in Seq(SliceTag) /\ Len(pending[r]) \in Nat
          /\ pc[r] \in {"take", "search", "exchange", "copy"}
      BY <2>1, Room DEF TypesOK, PendingType
    <2>4. /\ recvTop[r] % 2 = 0 /\ recvTail[r] <= recvFilled[r]
          /\ recvFilled[r] = (IF active[r] THEN recvTop[r] - 2 ELSE recvTop[r])
          /\ ~ active[r] => reqs[r] = {}
          /\ Ledger(pc[r], step[r], Len(pending[r]), recvTop[r], recvTail[r])
      BY <2>1 DEF CountOK
    <2>5. /\ Len(pending[r]) <= 1 /\ recvTop[r] + Len(pending[r]) = Slices /\ recvTail[r] = Slices
      <3>1. pc[r] = "take"
        <4>1. ~ (step[r] < Slices) /\ ~ (step[r] < TotalSteps)
          BY <2>2
        <4>2. pc[r] \notin {"search", "exchange", "copy"}
          BY <2>4, <4>1, ZenonT(30) DEF Ledger
        <4> QED BY <2>3, <4>2
      <3>2. /\ Len(pending[r]) <= 1
            /\ recvTop[r] + Len(pending[r]) = (IF step[r] < Slices THEN step[r] ELSE Slices)
            /\ recvTail[r] = IF step[r] < Substeps THEN 0 ELSE step[r] - Substeps
        BY <2>4, <3>1 DEF Ledger
      <3> QED BY <2>2, <3>2
    <2>6. Len(pending[r]) = 0 /\ recvTop[r] = Slices
      BY <2>2, <2>3, <2>4, <2>5
    <2>7. ~ active[r] /\ recvFilled[r] = Slices /\ reqs[r] = {}
      BY <2>2, <2>3, <2>4, <2>5, <2>6
    <2>8. pending[r] = <<>>
      BY <2>3, <2>6
    <2>9. ASSUME NEW p \in Rank PROVE net[p][r] = <<>>
      <3>1. recvTop[p] \in Nat /\ recvTop[p] <= Slices /\ net[p][r] \in Seq(Message) /\ Len(net[p][r]) \in Nat
        BY <2>1 DEF TypesOK, TopType, CountOK, NetType
      <3>2. Next0(r) = Slices /\ Next1(r) = Slices + 1 /\ NextOfTwo(r) = Slices
        BY <2>2, <2>6, <2>7 DEF Next0, Next1, NextOfTwo
      <3>3. CASE Size >= 3
        <4>1. ManyOK(p, r)
          BY <2>1, <3>3 DEF NetOK
        <4>2. \/ net[p][r] = <<>> \/ recvTop[p] - Slices = 2 * Len(net[p][r])
              \/ (recvTop[p] + 1) - (Slices + 1) = 2 * Len(net[p][r])
          BY <3>2, <4>1 DEF ManyOK
        <4> DEFINE l == Len(net[p][r])
                   t == recvTop[p]
        <4>3. \/ net[p][r] = <<>> \/ t - Slices = 2 * l
              \/ (t + 1) - (Slices + 1) = 2 * l
          BY <4>2
        <4>4. t \in Nat /\ t <= Slices /\ l \in Nat
          BY <3>1
        <4> HIDE DEF l, t
        <4>5. net[p][r] = <<>> \/ l = 0
          BY <2>2, <4>3, <4>4
        <4> QED BY <3>1, <4>5 DEF l
      <3>4. CASE ~ (Size >= 3)
        <4>1. FewOK(p, r)
          BY <2>1, <3>4 DEF NetOK
        <4>2. net[p][r] = <<>> \/ recvTop[p] - Slices = Len(net[p][r])
          BY <3>2, <4>1 DEF FewOK
        <4>3. net[p][r] = <<>> \/ Len(net[p][r]) = 0
          BY <2>2, <3>1, <4>2
        <4> QED BY <3>1, <4>3
      <3> QED BY <3>3, <3>4
    <2>10. ASSUME NEW g \in Region, OwnerOf(g) = r PROVE Home(g)
      <3> DEFINE k == g % Substeps
      <3>1. k \in 0 .. Substeps - 1
        BY Owners
      <3> HIDE DEF k
      <3>2. step[r] > Slices + k
        BY <2>2, <3>1
      <3> QED BY <2>10, <3>2, Homes DEF k
    <2> QED BY <2>5, <2>6, <2>7, <2>8, <2>9, <2>10
  <1> QED BY <1>1, RowInvariance, PTL

\* A search of the ring is a visit, a slice that is copied home is taken home,
\* and all other steps change nothing of it.
LEMMA VisitStep == RowInv /\ RowInv' /\ [Next]_ringVars => [Visits!Next]_(Visits!sliceVars)
  <1> SUFFICES ASSUME RowInv, RowInv', [Next]_ringVars PROVE [Visits!Next]_(Visits!sliceVars)
    OBVIOUS
  <1> DEFINE H == {g \in Region : Home(g)}
  <1>1. ASSUME UNCHANGED <<last, newVis>> PROVE UNCHANGED Visits!sliceVars
    BY <1>1 DEF Visits!sliceVars, Home
  <1>2. ASSUME NEW r \in Rank, Search(r) PROVE [Visits!Next]_(Visits!sliceVars)
    <2>0. PICK g \in Region : g = data[r].region
      BY <1>2, SearchWay DEF Search, RowInv
    <2> DEFINE d == Dist(g, r)
    <2>1. /\ d \in 0 .. Size - 1 /\ last[g] = Road(g, d) /\ newVis[g].path = <<>>
          /\ last[g] # Road(g, Size) /\ pc[r] = "search" /\ newVis' = newVis
      BY <1>2, <2>0, SearchWay DEF Search, RowInv
    <2>2. last' = [last EXCEPT ![g] = Trip(g, r)] /\ last \in [Region -> Seq(Rank)]
      BY <1>2, <2>0, SearchData DEF RowInv, RingInv, TypesOK, LastType
    <2>3. /\ OwnerOf(g) = r <=> d = 0
          /\ OwnerOf(g) # r => Dist(g, From(g, r)) = d - 1
          /\ From(g, r) \in Rank
      BY Route
    <2>4. Trip(g, r) = Append(last[g], r) /\ r \notin ToSet(last[g]) /\ Trip(g, r) # last[g]
          /\ (last[g] = <<>> => r = OwnerOf(g))
      <3>1. CASE OwnerOf(g) = r
        <4>1. last[g] = <<>>
          BY <2>1, <2>3, <3>1, Roads
        <4> QED BY <3>1, <4>1, TripGrows DEF ToSet
      <3>2. CASE OwnerOf(g) # r
        <4>1. Trip(g, From(g, r)) = Road(g, d)
          <5>1. Dist(g, From(g, r)) + 1 = d
            BY <2>1, <2>3, <3>2
          <5> QED BY <2>3, <5>1, Roads
        <4>2. Trip(g, r) = Append(last[g], r) /\ r \notin ToSet(last[g]) /\ last[g] # <<>>
          BY <2>1, <2>3, <3>2, <4>1, TripGrows
        <4>3. Append(last[g], r) # last[g]
          BY <2>2
        <4> QED BY <4>2, <4>3
      <3> QED BY <3>1, <3>2
    <2>5. ~ Home(g) /\ ~ Home(g)'
      BY <2>1 DEF Home
    <2>6. \A f \in Region : Home(f)' <=> Home(f)
      <3> SUFFICES ASSUME NEW f \in Region PROVE Home(f)' <=> Home(f)
        OBVIOUS
      <3>1. CASE f = g
        BY <2>5, <3>1
      <3>2. CASE f # g
        BY <2>1, <2>2, <3>2 DEF Home
      <3> QED BY <3>1, <3>2
    <2>7. H' = H
      BY <2>6
    <2>8. last' = [last EXCEPT ![g] = Append(@, r)] /\ last' # last
      BY <2>2, <2>4
    <2>9. Visits!SearchedBy(g) = ToSet(last[g])
      BY DEF Visits!SearchedBy, Visits!ToSet, ToSet
    <2>10. g \notin H
      BY <2>5
    <2>11. Visits!Search(g, r)
      BY <2>4, <2>7, <2>8, <2>9, <2>10 DEF Visits!Search
    <2> QED BY <2>8, <2>11 DEF Visits!Next
  <1>3. ASSUME NEW r \in Rank, CopyHome(r) PROVE [Visits!Next]_(Visits!sliceVars)
    <2>0. PICK g \in Region : g = data[r].region
      BY <1>3, CopyWay DEF RowInv
    <2>1. /\ OwnerOf(g) = r /\ last[g] = Road(g, Size) /\ newVis[g].path = <<>> /\ last' = last
          /\ newVis' = [newVis EXCEPT ![g] = [region |-> g, path |-> Road(g, Size)]]
      BY <1>3, <2>0, CopyWay DEF RowInv, CopyHome
    <2>2. newVis \in [Region -> SliceData] /\ Road(g, Size) # <<>>
      BY Roads DEF RowInv, RingInv, TypesOK, VisType
    <2>3. ~ Home(g) /\ Home(g)' /\ \A f \in Region \ {g} : Home(f)' <=> Home(f)
      BY <2>1, <2>2 DEF Home
    <2>4. H' = H \cup {g} /\ g \notin H /\ H' # H
      BY <2>3
    <2>5. ToSet(last[g]) = Rank
      <3>1. Dist(g, From(g, r)) = Size - 1 /\ From(g, r) \in Rank
        BY <2>1, Route
      <3>2. Dist(g, From(g, r)) + 1 = Size
        BY <3>1
      <3>3. Trip(g, From(g, r)) = Road(g, Size)
        BY <3>1, <3>2, Roads
      <3> QED BY <2>1, <3>3, TripGrows
    <2>6. Visits!SearchedBy(g) = ToSet(last[g])
      BY DEF Visits!SearchedBy, Visits!ToSet, ToSet
    <2>7. Visits!TakeHome(g)
      BY <2>1, <2>4, <2>5, <2>6 DEF Visits!TakeHome
    <2> QED BY <2>4, <2>7 DEF Visits!Next
  <1>4. ASSUME NEW r \in Rank, RankStep(r) PROVE [Visits!Next]_(Visits!sliceVars)
    BY <1>1, <1>2, <1>3, <1>4 DEF RankStep, Complete, Take, StartExchange
  <1>5. ASSUME NEW p \in Rank, NEW q \in Rank, NEW i \in DOMAIN net[p][q], Buffered(p, q, i)
        PROVE  [Visits!Next]_(Visits!sliceVars)
    BY <1>1, <1>5 DEF Buffered
  <1>6. ASSUME NEW p \in Rank, NEW q \in Rank, NEW i \in OpenReceives(q, p), Deliver(p, q, i)
        PROVE  [Visits!Next]_(Visits!sliceVars)
    BY <1>1, <1>6 DEF Deliver
  <1>7. ASSUME UNCHANGED ringVars PROVE [Visits!Next]_(Visits!sliceVars)
    BY <1>1, <1>7 DEF ringVars
  <1> QED BY <1>4, <1>5, <1>6, <1>7 DEF Next

\* The search may rely on the ring as if every slice were visited by one rank
\* after the other: the pipelining, the tags and the buffers do not show.
THEOREM RingVisits == Spec => ImplementsVisits
  <1>1. Init => Visits!Init
    <2> SUFFICES ASSUME Init PROVE Visits!Init
      OBVIOUS
    <2>1. last = [g \in Region |-> <<>>] /\ \A g \in Region : ~ Home(g)
      BY DEF Init, Home, NoSlice
    <2> QED BY <2>1 DEF Visits!Init
  <1>2. RowInv /\ RowInv' /\ [Next]_ringVars => [Visits!Next]_(Visits!sliceVars)
    BY VisitStep
  <1> QED BY <1>1, <1>2, RowInvariance, PTL DEF Spec, ImplementsVisits, Visits!Spec
=============================================================================
