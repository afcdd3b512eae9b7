--------------------------- MODULE TopDown_proofs ---------------------------
(***************************************************************************)
(* What a top-down level relies on. The fold: the ranks leave the rounds   *)
(* of the all-to-all together and with nothing left, the areas that the    *)
(* second pass writes are those that the first one made room for, and what *)
(* the ranks read from all the words is each edge of their frontiers once, *)
(* for any rows, threads, packets and sizes. Lists of frontier vertices:   *)
(* they fit their buffers before the bottom-up phase and at its end, and   *)
(* are bounded after it, for every graph size, number of ranks and setting *)
(* of the policy that the theorems name.                                   *)
(***************************************************************************)
EXTENDS LevelControl, TopDownFold, FiniteSetTheorems, SequenceTheorems,
        WellFoundedInduction, TLAPS

-----------------------------------------------------------------------------
(* Numbers and recursions *)

\* A set of numbers has a least one.
LEMMA LeastNatural ==
  ASSUME NEW T \in SUBSET Nat, T # {}
  PROVE  \E x \in T : \A y \in T : x <= y
<1> DEFINE Less == {ss \in Nat \X Nat : ss[1] < ss[2]}
<1>1. IsWellFoundedOn(Less, Nat)
  BY NatLessThanWellFounded, Zenon DEF OpToRel
<1>2. PICK x \in T : \A y \in T : ~ (<<y, x>> \in Less)
  <2> HIDE DEF Less
  <2> QED BY <1>1, WFMin
<1>3. ASSUME NEW y \in T PROVE x <= y
  <2>1. x \in Nat /\ y \in Nat OBVIOUS
  <2>2. <<y, x>> \in Nat \X Nat BY <2>1
  <2>3. ~ (y < x) BY <1>2, <2>2
  <2> QED BY <2>1, <2>3
<1> QED BY <1>3


\* What holds of 0 and passes from each number to the next.
LEMMA UpTo ==
  ASSUME NEW n \in Nat, NEW T, 0 \in T, \A k \in 1 .. n : k - 1 \in T => k \in T
  PROVE  \A k \in 0 .. n : k \in T
<1> SUFFICES ASSUME NEW z \in 0 .. n, z \notin T PROVE FALSE
  OBVIOUS
<1> DEFINE U == {k \in 0 .. n : k \notin T}
<1>1. PICK m \in U : \A j \in U : m <= j
  <2>1. U \in SUBSET Nat /\ U # {}
    OBVIOUS
  <2> HIDE DEF U
  <2> QED BY <2>1, LeastNatural
<1>2. m \in 0 .. n /\ m \notin T /\ m # 0
  OBVIOUS
<1>3. m \in 1 .. n /\ m - 1 \in 0 .. n /\ ~ (m <= m - 1)
  BY <1>2
<1>4. m - 1 \in T
  BY <1>1, <1>3
<1> QED BY <1>2, <1>3, <1>4

\* A recursion over the positions of a sequence has a solution.
Stepwise(A, n, base, F) == n \in Nat /\ base \in A /\ F \in [1 .. n -> [A -> A]]
LEMMA Recursion ==
  ASSUME NEW A, NEW n, NEW base, NEW F, Stepwise(A, n, base, F)
  PROVE  \E g \in [0 .. n -> A] : g[0] = base /\ \A k \in 1 .. n : g[k] = F[k][g[k - 1]]
<1> USE DEF Stepwise
<1> DEFINE Solves(g, m) == /\ g \in [0 .. m -> A] /\ g[0] = base
                           /\ \A k \in 1 .. m : g[k] = F[k][g[k - 1]]
           T == {m \in 0 .. n : \E g \in [0 .. m -> A] : Solves(g, m)}
<1>1. 0 \in T
  <2> DEFINE g == [k \in 0 .. 0 |-> base]
  <2>1. Solves(g, 0) /\ g \in [0 .. 0 -> A]
    OBVIOUS
  <2> HIDE DEF g, Solves
  <2> QED BY <2>1
<1>2. ASSUME NEW m \in 1 .. n, m - 1 \in T PROVE m \in T
  <2>1. m - 1 \in 0 .. n /\ m - 1 \in Nat /\ m \in Nat /\ m # 0
    OBVIOUS
  <2>2. PICK g \in [0 .. m - 1 -> A] : Solves(g, m - 1)
    BY <1>2
  <2> DEFINE h == [k \in 0 .. m |-> IF k = m THEN F[m][g[m - 1]] ELSE g[k]]
  <2>3. g[m - 1] \in A /\ F[m][g[m - 1]] \in A
    BY <2>1
  <2>4. h \in [0 .. m -> A]
    BY <2>1, <2>3
  <2>5. h[0] = base
    BY <2>1, <2>2
  <2>6. ASSUME NEW k \in 1 .. m PROVE h[k] = F[k][h[k - 1]]
    <3>1. h[k - 1] = g[k - 1]
      BY <2>1
    <3>2. CASE k = m
      <4>1. h[m] = F[m][g[m - 1]]
        BY <2>1
      <4> HIDE DEF h
      <4> QED BY <3>1, <3>2, <4>1
    <3>3. CASE k # m
      <4>1. k \in 1 .. m - 1 /\ h[k] = g[k]
        BY <2>1, <3>3
      <4> HIDE DEF h
      <4> QED BY <2>2, <3>1, <4>1
    <3> QED BY <3>2, <3>3
  <2>7. Solves(h, m)
    <3> HIDE DEF h
    <3> QED BY <2>4, <2>5, <2>6
  <2> HIDE DEF h, Solves
  <2> QED BY <2>1, <2>4, <2>7
<1>3. n \in T
  <2> HIDE DEF T
  <2>1. \A k \in 0 .. n : k \in T
    BY <1>1, <1>2, UpTo
  <2> QED BY <2>1
<1> QED BY <1>3

\* The smaller of two numbers.
LEMMA MinOfTwo ==
  ASSUME NEW a \in Int, NEW b \in Int
  PROVE  Min({a, b}) = IF a <= b THEN a ELSE b
<1>1. CASE a <= b
  <2>1. a \in {a, b} /\ \A y \in {a, b} : a <= y
    BY <1>1
  <2>2. \A x \in {a, b} : (\A y \in {a, b} : x <= y) => x = a
    BY <1>1
  <2> QED BY <1>1, <2>1, <2>2 DEF Min
<1>2. CASE ~ (a <= b)
  <2>1. b \in {a, b} /\ \A y \in {a, b} : b <= y
    BY <1>2
  <2>2. \A x \in {a, b} : (\A y \in {a, b} : x <= y) => x = b
    BY <1>2
  <2> QED BY <1>2, <2>1, <2>2 DEF Min
<1> QED BY <1>1, <1>2

-----------------------------------------------------------------------------
(* The two passes over the edge lists of a target *)

\* What the two passes carry from list to list.
CountState == [count : Nat, full : BOOLEAN]
Pieces == Seq([list : Nat, first : Int, length : Int])
FillState(n) == [count : Int, words : Int, pieces : Pieces, left : [1 .. n -> Nat], full : BOOLEAN]

\* The sizes of areas and headers.
LEMMA AreaSizes == 
  /\ MaxSize \in Nat /\ MinSpace \in Nat
  /\ MinSpace > HeaderSize /\ MaxSize > MinSpace /\ HeaderSize = 3
BY PointerAlltoallAssumption DEF HeaderSize

\* One list in the first pass.
LEMMA CountStep ==
  ASSUME NEW acc \in CountState, NEW len \in Nat
  PROVE  LET c == CountList(acc, len) IN
         /\ c \in CountState
         /\ acc.full \/ len = 0 => c = acc
         /\ ~ acc.full /\ len # 0 =>
              /\ c.count = IF acc.count + len + 3 >= MaxSize THEN MaxSize ELSE acc.count + len + 3
              /\ c.full <=> c.count + MinSpace >= MaxSize
<1> DEFINE c == acc.count + len + HeaderSize
<1>1. c \in Nat /\ c = acc.count + len + 3 /\ acc.full \in BOOLEAN /\ acc.count \in Nat
  BY AreaSizes DEF CountState
<1>2. CASE acc.full \/ len = 0
  BY <1>2 DEF CountList
<1>3. CASE ~ acc.full /\ len # 0 /\ c >= MaxSize
  <2>1. CountList(acc, len) = [count |-> MaxSize, full |-> TRUE]
    BY <1>3 DEF CountList
  <2> HIDE DEF c
  <2>2. MaxSize + MinSpace >= MaxSize /\ MaxSize \in Nat
    BY AreaSizes
  <2> QED BY <1>1, <1>3, <2>1, <2>2 DEF CountState
<1>4. CASE ~ acc.full /\ len # 0 /\ ~ (c >= MaxSize)
  <2>1. CountList(acc, len) = [count |-> c, full |-> c + MinSpace >= MaxSize]
    BY <1>4 DEF CountList
  <2> HIDE DEF c
  <2> DEFINE z == CountList(acc, len)
             e == (c + MinSpace >= MaxSize)
  <2>2. e \in BOOLEAN /\ z = [count |-> c, full |-> e]
    BY <2>1
  <2>3. e <=> c + MinSpace >= MaxSize
    OBVIOUS
  <2> HIDE DEF e, z
  <2>4. z \in CountState /\ z.count = c /\ z.full = e
    BY <1>1, <2>2 DEF CountState
  <2> QED BY <1>1, <1>4, <2>2, <2>3, <2>4 DEF z
<1> QED BY <1>1, <1>2, <1>3, <1>4

\* One list in the second pass.
LEMMA FillStep ==
  ASSUME NEW n \in Nat, NEW acc \in FillState(n), NEW b \in 1 .. n, NEW len \in Nat, NEW total \in Nat
  PROVE  LET f == FillList(acc, b, len, total) IN
         /\ f \in FillState(n)
         /\ acc.full \/ len = 0 => f = acc
         /\ ~ acc.full /\ len # 0 =>
              /\ f.count = IF acc.count + len + 3 >= MaxSize THEN MaxSize ELSE acc.count + len + 3
              /\ f.words - f.count = acc.words - acc.count
              /\ f.full <=> f.count + MinSpace >= MaxSize
<1> DEFINE c == acc.count + len + HeaderSize
           m == TakeLength(acc.count, len)
           cc == acc.count + Min({len + HeaderSize, MaxSize - acc.count})
           piece == [list |-> b, first |-> PieceStart(len, total), length |-> m]
           f == FillList(acc, b, len, total)
<1>1. /\ c \in Int /\ c = acc.count + len + 3 /\ acc.full \in BOOLEAN /\ acc.count \in Int
      /\ acc.words \in Int /\ acc.pieces \in Pieces /\ acc.left \in [1 .. n -> Nat]
  BY AreaSizes DEF FillState
<1>2. CASE acc.full \/ len = 0
  BY <1>2 DEF FillList
<1>3. CASE ~ acc.full /\ len # 0
  <2>1. f = [count |-> cc, words |-> acc.words + HeaderSize + m, pieces |-> Append(acc.pieces, piece),
             left |-> [acc.left EXCEPT ![b] = len - m], full |-> cc + MinSpace >= MaxSize]
    BY <1>3 DEF FillList
  <2>2. cc = IF acc.count + len + 3 >= MaxSize THEN MaxSize ELSE acc.count + len + 3
    <3>1. len + HeaderSize \in Int /\ MaxSize - acc.count \in Int /\ HeaderSize = 3
      BY <1>1, AreaSizes
    <3>2. Min({len + HeaderSize, MaxSize - acc.count}) =
            IF len + HeaderSize <= MaxSize - acc.count THEN len + HeaderSize ELSE MaxSize - acc.count
      BY <3>1, MinOfTwo
    <3> DEFINE x == acc.count
               y == Min({len + HeaderSize, MaxSize - x})
    <3>3. x \in Int /\ y = IF len + 3 <= MaxSize - x THEN len + 3 ELSE MaxSize - x
      BY <1>1, <3>1, <3>2
    <3>4. cc = x + y
      OBVIOUS
    <3> HIDE DEF x, y, cc, c
    <3>5. cc = IF x + len + 3 >= MaxSize THEN MaxSize ELSE x + len + 3
      BY <3>3, <3>4, AreaSizes
    <3> QED BY <3>5 DEF x
  <2>3. m = IF acc.count + len + 3 >= MaxSize THEN MaxSize - acc.count - 3 ELSE len
    BY <1>1, AreaSizes DEF TakeLength
  <2> HIDE DEF m, cc, piece, c, f
  <2>4. /\ m \in Int /\ len - m \in Nat /\ cc \in Int
        /\ acc.words + HeaderSize + m - cc = acc.words - acc.count
        /\ acc.words + HeaderSize + m \in Int
    <3> DEFINE x == acc.count
               w == acc.words
    <3>1. x \in Int /\ w \in Int
      BY <1>1
    <3>2. /\ cc = IF x + len + 3 >= MaxSize THEN MaxSize ELSE x + len + 3
          /\ m = IF x + len + 3 >= MaxSize THEN MaxSize - x - 3 ELSE len
      BY <2>2, <2>3
    <3> HIDE DEF x, w
    <3>3. m \in Int /\ len - m \in Nat /\ cc \in Int /\ w + HeaderSize + m - cc = w - x /\ w + HeaderSize + m \in Int
      BY <3>1, <3>2, AreaSizes
    <3> QED BY <3>3 DEF x, w
  <2>5. Append(acc.pieces, piece) \in Pieces
    <3>1. piece \in [list : Nat, first : Int, length : Int]
      BY <2>4 DEF PieceStart, piece
    <3> QED BY <1>1, <3>1 DEF Pieces
  <2>6. [acc.left EXCEPT ![b] = len - m] \in [1 .. n -> Nat]
    BY <1>1, <2>4
  <2>7. f \in FillState(n)
    BY <2>1, <2>4, <2>5, <2>6 DEF FillState
  <2>8. f.count = cc /\ f.words = acc.words + HeaderSize + m /\ (f.full <=> cc + MinSpace >= MaxSize)
    BY <2>1
  <2>9. f.words - f.count = acc.words - acc.count
    BY <1>1, <2>4, <2>8, AreaSizes
  <2>10. /\ f.count = IF acc.count + len + 3 >= MaxSize THEN MaxSize ELSE acc.count + len + 3
         /\ f.full <=> f.count + MinSpace >= MaxSize
    BY <2>2, <2>8
  <2> QED BY <1>3, <2>7, <2>9, <2>10 DEF f
<1> QED BY <1>2, <1>3

\* The room of a target, list by list.
LEMMA CountedSteps ==
  ASSUME NEW p \in Nat, NEW lens \in Seq(Nat)
  PROVE  \E c \in [0 .. Len(lens) -> CountState] :
           /\ c[0] = [count |-> p, full |-> FALSE]
           /\ \A k \in 1 .. Len(lens) : c[k] = CountList(c[k - 1], lens[k])
           /\ Counted(p, lens) = c[Len(lens)].count
<1> DEFINE n == Len(lens)
           base == [count |-> p, full |-> FALSE]
           Op(a, k) == CountList(a, lens[k])
           F == [k \in 1 .. n |-> [a \in CountState |-> Op(a, k)]]
           Eq(acc) == acc = [b \in 0 .. n |-> IF b = 0 THEN base ELSE Op(acc[b - 1], b)]
           h == CHOOSE acc : Eq(acc)
<1>1. n \in Nat /\ base \in CountState /\ \A k \in 1 .. n : lens[k] \in Nat
  BY DEF CountState
<1>2. \A a \in CountState, k \in 1 .. n : Op(a, k) \in CountState
  <2> HIDE DEF n
  <2> QED BY <1>1, CountStep
<1>3. Counted(p, lens) = h[n].count
  BY DEF Counted
<1> HIDE DEF n, base, Op
<1>4. F \in [1 .. n -> [CountState -> CountState]] /\ \A k \in 1 .. n, a \in CountState : F[k][a] = Op(a, k)
  BY <1>2
<1> HIDE DEF F, Eq, h
<1>5. PICK g \in [0 .. n -> CountState] : g[0] = base /\ \A k \in 1 .. n : g[k] = F[k][g[k - 1]]
  <2>1. Stepwise(CountState, n, base, F)
    BY <1>1, <1>4 DEF Stepwise
  <2> QED BY <2>1, Recursion
<1>6. \A k \in 1 .. n : g[k - 1] \in CountState /\ g[k] = Op(g[k - 1], k)
  <2> TAKE k \in 1 .. n
  <2>1. g[k - 1] \in CountState
    BY <1>1
  <2> QED BY <1>4, <1>5, <2>1
<1>7. Eq(g)
  <2>1. \A b \in 0 .. n : g[b] = IF b = 0 THEN base ELSE Op(g[b - 1], b)
    <3> TAKE b \in 0 .. n
    <3>1. b = 0 \/ b \in 1 .. n
      BY <1>1
    <3> QED BY <1>5, <1>6, <3>1
  <2> QED BY <2>1 DEF Eq
<1>8. Eq(h)
  BY <1>7 DEF h
<1>9. h[0] = base /\ \A k \in 1 .. n : h[k] = Op(h[k - 1], k)
  BY <1>1, <1>8 DEF Eq
<1>10. h \in [0 .. n -> CountState]
  <2> DEFINE T == {k \in 0 .. n : h[k] \in CountState}
  <2>1. 0 \in T /\ \A k \in 1 .. n : k - 1 \in T => k \in T
    BY <1>1, <1>2, <1>9
  <2> HIDE DEF T
  <2>2. \A k \in 0 .. n : k \in T
    BY <1>1, <2>1, UpTo
  <2>3. \A k \in 0 .. n : h[k] \in CountState
    BY <2>2 DEF T
  <2>4. h = [b \in 0 .. n |-> h[b]]
    BY <1>8 DEF Eq
  <2> QED BY <2>3, <2>4
<1> QED BY <1>3, <1>9, <1>10 DEF n, base, Op
\* What is written for a target, list by list.
LEMMA FilledSteps ==
  ASSUME NEW p \in Nat, NEW lens \in Seq(Nat), NEW total \in Seq(Nat), Len(total) = Len(lens)
  PROVE  \E c \in [0 .. Len(lens) -> FillState(Len(lens))] :
           /\ c[0] = [count |-> p, words |-> p, pieces |-> <<>>, left |-> lens, full |-> FALSE]
           /\ \A k \in 1 .. Len(lens) : c[k] = FillList(c[k - 1], k, lens[k], total[k])
           /\ Filled(p, lens, total) = c[Len(lens)]
<1> DEFINE n == Len(lens)
           S == FillState(n)
           base == [count |-> p, words |-> p, pieces |-> <<>>, left |-> lens, full |-> FALSE]
           Op(a, k) == FillList(a, k, lens[k], total[k])
           F == [k \in 1 .. n |-> [a \in S |-> Op(a, k)]]
           Eq(acc) == acc = [b \in 0 .. n |-> IF b = 0 THEN base ELSE Op(acc[b - 1], b)]
           h == CHOOSE acc : Eq(acc)
<1>1. n \in Nat /\ base \in S /\ \A k \in 1 .. n : lens[k] \in Nat /\ total[k] \in Nat
  <2>1. <<>> \in Pieces /\ lens \in [1 .. n -> Nat] /\ p \in Int
    BY DEF Pieces
  <2> QED BY <2>1 DEF FillState
<1>2. \A a \in S, k \in 1 .. n : Op(a, k) \in S
  <2> HIDE DEF n
  <2> QED BY <1>1, FillStep
<1>3. Filled(p, lens, total) = h[n]
  BY DEF Filled
<1> HIDE DEF n, base, Op, S
<1>4. F \in [1 .. n -> [S -> S]] /\ \A k \in 1 .. n, a \in S : F[k][a] = Op(a, k)
  BY <1>2
<1> HIDE DEF F, Eq, h
<1>5. PICK g \in [0 .. n -> S] : g[0] = base /\ \A k \in 1 .. n : g[k] = F[k][g[k - 1]]
  <2>1. Stepwise(S, n, base, F)
    BY <1>1, <1>4 DEF Stepwise
  <2> QED BY <2>1, Recursion
<1>6. \A k \in 1 .. n : g[k - 1] \in S /\ g[k] = Op(g[k - 1], k)
  <2> TAKE k \in 1 .. n
  <2>1. g[k - 1] \in S
    BY <1>1
  <2> QED BY <1>4, <1>5, <2>1
<1>7. Eq(g)
  <2>1. \A b \in 0 .. n : g[b] = IF b = 0 THEN base ELSE Op(g[b - 1], b)
    <3> TAKE b \in 0 .. n
    <3>1. b = 0 \/ b \in 1 .. n
      BY <1>1
    <3> QED BY <1>5, <1>6, <3>1
  <2> QED BY <2>1 DEF Eq
<1>8. Eq(h)
  BY <1>7 DEF h
<1>9. h[0] = base /\ \A k \in 1 .. n : h[k] = Op(h[k - 1], k)
  BY <1>1, <1>8 DEF Eq
<1>10. h \in [0 .. n -> S]
  <2> DEFINE T == {k \in 0 .. n : h[k] \in S}
  <2>1. 0 \in T /\ \A k \in 1 .. n : k - 1 \in T => k \in T
    BY <1>1, <1>2, <1>9
  <2> HIDE DEF T
  <2>2. \A k \in 0 .. n : k \in T
    BY <1>1, <2>1, UpTo
  <2>3. \A k \in 0 .. n : h[k] \in S
    BY <2>2 DEF T
  <2>4. h = [b \in 0 .. n |-> h[b]]
    BY <1>8 DEF Eq
  <2> QED BY <2>3, <2>4
<1> QED BY <1>3, <1>9, <1>10 DEF n, base, Op, S

\* The passes agree on every area.
LEMMA AreaCounted ==
  ASSUME NEW p \in Nat, NEW lens \in Seq(Nat), NEW total \in Seq(Nat), Len(total) = Len(lens)
  PROVE  /\ Counted(p, lens) \in Nat
         /\ Filled(p, lens, total).words = Counted(p, lens)
         /\ Filled(p, lens, total).pieces \in Pieces
         /\ Filled(p, lens, total).left \in [1 .. Len(lens) -> Nat]
         /\ Counted(p, lens) = 0 => \A b \in 1 .. Len(lens) : lens[b] = 0
         /\ p <= MaxSize => Counted(p, lens) <= MaxSize
<1> DEFINE n == Len(lens)
<1>1. PICK c \in [0 .. n -> CountState] :
           /\ c[0] = [count |-> p, full |-> FALSE]
           /\ \A k \in 1 .. n : c[k] = CountList(c[k - 1], lens[k])
           /\ Counted(p, lens) = c[n].count
  BY CountedSteps
<1>2. PICK f \in [0 .. n -> FillState(n)] :
           /\ f[0] = [count |-> p, words |-> p, pieces |-> <<>>, left |-> lens, full |-> FALSE]
           /\ \A k \in 1 .. n : f[k] = FillList(f[k - 1], k, lens[k], total[k])
           /\ Filled(p, lens, total) = f[n]
  BY FilledSteps
<1>3. n \in Nat /\ \A k \in 1 .. n : lens[k] \in Nat /\ total[k] \in Nat
  OBVIOUS
<1> HIDE DEF n
<1> DEFINE Same(k) == /\ f[k].count = c[k].count /\ f[k].words = c[k].count /\ (f[k].full <=> c[k].full)
                      /\ c[k].count = 0 => ~ c[k].full /\ \A b \in 1 .. k : lens[b] = 0
                      /\ p <= MaxSize => c[k].count <= MaxSize
           T == {k \in 0 .. n : Same(k)}
<1>4. Same(0)
  BY <1>1, <1>2
<1>5. ASSUME NEW k \in 1 .. n, Same(k - 1) PROVE Same(k)
  <2> DEFINE a == c[k - 1]
             b == f[k - 1]
             len == lens[k]
  <2>1. k - 1 \in 0 .. n /\ k \in 0 .. n
    BY <1>3
  <2>2. a \in CountState /\ b \in FillState(n) /\ len \in Nat /\ total[k] \in Nat
    BY <1>3, <2>1
  <2>3. c[k] = CountList(a, len) /\ f[k] = FillList(b, k, len, total[k])
    BY <1>1, <1>2
  <2>4. /\ c[k] \in CountState
        /\ a.full \/ len = 0 => c[k] = a
        /\ ~ a.full /\ len # 0 =>
             /\ c[k].count = IF a.count + len + 3 >= MaxSize THEN MaxSize ELSE a.count + len + 3
             /\ c[k].full <=> c[k].count + MinSpace >= MaxSize
    <3> HIDE DEF a, len
    <3> QED BY <2>2, <2>3, CountStep
  <2>5. /\ f[k] \in FillState(n)
        /\ b.full \/ len = 0 => f[k] = b
        /\ ~ b.full /\ len # 0 =>
             /\ f[k].count = IF b.count + len + 3 >= MaxSize THEN MaxSize ELSE b.count + len + 3
             /\ f[k].words - f[k].count = b.words - b.count
             /\ f[k].full <=> f[k].count + MinSpace >= MaxSize
    <3> DEFINE z == FillList(b, k, len, total[k])
    <3> HIDE DEF b, len
    <3>1. /\ z \in FillState(n)
          /\ b.full \/ len = 0 => z = b
          /\ ~ b.full /\ len # 0 =>
             /\ z.count = IF b.count + len + 3 >= MaxSize THEN MaxSize ELSE b.count + len + 3
             /\ z.words - z.count = b.words - b.count
             /\ z.full <=> z.count + MinSpace >= MaxSize
      BY <1>3, <2>2, FillStep
    <3>2. f[k] = z
      BY <2>3
    <3> HIDE DEF z
    <3> QED BY <3>1, <3>2
  <2>6. /\ b.count = a.count /\ b.words = a.count /\ (b.full <=> a.full)
        /\ a.count = 0 => ~ a.full /\ \A i \in 1 .. k - 1 : lens[i] = 0
        /\ p <= MaxSize => a.count <= MaxSize
    BY <1>5
  <2>7. /\ a.count \in Nat /\ b.count \in Int /\ b.words \in Int /\ c[k].count \in Nat /\ f[k].count \in Int /\ f[k].words \in Int
    BY <2>2, <2>4, <2>5 DEF CountState, FillState
  <2> HIDE DEF a, b
  <2>8. CASE a.full \/ len = 0
    <3>1. c[k] = a /\ f[k] = b
      BY <2>4, <2>5, <2>6, <2>8
    <3>2. a.count = 0 => len = 0
      BY <2>6, <2>8
    <3>3. a.count = 0 => \A i \in 1 .. k : lens[i] = 0
      <4> SUFFICES ASSUME a.count = 0, NEW i \in 1 .. k PROVE lens[i] = 0
        OBVIOUS
      <4>1. i = k \/ i \in 1 .. k - 1
        OBVIOUS
      <4> QED BY <2>6, <3>2, <4>1
    <3> QED BY <2>6, <3>1, <3>3
  <2>9. CASE ~ a.full /\ len # 0
    <3>1. /\ c[k].count = IF a.count + len + 3 >= MaxSize THEN MaxSize ELSE a.count + len + 3
          /\ c[k].full <=> c[k].count + MinSpace >= MaxSize
          /\ f[k].count = c[k].count
          /\ f[k].words - f[k].count = b.words - b.count
          /\ f[k].full <=> f[k].count + MinSpace >= MaxSize
      BY <2>4, <2>5, <2>6, <2>9
    <3> DEFINE x == a.count
               y == c[k].count
    <3>2. x \in Nat /\ y = IF x + len + 3 >= MaxSize THEN MaxSize ELSE x + len + 3
      BY <2>7, <3>1
    <3> HIDE DEF x, y, len
    <3>3. len \in Nat /\ MaxSize \in Nat /\ MaxSize > 0
      BY <2>2, AreaSizes
    <3>5. y # 0 /\ y <= MaxSize
      BY <3>2, <3>3
    <3>4. f[k].words = c[k].count
      BY <2>6, <2>7, <3>1
    <3> QED BY <3>1, <3>4, <3>5 DEF y
  <2> QED BY <2>8, <2>9
<1>6. Same(n)
  <2>1. 0 \in T /\ \A k \in 1 .. n : k - 1 \in T => k \in T
    <3> HIDE DEF Same
    <3> QED BY <1>3, <1>4, <1>5
  <2> HIDE DEF T
  <2>2. \A k \in 0 .. n : k \in T
    BY <1>3, <2>1, UpTo
  <2>3. n \in 0 .. n
    BY <1>3
  <2> HIDE DEF Same
  <2> QED BY <2>2, <2>3 DEF T
<1>7. c[n] \in CountState /\ f[n] \in FillState(n)
  BY <1>3
<1>8. c[n].count \in Nat /\ f[n].pieces \in Pieces /\ f[n].left \in [1 .. n -> Nat]
  BY <1>7 DEF CountState, FillState
<1> QED BY <1>1, <1>2, <1>6, <1>8 DEF n

-----------------------------------------------------------------------------
(* What is put before the exchange *)

\* Rows, words, packets and lists
Target     == [dest : Rank, local : Nat]
Row        == [src : Nat, tgts : Seq(Target) \ {<<>>}]
WordType   == [kind : {"high", "low", "tgt"}, val : Nat]
PacketType == [src : Int, words : Seq(WordType)]
ListType   == [src : Nat, tgts : Seq(Target)]
SendState  == [pk : [Rank -> PacketType], stream : [Rank -> Seq(WordType)]]
PutState   == [start : Nat, lists : [Rank -> Seq(ListType)]]

\* Ranks and threads are counted.
LEMMA Places == NumRanks \in Nat /\ NumThreads \in Nat /\ Rank = 0 .. NumRanks - 1 /\ Thread = 1 .. NumThreads
BY PointerAlltoallAssumption, TopDownFoldAssumption, FS_CardinalityType DEF NumRanks

\* One edge goes into its packet, or the packet goes out before.
LEMMA SendEdgeType ==
  ASSUME NEW acc \in SendState, NEW src \in Nat, NEW tgt \in Target
  PROVE  SendEdge(acc, src, tgt) \in SendState
<1> DEFINE d    == tgt.dest
           full == Len(acc.pk[d].words) > PacketLength - 3
           pk   == IF full THEN Sent(acc.pk[d]) ELSE acc.pk[d]
           head == IF pk.src # src THEN SourceWords(src) ELSE <<>>
           last == <<Word("tgt", tgt.local)>>
           new  == [src |-> src, words |-> pk.words \o head \o last]
           st   == IF full THEN [acc.stream EXCEPT ![d] = @ \o acc.pk[d].words] ELSE acc.stream
<1>1. SendEdge(acc, src, tgt) = [stream |-> st, pk |-> [acc.pk EXCEPT ![d] = new]]
  BY DEF SendEdge
<1>2. d \in Rank /\ tgt.local \in Nat /\ acc.pk \in [Rank -> PacketType] /\ acc.stream \in [Rank -> Seq(WordType)]
  BY DEF Target, SendState
<1>3. acc.pk[d] \in PacketType /\ acc.stream[d] \in Seq(WordType) /\ acc.pk[d].words \in Seq(WordType)
  BY <1>2 DEF PacketType
<1>4. pk \in PacketType
  <2>1. Empty \in PacketType
    BY DEF Empty, PacketType
  <2> QED BY <1>3, <2>1 DEF Sent
<1>5. head \in Seq(WordType) /\ last \in Seq(WordType)
  <2>1. \A v \in Nat : Word("high", v) \in WordType /\ Word("low", v) \in WordType /\ Word("tgt", v) \in WordType
    BY DEF Word, WordType
  <2>2. SourceWords(src) \in Seq(WordType) /\ <<>> \in Seq(WordType)
    BY <2>1 DEF SourceWords
  <2> QED BY <1>2, <2>1, <2>2
<1>6. new \in PacketType
  <2>1. pk.words \in Seq(WordType)
    BY <1>4 DEF PacketType
  <2> HIDE DEF pk, head, last
  <2>2. pk.words \o head \o last \in Seq(WordType)
    BY <1>5, <2>1
  <2> QED BY <2>2 DEF PacketType
<1>7. st \in [Rank -> Seq(WordType)]
  <2>1. acc.stream[d] \o acc.pk[d].words \in Seq(WordType)
    BY <1>3
  <2> QED BY <1>2, <2>1
<1> HIDE DEF new, st, d
<1>8. [acc.pk EXCEPT ![d] = new] \in [Rank -> PacketType]
  BY <1>2, <1>6
<1> QED BY <1>1, <1>7, <1>8 DEF SendState

\* The piece of a long row for one target.
LEMMA PutPointersType ==
  ASSUME NEW acc \in PutState, NEW d \in Rank, NEW row \in ListType,
         \A start \in 0 .. Len(row.tgts) - 1 : EndOfTarget(row.tgts, start, d) \in 0 .. Len(row.tgts)
  PROVE  PutPointers(acc, d, row) \in PutState
<1> DEFINE n    == Len(row.tgts)
           end  == EndOfTarget(row.tgts, acc.start, d)
           item == [src |-> row.src, tgts |-> SubSeq(row.tgts, acc.start + 1, end)]
           ls   == [acc.lists EXCEPT ![d] = Append(@, item)]
<1>1. acc.start \in Nat /\ acc.lists \in [Rank -> Seq(ListType)] /\ row.src \in Nat /\ row.tgts \in Seq(Target)
  BY DEF PutState, ListType
<1>2. n \in Nat
  BY <1>1
<1>3. CASE acc.start >= n \/ row.tgts[acc.start + 1].dest > d
  BY <1>3 DEF PutPointers
<1>4. CASE ~ (acc.start >= n \/ row.tgts[acc.start + 1].dest > d)
  <2>1. PutPointers(acc, d, row) = [start |-> end, lists |-> ls]
    BY <1>4 DEF PutPointers
  <2>2. end \in 0 .. n
    <3>1. acc.start \in 0 .. n - 1
      BY <1>1, <1>2, <1>4
    <3> QED BY <3>1
  <2> HIDE DEF end
  <2>3. SubSeq(row.tgts, acc.start + 1, end) \in Seq(Target)
    <3> DEFINE s == acc.start + 1
    <3>1. s \in Nat /\ s >= 1 /\ end \in Nat /\ end <= Len(row.tgts)
      BY <1>1, <1>2, <2>2
    <3> HIDE DEF s, n
    <3> QED BY <1>1, <3>1
  <2>4. item \in ListType
    BY <1>1, <2>3 DEF ListType
  <2> HIDE DEF item
  <2>5. ls \in [Rank -> Seq(ListType)]
    BY <1>1, <2>4
  <2> HIDE DEF ls
  <2> QED BY <2>1, <2>2, <2>5 DEF PutState
<1> QED BY <1>3, <1>4

\* The edges that go out as words.
LEMMA SendWordsSteps ==
  ASSUME NEW acc \in SendState, NEW row \in Row, NEW m \in 0 .. Len(row.tgts)
  PROVE  \E c \in [0 .. m -> SendState] :
           /\ c[0] = acc
           /\ \A k \in 1 .. m : c[k] = SendEdge(c[k - 1], row.src, row.tgts[k])
           /\ SendWords(acc, row, m) = c[m]
<1> DEFINE n == m
           base == acc
           Op(a, k) == SendEdge(a, row.src, row.tgts[k])
           F == [k \in 1 .. n |-> [a \in SendState |-> Op(a, k)]]
           Eq(e) == e = [i \in 0 .. n |-> IF i = 0 THEN base ELSE Op(e[i - 1], i)]
           h == CHOOSE e : Eq(e)
<1>1. n \in Nat /\ base \in SendState
  BY DEF Row
<1>2. \A a \in SendState, k \in 1 .. n : Op(a, k) \in SendState
  <2>1. row.src \in Nat /\ \A k \in 1 .. m : row.tgts[k] \in Target
    BY DEF Row
  <2> QED BY <2>1, SendEdgeType
<1>3. SendWords(acc, row, m) = h[n]
  BY DEF SendWords
<1> HIDE DEF n, base, Op
<1>4. F \in [1 .. n -> [SendState -> SendState]] /\ \A k \in 1 .. n, a \in SendState : F[k][a] = Op(a, k)
  BY <1>2
<1> HIDE DEF F, Eq, h
<1>5. PICK g \in [0 .. n -> SendState] : g[0] = base /\ \A k \in 1 .. n : g[k] = F[k][g[k - 1]]
  <2>1. Stepwise(SendState, n, base, F)
    BY <1>1, <1>4 DEF Stepwise
  <2> QED BY <2>1, Recursion
<1>6. Eq(g)
  <2>1. \A k \in 0 .. n : g[k] = IF k = 0 THEN base ELSE Op(g[k - 1], k)
    <3> TAKE k \in 0 .. n
    <3>1. CASE k = 0
      BY <1>5, <3>1
    <3>2. CASE k \in 1 .. n
      <4>1. g[k - 1] \in SendState
        BY <1>1, <3>2
      <4> QED BY <1>4, <1>5, <3>2, <4>1
    <3> QED BY <1>1, <3>1, <3>2
  <2> QED BY <2>1 DEF Eq
<1>7. Eq(h)
  BY <1>6 DEF h
<1>8. h[0] = base /\ \A k \in 1 .. n : h[k] = Op(h[k - 1], k)
  BY <1>1, <1>7 DEF Eq
<1>9. \A k \in 0 .. n : h[k] \in SendState
  <2> DEFINE T == {k \in 0 .. n : h[k] \in SendState}
  <2>1. 0 \in T
    BY <1>1, <1>8
  <2>2. ASSUME NEW k \in 1 .. n, k - 1 \in T PROVE k \in T
    <3>1. h[k] = Op(h[k - 1], k) /\ h[k - 1] \in SendState
      BY <1>8, <2>2
    <3>2. h[k] \in SendState /\ k \in 0 .. n
      BY <1>1, <1>2, <3>1
    <3> QED BY <3>2
  <2> HIDE DEF T
  <2>3. \A k \in 0 .. n : k \in T
    BY <1>1, <2>1, <2>2, UpTo
  <2> QED BY <2>3 DEF T
<1>10. h \in [0 .. n -> SendState]
  <2> DEFINE G(k) == IF k = 0 THEN base ELSE Op(h[k - 1], k)
  <2>1. h = [k \in 0 .. n |-> G(k)]
    BY <1>7 DEF Eq
  <2>2. \A k \in 0 .. n : G(k) = h[k]
    BY <2>1
  <2> HIDE DEF G
  <2> QED BY <1>9, <2>1, <2>2
<1> QED BY <1>3, <1>8, <1>10 DEF n, base, Op
LEMMA SendWordsType ==
  ASSUME NEW acc \in SendState, NEW row \in Row, NEW m \in 0 .. Len(row.tgts)
  PROVE  SendWords(acc, row, m) \in SendState
<1>1. PICK c \in [0 .. m -> SendState] : SendWords(acc, row, m) = c[m]
  BY SendWordsSteps
<1>2. m \in 0 .. m
  OBVIOUS
<1> QED BY <1>1, <1>2

\* A name that the provers do not look behind.
WordSeq == Seq(WordType)

\* What the threads have left.
FlushedBy(words, pks, t, c) ==
  /\ c \in [0 .. NumThreads -> WordSeq] /\ c[0] = words
  /\ \A k \in 1 .. NumThreads : c[k] = c[k - 1] \o pks[k][t].words
  /\ Flushed(words, pks, t) = c[NumThreads]
LEMMA FlushedSteps ==
  ASSUME NEW words \in Seq(WordType), NEW pks \in [Thread -> [Rank -> PacketType]], NEW t \in Rank
  PROVE  \E c : FlushedBy(words, pks, t, c)
<1> DEFINE n == NumThreads
           base == words
           Op(a, k) == a \o pks[k][t].words
           F == [k \in 1 .. n |-> [a \in WordSeq |-> Op(a, k)]]
           Eq(e) == e = [i \in 0 .. n |-> IF i = 0 THEN base ELSE Op(e[i - 1], i)]
           h == CHOOSE e : Eq(e)
<1>1. n \in Nat /\ base \in WordSeq
  BY Places DEF WordSeq
<1>2. \A a \in WordSeq, k \in 1 .. n : Op(a, k) \in WordSeq
  <2>1. \A k \in 1 .. n : pks[k][t].words \in Seq(WordType)
    BY Places DEF PacketType
  <2> QED BY <2>1 DEF WordSeq
<1>3. Flushed(words, pks, t) = h[n]
  BY DEF Flushed
<1> HIDE DEF n, base, Op
<1>4. F \in [1 .. n -> [WordSeq -> WordSeq]] /\ \A k \in 1 .. n, a \in WordSeq : F[k][a] = Op(a, k)
  BY <1>2
<1> HIDE DEF F, Eq, h
<1>5. PICK g \in [0 .. n -> WordSeq] : g[0] = base /\ \A k \in 1 .. n : g[k] = F[k][g[k - 1]]
  <2>1. Stepwise(WordSeq, n, base, F)
    BY <1>1, <1>4 DEF Stepwise
  <2> QED BY <2>1, Recursion
<1>6. Eq(g)
  <2>1. \A k \in 0 .. n : g[k] = IF k = 0 THEN base ELSE Op(g[k - 1], k)
    <3> TAKE k \in 0 .. n
    <3>1. CASE k = 0
      BY <1>5, <3>1
    <3>2. CASE k \in 1 .. n
      <4>1. g[k - 1] \in WordSeq
        BY <1>1, <3>2
      <4> QED BY <1>4, <1>5, <3>2, <4>1
    <3> QED BY <1>1, <3>1, <3>2
  <2> QED BY <2>1 DEF Eq
<1>7. Eq(h)
  BY <1>6 DEF h
<1>8. h[0] = base /\ \A k \in 1 .. n : h[k] = Op(h[k - 1], k)
  BY <1>1, <1>7 DEF Eq
<1>9. \A k \in 0 .. n : h[k] \in WordSeq
  <2> DEFINE T == {k \in 0 .. n : h[k] \in WordSeq}
  <2>1. 0 \in T
    BY <1>1, <1>8
  <2>2. ASSUME NEW k \in 1 .. n, k - 1 \in T PROVE k \in T
    <3>1. h[k] = Op(h[k - 1], k) /\ h[k - 1] \in WordSeq
      BY <1>8, <2>2
    <3>2. h[k] \in WordSeq /\ k \in 0 .. n
      BY <1>1, <1>2, <3>1
    <3> QED BY <3>2
  <2> HIDE DEF T
  <2>3. \A k \in 0 .. n : k \in T
    BY <1>1, <2>1, <2>2, UpTo
  <2> QED BY <2>3 DEF T
<1>10. h \in [0 .. n -> WordSeq]
  <2> DEFINE G(k) == IF k = 0 THEN base ELSE Op(h[k - 1], k)
  <2>1. h = [k \in 0 .. n |-> G(k)]
    BY <1>7 DEF Eq
  <2>2. \A k \in 0 .. n : G(k) = h[k]
    BY <2>1
  <2> HIDE DEF G
  <2> QED BY <1>9, <2>1, <2>2
<1> QED BY <1>3, <1>8, <1>10 DEF n, base, Op, FlushedBy
LEMMA FlushedType ==
  ASSUME NEW words \in Seq(WordType), NEW pks \in [Thread -> [Rank -> PacketType]], NEW t \in Rank
  PROVE  Flushed(words, pks, t) \in Seq(WordType)
<1>1. PICK c : FlushedBy(words, pks, t, c)
  BY FlushedSteps
<1>2. NumThreads \in 0 .. NumThreads
  BY Places
<1> QED BY <1>1, <1>2 DEF WordSeq, FlushedBy

\* The pieces of a long row.
PutBy(old, row, c) ==
  /\ c \in [0 .. NumRanks -> PutState] /\ c[0] = [start |-> 0, lists |-> old]
  /\ \A k \in 1 .. NumRanks : c[k] = PutPointers(c[k - 1], k - 1, row)
  /\ PutRow(old, row) = c[NumRanks].lists
LEMMA PutRowSteps ==
  ASSUME NEW old \in [Rank -> Seq(ListType)], NEW row \in ListType,
         \A d \in Rank : \A start \in 0 .. Len(row.tgts) - 1 :
           EndOfTarget(row.tgts, start, d) \in 0 .. Len(row.tgts)
  PROVE  \E c : PutBy(old, row, c)
<1> DEFINE n == NumRanks
           base == [start |-> 0, lists |-> old]
           Op(a, k) == PutPointers(a, k - 1, row)
           F == [k \in 1 .. n |-> [a \in PutState |-> Op(a, k)]]
           Eq(e) == e = [i \in 0 .. n |-> IF i = 0 THEN base ELSE Op(e[i - 1], i)]
           h == CHOOSE e : Eq(e)
<1>1. n \in Nat /\ base \in PutState
  BY Places DEF PutState
<1>2. \A a \in PutState, k \in 1 .. n : Op(a, k) \in PutState
  <2> SUFFICES ASSUME NEW a \in PutState, NEW k \in 1 .. n PROVE PutPointers(a, k - 1, row) \in PutState
    OBVIOUS
  <2>1. k - 1 \in Rank
    BY Places
  <2> QED BY <2>1, PutPointersType
<1>3. PutRow(old, row) = h[n].lists
  BY DEF PutRow
<1> HIDE DEF n, base, Op
<1>4. F \in [1 .. n -> [PutState -> PutState]] /\ \A k \in 1 .. n, a \in PutState : F[k][a] = Op(a, k)
  BY <1>2
<1> HIDE DEF F, Eq, h
<1>5. PICK g \in [0 .. n -> PutState] : g[0] = base /\ \A k \in 1 .. n : g[k] = F[k][g[k - 1]]
  <2>1. Stepwise(PutState, n, base, F)
    BY <1>1, <1>4 DEF Stepwise
  <2> QED BY <2>1, Recursion
<1>6. Eq(g)
  <2>1. \A k \in 0 .. n : g[k] = IF k = 0 THEN base ELSE Op(g[k - 1], k)
    <3> TAKE k \in 0 .. n
    <3>1. CASE k = 0
      BY <1>5, <3>1
    <3>2. CASE k \in 1 .. n
      <4>1. g[k - 1] \in PutState
        BY <1>1, <3>2
      <4> QED BY <1>4, <1>5, <3>2, <4>1
    <3> QED BY <1>1, <3>1, <3>2
  <2> QED BY <2>1 DEF Eq
<1>7. Eq(h)
  BY <1>6 DEF h
<1>8. h[0] = base /\ \A k \in 1 .. n : h[k] = Op(h[k - 1], k)
  BY <1>1, <1>7 DEF Eq
<1>9. \A k \in 0 .. n : h[k] \in PutState
  <2> DEFINE T == {k \in 0 .. n : h[k] \in PutState}
  <2>1. 0 \in T
    BY <1>1, <1>8
  <2>2. ASSUME NEW k \in 1 .. n, k - 1 \in T PROVE k \in T
    <3>1. h[k] = Op(h[k - 1], k) /\ h[k - 1] \in PutState
      BY <1>8, <2>2
    <3>2. h[k] \in PutState /\ k \in 0 .. n
      BY <1>1, <1>2, <3>1
    <3> QED BY <3>2
  <2> HIDE DEF T
  <2>3. \A k \in 0 .. n : k \in T
    BY <1>1, <2>1, <2>2, UpTo
  <2> QED BY <2>3 DEF T
<1>10. h \in [0 .. n -> PutState]
  <2> DEFINE G(k) == IF k = 0 THEN base ELSE Op(h[k - 1], k)
  <2>1. h = [k \in 0 .. n |-> G(k)]
    BY <1>7 DEF Eq
  <2>2. \A k \in 0 .. n : G(k) = h[k]
    BY <2>1
  <2> HIDE DEF G
  <2> QED BY <1>9, <2>1, <2>2
<1> QED BY <1>3, <1>8, <1>10 DEF n, base, Op, PutBy
LEMMA PutRowType ==
  ASSUME NEW old \in [Rank -> Seq(ListType)], NEW row \in ListType,
         \A d \in Rank : \A start \in 0 .. Len(row.tgts) - 1 :
           EndOfTarget(row.tgts, start, d) \in 0 .. Len(row.tgts)
  PROVE  PutRow(old, row) \in [Rank -> Seq(ListType)]
<1>1. PICK c : PutBy(old, row, c)
  BY PutRowSteps
<1>2. NumRanks \in 0 .. NumRanks
  BY Places
<1>3. c[NumRanks] \in PutState /\ PutRow(old, row) = c[NumRanks].lists
  BY <1>1, <1>2 DEF PutBy
<1> QED BY <1>3 DEF PutState

\* The interval of the bisection and where it is looked at next.
HalfState(n) == [lo : 0 .. n, hi : 0 .. n, next : 0 .. n - 1]

\* One round of it.
LEMMA HalveType ==
  ASSUME NEW seq \in Seq(Target), NEW d \in Rank, Len(seq) >= 1, NEW s \in HalfState(Len(seq))
  PROVE  Halve(seq, d, s) \in HalfState(Len(seq))
<1> DEFINE n  == Len(seq)
           lo == IF seq[s.next + 1].dest > d THEN s.lo ELSE s.next
           hi == IF seq[s.next + 1].dest > d THEN s.next ELSE s.hi
<1>1. n \in Nat /\ n >= 1 /\ s.lo \in 0 .. n /\ s.hi \in 0 .. n /\ s.next \in 0 .. n - 1
  BY DEF HalfState
<1>2. Halve(seq, d, s) = [lo |-> lo, hi |-> hi, next |-> (lo + hi) \div 2]
  BY DEF Halve
<1> HIDE DEF n
<1>3. lo \in 0 .. n /\ hi \in 0 .. n /\ lo + hi <= 2 * n - 1
  BY <1>1
<1> HIDE DEF lo, hi
<1>4. (lo + hi) \div 2 \in 0 .. n - 1
  BY <1>1, <1>3
<1> QED BY <1>2, <1>3, <1>4 DEF HalfState, n

\* Where it starts.
FirstHalf(seq, start, d) ==
  [lo |-> start, hi |-> Len(seq), next |-> Min({start + ((Len(seq) - start) \div (NumRanks - d)) * 2, Len(seq) - 1})]

\* The bisection stays within the row.
LEMMA EndOfTargetSteps ==
  ASSUME NEW seq \in Seq(Target), NEW d \in Rank, NEW start \in 0 .. Len(seq) - 1
  PROVE  \E c \in [0 .. Len(seq) -> HalfState(Len(seq))] :
           /\ c[0] = Halve(seq, d, FirstHalf(seq, start, d))
           /\ \A k \in 1 .. Len(seq) : c[k] = IF c[k - 1].lo < c[k - 1].next THEN Halve(seq, d, c[k - 1]) ELSE c[k - 1]
           /\ EndOfTarget(seq, start, d) = c[Len(seq)].hi
<1> DEFINE n == Len(seq)
           first == [lo |-> start, hi |-> n,
                     next |-> Min({start + ((n - start) \div (NumRanks - d)) * 2, n - 1})]
           base == Halve(seq, d, first)
           Op(a, k) == IF a.lo < a.next THEN Halve(seq, d, a) ELSE a
           F == [k \in 1 .. n |-> [a \in HalfState(Len(seq)) |-> Op(a, k)]]
           Eq(e) == e = [i \in 0 .. n |-> IF i = 0 THEN base ELSE Op(e[i - 1], i)]
           h == CHOOSE e : Eq(e)
<1>1. n \in Nat /\ base \in HalfState(Len(seq))
  <2>1. n \in Nat /\ n >= 1
    OBVIOUS
  <2>2. first \in HalfState(n)
    <3> DEFINE q == (n - start) \div (NumRanks - d)
               x == start + q * 2
    <3>1. NumRanks - d \in Nat \ {0} /\ n - start \in Nat
      BY Places, <2>1
    <3>2. q \in Nat
      BY <3>1
    <3> HIDE DEF n, q
    <3>3. x \in Nat /\ n - 1 \in Nat
      BY <2>1, <3>2
    <3> HIDE DEF x
    <3>4. Min({x, n - 1}) \in 0 .. n - 1
      BY <3>3, MinOfTwo
    <3>5. first = [lo |-> start, hi |-> n, next |-> Min({x, n - 1})] /\ start \in 0 .. n /\ n \in 0 .. n
      BY <2>1 DEF x, q, n
    <3> QED BY <3>4, <3>5 DEF HalfState
  <2> HIDE DEF first
  <2> QED BY <2>1, <2>2, HalveType
<1>2. \A a \in HalfState(Len(seq)), k \in 1 .. n : Op(a, k) \in HalfState(Len(seq))
  <2>1. Len(seq) >= 1
    OBVIOUS
  <2> QED BY <2>1, HalveType
<1>3. EndOfTarget(seq, start, d) = h[n].hi
  BY DEF EndOfTarget
<1> HIDE DEF n, base, Op
<1>4. F \in [1 .. n -> [HalfState(Len(seq)) -> HalfState(Len(seq))]] /\ \A k \in 1 .. n, a \in HalfState(Len(seq)) : F[k][a] = Op(a, k)
  BY <1>2
<1> HIDE DEF F, Eq, h
<1>5. PICK g \in [0 .. n -> HalfState(Len(seq))] : g[0] = base /\ \A k \in 1 .. n : g[k] = F[k][g[k - 1]]
  <2>1. Stepwise(HalfState(Len(seq)), n, base, F)
    BY <1>1, <1>4 DEF Stepwise
  <2> QED BY <2>1, Recursion
<1>6. Eq(g)
  <2>1. \A k \in 0 .. n : g[k] = IF k = 0 THEN base ELSE Op(g[k - 1], k)
    <3> TAKE k \in 0 .. n
    <3>1. CASE k = 0
      BY <1>5, <3>1
    <3>2. CASE k \in 1 .. n
      <4>1. g[k - 1] \in HalfState(Len(seq))
        BY <1>1, <3>2
      <4> QED BY <1>4, <1>5, <3>2, <4>1
    <3> QED BY <1>1, <3>1, <3>2
  <2> QED BY <2>1 DEF Eq
<1>7. Eq(h)
  BY <1>6 DEF h
<1>8. h[0] = base /\ \A k \in 1 .. n : h[k] = Op(h[k - 1], k)
  BY <1>1, <1>7 DEF Eq
<1>9. \A k \in 0 .. n : h[k] \in HalfState(Len(seq))
  <2> DEFINE T == {k \in 0 .. n : h[k] \in HalfState(Len(seq))}
  <2>1. 0 \in T
    BY <1>1, <1>8
  <2>2. ASSUME NEW k \in 1 .. n, k - 1 \in T PROVE k \in T
    <3>1. h[k] = Op(h[k - 1], k) /\ h[k - 1] \in HalfState(Len(seq))
      BY <1>8, <2>2
    <3>2. h[k] \in HalfState(Len(seq)) /\ k \in 0 .. n
      BY <1>1, <1>2, <3>1
    <3> QED BY <3>2
  <2> HIDE DEF T
  <2>3. \A k \in 0 .. n : k \in T
    BY <1>1, <2>1, <2>2, UpTo
  <2> QED BY <2>3 DEF T
<1>10. h \in [0 .. n -> HalfState(Len(seq))]
  <2> DEFINE G(k) == IF k = 0 THEN base ELSE Op(h[k - 1], k)
  <2>1. h = [k \in 0 .. n |-> G(k)]
    BY <1>7 DEF Eq
  <2>2. \A k \in 0 .. n : G(k) = h[k]
    BY <2>1
  <2> HIDE DEF G
  <2> QED BY <1>9, <2>1, <2>2
<1> QED BY <1>3, <1>8, <1>10 DEF n, base, Op, FirstHalf
LEMMA EndOfTargetType ==
  ASSUME NEW seq \in Seq(Target), NEW d \in Rank, NEW start \in 0 .. Len(seq) - 1
  PROVE  EndOfTarget(seq, start, d) \in 0 .. Len(seq)
<1> DEFINE n == Len(seq)
<1>1. PICK c \in [0 .. n -> HalfState(n)] : EndOfTarget(seq, start, d) = c[n].hi
  BY EndOfTargetSteps
<1>2. n \in 0 .. n
  OBVIOUS
<1> HIDE DEF n
<1>3. c[n] \in HalfState(n)
  BY <1>2
<1> QED BY <1>1, <1>3 DEF HalfState, n

-----------------------------------------------------------------------------
(* The fold *)

PcType == {"send", "count", "agree", "fill", "exchange", "done"}

\* What the threads of the ranks have put, while they put it.
PutType ==
  /\ frontier \in [Rank -> Seq(Row)]
  /\ \A r \in Rank : todo[r] \subseteq DOMAIN frontier[r]
  /\ todo = [r \in Rank |-> todo[r]]
  /\ packet \in [Rank -> [Thread -> [Rank -> PacketType]]]
  /\ stream \in [Rank -> [Rank -> Seq(WordType)]]
  /\ lists \in [Rank -> [Rank -> Seq(ListType)]]

\* What the rounds work on.
RoundType ==
  /\ pc \in [Rank -> PcType]
  /\ packets \in [Rank -> [Rank -> Nat]]
  /\ counts \in [Rank -> [Rank -> Nat]]
  /\ lengths \in [Rank -> [Rank -> Seq(Nat)]]
  /\ left \in [Rank -> [Rank -> Seq(Nat)]]
  /\ \A r, t \in Rank : Len(left[r][t]) = Len(lengths[r][t])
  /\ area = [r \in Rank |-> area[r]]

\* What was counted is what the packets and lists need that are still there,
\* until it is written, and then what was written.
CountsHold ==
  \A r \in Rank : \A t \in Rank :
    /\ pc[r] \in {"agree", "fill"} => counts[r][t] = Counted(packets[r][t], left[r][t])
    /\ pc[r] = "exchange" => area[r][t].words = counts[r][t]

FoldInv == PutType /\ RoundType /\ CountsHold /\ EndTogether

\* The rows a level starts with.
LEMMA RowsTyped == \A f \in Frontiers : f \in [Rank -> Seq(Row)]
BY TopDownFoldAssumption DEF Row, Target

\* It holds at first.
LEMMA FoldInvInit == FoldInit => FoldInv
<1> SUFFICES ASSUME FoldInit PROVE FoldInv
  OBVIOUS
<1>1. PutType
  <2>1. Empty \in PacketType
    BY DEF Empty, PacketType
  <2>2. <<>> \in Seq(WordType) /\ <<>> \in Seq(ListType)
    OBVIOUS
  <2>3. frontier \in [Rank -> Seq(Row)]
    BY RowsTyped DEF FoldInit
  <2>4. packet \in [Rank -> [Thread -> [Rank -> PacketType]]]
    BY <2>1 DEF FoldInit
  <2>5. stream \in [Rank -> [Rank -> Seq(WordType)]] /\ lists \in [Rank -> [Rank -> Seq(ListType)]]
    BY <2>2 DEF FoldInit
  <2>6. todo = [r \in Rank |-> todo[r]] /\ \A r \in Rank : todo[r] \subseteq DOMAIN frontier[r]
    BY DEF FoldInit
  <2> QED BY <2>3, <2>4, <2>5, <2>6 DEF PutType
<1>2. RoundType
  <2>1. <<>> \in Seq(Nat)
    OBVIOUS
  <2>2. lengths \in [Rank -> [Rank -> Seq(Nat)]] /\ left = lengths
    BY <2>1 DEF FoldInit
  <2>3. /\ pc \in [Rank -> PcType]
        /\ packets \in [Rank -> [Rank -> Nat]]
        /\ counts \in [Rank -> [Rank -> Nat]]
        /\ area = [r \in Rank |-> area[r]]
    BY DEF FoldInit, PcType
  <2> QED BY <2>2, <2>3 DEF RoundType
<1>3. \A r \in Rank : pc[r] = "send"
  BY DEF FoldInit
<1> QED BY <1>1, <1>2, <1>3 DEF FoldInv, CountsHold, EndTogether

\* A thread sends a row.
LEMMA SendRowInv ==
  ASSUME FoldInv, NEW r \in Rank, NEW h \in Thread, SendRow(r, h)
  PROVE  FoldInv'
<1>1. PICK i \in todo[r] : 
        LET row  == frontier[r][i]
            long == Len(row.tgts) - 1 > LongRow
            all  == SendWords([pk |-> packet[r][h], stream |-> stream[r]], row,
                              IF long THEN 1 ELSE Len(row.tgts))
        IN
        /\ pc[r] = "send"
        /\ todo' = [todo EXCEPT ![r] = @ \ {i}]
        /\ packet' = [packet EXCEPT ![r][h] = all.pk]
        /\ stream' = [stream EXCEPT ![r] = all.stream]
        /\ lists' = IF long THEN [lists EXCEPT ![r] = PutRow(@, [src |-> row.src, tgts |-> Tail(row.tgts)])] ELSE lists
        /\ UNCHANGED <<alltoallVars, frontier, heard>>
  BY DEF SendRow
<1> DEFINE row  == frontier[r][i]
           long == Len(row.tgts) - 1 > LongRow
           m    == IF long THEN 1 ELSE Len(row.tgts)
           acc  == [pk |-> packet[r][h], stream |-> stream[r]]
           all  == SendWords(acc, row, m)
           rest == [src |-> row.src, tgts |-> Tail(row.tgts)]
<1>2. /\ frontier \in [Rank -> Seq(Row)] /\ todo[r] \subseteq DOMAIN frontier[r]
      /\ packet \in [Rank -> [Thread -> [Rank -> PacketType]]]
      /\ stream \in [Rank -> [Rank -> Seq(WordType)]]
      /\ lists \in [Rank -> [Rank -> Seq(ListType)]]
  BY DEF FoldInv, PutType
<1>3. row \in Row
  BY <1>1, <1>2
<1>4. row.src \in Nat /\ row.tgts \in Seq(Target) /\ row.tgts # <<>>
  BY <1>3 DEF Row
<1>5. all \in SendState
  <2>1. acc \in SendState
    BY <1>2 DEF SendState
  <2>2. m \in 0 .. Len(row.tgts)
    BY <1>4
  <2> HIDE DEF acc, m, row
  <2> QED BY <1>3, <2>1, <2>2, SendWordsType
<1>6. PutRow(lists[r], rest) \in [Rank -> Seq(ListType)]
  <2>1. rest \in ListType
    <3>2. Tail(row.tgts) \in Seq(Target)
      BY <1>4
    <3> QED BY <1>4, <3>2 DEF ListType
  <2>2. rest.tgts \in Seq(Target) /\ lists[r] \in [Rank -> Seq(ListType)]
    BY <1>2, <2>1 DEF ListType
  <2> HIDE DEF rest
  <2>3. \A d \in Rank : \A start \in 0 .. Len(rest.tgts) - 1 :
          EndOfTarget(rest.tgts, start, d) \in 0 .. Len(rest.tgts)
    BY <2>2, EndOfTargetType
  <2> QED BY <2>1, <2>2, <2>3, PutRowType
<1>7. /\ frontier' = frontier
      /\ todo' = [todo EXCEPT ![r] = @ \ {i}]
      /\ packet' = [packet EXCEPT ![r][h] = all.pk]
      /\ stream' = [stream EXCEPT ![r] = all.stream]
      /\ lists' = [lists EXCEPT ![r] = PutRow(lists[r], rest)] \/ lists' = lists
  <2>1. lists' = IF long THEN [lists EXCEPT ![r] = PutRow(lists[r], rest)] ELSE lists
    BY <1>1
  <2> HIDE DEF long, rest
  <2> QED BY <1>1, <2>1 DEF long, rest
<1>8. UNCHANGED alltoallVars
  BY <1>1
<1> HIDE DEF all, rest, row
<1>9. PutType'
  <2>1. all.pk \in [Rank -> PacketType] /\ all.stream \in [Rank -> Seq(WordType)]
    BY <1>5 DEF SendState
  <2>2. packet' \in [Rank -> [Thread -> [Rank -> PacketType]]]
    BY <1>2, <1>7, <2>1
  <2>3. stream' \in [Rank -> [Rank -> Seq(WordType)]]
    BY <1>2, <1>7, <2>1
  <2>4. lists' \in [Rank -> [Rank -> Seq(ListType)]]
    BY <1>2, <1>6, <1>7
  <2>5. todo' = [q \in Rank |-> todo'[q]] /\ \A q \in Rank : todo'[q] \subseteq DOMAIN frontier'[q]
    BY <1>7 DEF FoldInv, PutType
  <2> QED BY <1>2, <1>7, <2>2, <2>3, <2>4, <2>5 DEF PutType
<1>10. (RoundType /\ CountsHold /\ EndTogether)'
  BY <1>8 DEF FoldInv, RoundType, CountsHold, EndTogether, alltoallVars
<1> QED BY <1>9, <1>10 DEF FoldInv

\* The packets go out and the rounds begin.
LEMMA FlushPacketsInv ==
  ASSUME FoldInv, NEW r \in Rank, FlushPackets(r)
  PROVE  FoldInv'
<1>1. /\ packet \in [Rank -> [Thread -> [Rank -> PacketType]]]
      /\ stream \in [Rank -> [Rank -> Seq(WordType)]]
      /\ lists \in [Rank -> [Rank -> Seq(ListType)]]
      /\ frontier \in [Rank -> Seq(Row)]
  BY DEF FoldInv, PutType
<1>2. /\ pc \in [Rank -> PcType]
      /\ packets \in [Rank -> [Rank -> Nat]]
      /\ counts \in [Rank -> [Rank -> Nat]]
      /\ lengths \in [Rank -> [Rank -> Seq(Nat)]]
      /\ left \in [Rank -> [Rank -> Seq(Nat)]]
  BY DEF FoldInv, RoundType
<1> DEFINE words == [t \in Rank |-> Flushed(stream[r][t], packet[r], t)]
           lens  == [t \in Rank |-> [b \in DOMAIN lists[r][t] |-> Len(lists[r][t][b].tgts)]]
           pks   == [h \in Thread |-> [t \in Rank |-> Sent(packet[r][h][t])]]
<1>3. /\ pc[r] = "send"
      /\ stream' = [stream EXCEPT ![r] = words]
      /\ packet' = [packet EXCEPT ![r] = pks]
      /\ packets' = [packets EXCEPT ![r] = [t \in Rank |-> Len(stream'[r][t])]]
      /\ lengths' = [lengths EXCEPT ![r] = lens]
      /\ left' = [left EXCEPT ![r] = lengths'[r]]
      /\ pc' = [pc EXCEPT ![r] = "count"]
      /\ UNCHANGED <<loop, counts, area, received, frontier, todo, lists, heard>>
  BY <1>1 DEF FlushPackets
<1>4. words \in [Rank -> Seq(WordType)]
  <2>1. packet[r] \in [Thread -> [Rank -> PacketType]] /\ \A t \in Rank : stream[r][t] \in Seq(WordType)
    BY <1>1
  <2>2. \A t \in Rank : Flushed(stream[r][t], packet[r], t) \in Seq(WordType)
    BY <2>1, FlushedType
  <2> QED BY <2>2
<1>5. lens \in [Rank -> Seq(Nat)]
  <2> SUFFICES ASSUME NEW t \in Rank PROVE [b \in DOMAIN lists[r][t] |-> Len(lists[r][t][b].tgts)] \in Seq(Nat)
    OBVIOUS
  <2> DEFINE l == lists[r][t]
  <2>1. l \in Seq(ListType)
    BY <1>1
  <2> HIDE DEF l
  <2>2. Len(l) \in Nat /\ DOMAIN l = 1 .. Len(l) /\ \A b \in 1 .. Len(l) : l[b] \in ListType
    BY <2>1
  <2>3. \A b \in 1 .. Len(l) : Len(l[b].tgts) \in Nat
    BY <2>2 DEF ListType
  <2>4. [b \in 1 .. Len(l) |-> Len(l[b].tgts)] \in Seq(Nat)
    BY <2>2, <2>3
  <2> QED BY <2>2, <2>4 DEF l
<1>6. pks \in [Thread -> [Rank -> PacketType]]
  BY DEF Sent, Empty, PacketType
<1> HIDE DEF words, lens, pks
<1>7. PutType'
  <2>1. stream' \in [Rank -> [Rank -> Seq(WordType)]] /\ packet' \in [Rank -> [Thread -> [Rank -> PacketType]]]
    BY <1>1, <1>3, <1>4, <1>6
  <2> QED BY <1>3, <2>1 DEF FoldInv, PutType
<1>8. RoundType'
  <2>1. stream'[r] = words
    BY <1>1, <1>3
  <2>2. [t \in Rank |-> Len(stream'[r][t])] \in [Rank -> Nat]
    BY <1>4, <2>1
  <2>3. packets' \in [Rank -> [Rank -> Nat]]
    BY <1>2, <1>3, <2>2
  <2>4. lengths' \in [Rank -> [Rank -> Seq(Nat)]] /\ lengths'[r] = lens
    BY <1>2, <1>3, <1>5
  <2>5. left' \in [Rank -> [Rank -> Seq(Nat)]] /\ left'[r] = lens
    BY <1>2, <1>3, <1>5, <2>4
  <2>6. \A s, t \in Rank : Len(left'[s][t]) = Len(lengths'[s][t])
    <3> SUFFICES ASSUME NEW s \in Rank, NEW t \in Rank PROVE Len(left'[s][t]) = Len(lengths'[s][t])
      OBVIOUS
    <3>1. CASE s = r
      BY <2>4, <2>5, <3>1
    <3>2. CASE s # r
      <4>1. left'[s] = left[s] /\ lengths'[s] = lengths[s]
        BY <1>2, <1>3, <3>2
      <4> QED BY <4>1 DEF FoldInv, RoundType
    <3> QED BY <3>1, <3>2
  <2>7. pc' \in [Rank -> PcType] /\ counts' \in [Rank -> [Rank -> Nat]] /\ area' = [q \in Rank |-> area'[q]]
    BY <1>2, <1>3 DEF PcType, FoldInv, RoundType
  <2> QED BY <2>3, <2>4, <2>5, <2>6, <2>7 DEF RoundType
<1>9. CountsHold'
  <2> SUFFICES ASSUME NEW s \in Rank, NEW t \in Rank
               PROVE  /\ pc'[s] \in {"agree", "fill"} => counts'[s][t] = Counted(packets'[s][t], left'[s][t])
                      /\ pc'[s] = "exchange" => area'[s][t].words = counts'[s][t]
    BY DEF CountsHold
  <2>1. CASE s = r
    BY <1>2, <1>3, <2>1
  <2>2. CASE s # r
    <3>1. pc'[s] = pc[s] /\ packets'[s] = packets[s] /\ left'[s] = left[s] /\ counts' = counts /\ area' = area
      BY <1>2, <1>3, <2>2
    <3> QED BY <3>1 DEF FoldInv, CountsHold
  <2> QED BY <2>1, <2>2
<1>10. EndTogether'
  <2>1. \A s \in Rank : pc'[s] # "done"
    BY <1>2, <1>3 DEF FoldInv, EndTogether
  <2> QED BY <2>1 DEF EndTogether
<1> QED BY <1>7, <1>8, <1>9, <1>10 DEF FoldInv

\* What the lemma on the passes says of the area of rank r for rank t.
LEMMA CountedArea ==
  ASSUME RoundType, NEW r \in Rank, NEW t \in Rank
  PROVE  LET f == Filled(packets[r][t], left[r][t], lengths[r][t]) IN
         /\ packets[r][t] \in Nat /\ left[r][t] \in Seq(Nat)
         /\ Counted(packets[r][t], left[r][t]) \in Nat
         /\ f.words = Counted(packets[r][t], left[r][t])
         /\ f.left \in Seq(Nat) /\ Len(f.left) = Len(lengths[r][t])
         /\ Counted(packets[r][t], left[r][t]) = 0 =>
              \A b \in DOMAIN left[r][t] : left[r][t][b] = 0
         /\ packets[r][t] <= MaxSize => Counted(packets[r][t], left[r][t]) <= MaxSize
<1> DEFINE p == packets[r][t]
           l == left[r][t]
           o == lengths[r][t]
<1>1. p \in Nat /\ l \in Seq(Nat) /\ o \in Seq(Nat) /\ Len(o) = Len(l)
  BY DEF RoundType
<1> HIDE DEF p, l, o
<1>2. /\ Counted(p, l) \in Nat
      /\ Filled(p, l, o).words = Counted(p, l)
      /\ Filled(p, l, o).left \in [1 .. Len(l) -> Nat]
      /\ Counted(p, l) = 0 => \A b \in 1 .. Len(l) : l[b] = 0
      /\ p <= MaxSize => Counted(p, l) <= MaxSize
  BY <1>1, AreaCounted
<1> DEFINE f == Filled(p, l, o)
<1>3. f.left \in Seq(Nat) /\ Len(f.left) = Len(l)
  <2> HIDE DEF f
  <2>1. Len(l) \in Nat /\ f.left \in [1 .. Len(l) -> Nat]
    BY <1>1, <1>2 DEF f
  <2> QED BY <2>1
<1>4. DOMAIN l = 1 .. Len(l)
  BY <1>1
<1> QED BY <1>1, <1>2, <1>3, <1>4 DEF p, l, o

\* Until all are done nobody is.
LEMMA NoneDone == FoldInv => \A r \in Rank : pc[r] # "done" => \A s \in Rank : pc[s] # "done"
BY DEF FoldInv, EndTogether

\* The first pass.
LEMMA CountInv ==
  ASSUME FoldInv, NEW r \in Rank, Count(r), UNCHANGED foldVars
  PROVE  FoldInv'
<1> DEFINE room == [t \in Rank |-> Counted(packets[r][t], left[r][t])]
<1>1. /\ pc[r] = "count"
      /\ counts' = [counts EXCEPT ![r] = room]
      /\ pc' = [pc EXCEPT ![r] = IF loop[r] > 0 THEN "agree" ELSE "fill"]
      /\ UNCHANGED <<lengths, loop, packets, left, area, received>>
  BY DEF Count
<1>2. pc \in [Rank -> PcType] /\ counts \in [Rank -> [Rank -> Nat]]
  BY DEF FoldInv, RoundType
<1>3. room \in [Rank -> Nat]
  BY CountedArea DEF FoldInv
<1>4. \A t \in Rank : room[t] = Counted(packets[r][t], left[r][t])
  OBVIOUS
<1> HIDE DEF room
<1>5. PutType'
  BY DEF FoldInv, PutType, foldVars
<1>6. RoundType'
  <2>1. counts' \in [Rank -> [Rank -> Nat]] /\ pc' \in [Rank -> PcType]
    BY <1>1, <1>2, <1>3 DEF PcType
  <2> QED BY <1>1, <2>1 DEF FoldInv, RoundType
<1>7. CountsHold'
  <2> SUFFICES ASSUME NEW s \in Rank, NEW t \in Rank
               PROVE  /\ pc'[s] \in {"agree", "fill"} => counts'[s][t] = Counted(packets'[s][t], left'[s][t])
                      /\ pc'[s] = "exchange" => area'[s][t].words = counts'[s][t]
    BY DEF CountsHold
  <2>1. CASE s = r
    BY <1>1, <1>2, <1>4, <2>1
  <2>2. CASE s # r
    <3>1. pc'[s] = pc[s] /\ packets'[s] = packets[s] /\ left'[s] = left[s] /\ counts'[s] = counts[s] /\ area' = area
      BY <1>1, <1>2, <2>2
    <3> QED BY <3>1 DEF FoldInv, CountsHold
  <2> QED BY <2>1, <2>2
<1>8. EndTogether'
  <2>1. \A s \in Rank : pc'[s] # "done"
    BY <1>1, <1>2, NoneDone
  <2> QED BY <2>1 DEF EndTogether
<1> QED BY <1>5, <1>6, <1>7, <1>8 DEF FoldInv

\* The reduction: when it ends the rounds, every area was counted
\* empty, by ranks whose lists have not changed since.
LEMMA AgreeInv ==
  ASSUME FoldInv, Agree, UNCHANGED foldVars
  PROVE  FoldInv'
<1>1. /\ \A r \in Rank : pc[r] = "agree"
      /\ pc' = [r \in Rank |-> IF \E s \in Rank : HasData(s) THEN "fill" ELSE "done"]
      /\ UNCHANGED <<lengths, loop, packets, left, counts, area, received>>
  BY DEF Agree
<1>2. PutType'
  BY DEF FoldInv, PutType, foldVars
<1>3. RoundType'
  <2>1. pc' \in [Rank -> PcType]
    BY <1>1 DEF PcType
  <2> QED BY <1>1, <2>1 DEF FoldInv, RoundType
<1>4. CountsHold'
  BY <1>1 DEF FoldInv, CountsHold
<1>5. EndTogether'
  <2>1. CASE \E s \in Rank : HasData(s)
    BY <1>1, <2>1 DEF EndTogether
  <2>2. CASE \A s \in Rank : ~ HasData(s)
    <3>1. ASSUME NEW s \in Rank, NEW t \in Rank PROVE \A b \in DOMAIN left[s][t] : left[s][t][b] = 0
      <4>1. counts[s][t] = Counted(packets[s][t], left[s][t]) /\ ~ (counts[s][t] > 0)
        BY <1>1, <2>2 DEF FoldInv, CountsHold, HasData
      <4>2. /\ Counted(packets[s][t], left[s][t]) \in Nat
            /\ Counted(packets[s][t], left[s][t]) = 0 => \A b \in DOMAIN left[s][t] : left[s][t][b] = 0
        BY CountedArea DEF FoldInv
      <4> QED BY <4>1, <4>2
    <3>2. \A s \in Rank : pc'[s] = "done"
      BY <1>1, <2>2
    <3> QED BY <1>1, <3>1, <3>2 DEF EndTogether
  <2> QED BY <2>1, <2>2
<1> QED BY <1>2, <1>3, <1>4, <1>5 DEF FoldInv

\* The second pass.
LEMMA FillInv ==
  ASSUME FoldInv, NEW r \in Rank, Fill(r), UNCHANGED foldVars
  PROVE  FoldInv'
<1> DEFINE f(t) == Filled(packets[r][t], left[r][t], lengths[r][t])
           out  == [t \in Rank |-> [words |-> f(t).words, pieces |-> f(t).pieces]]
           rest == [t \in Rank |-> f(t).left]
<1>1. /\ pc[r] = "fill"
      /\ area' = [area EXCEPT ![r] = out]
      /\ left' = [left EXCEPT ![r] = rest]
      /\ packets' = [packets EXCEPT ![r] = [t \in Rank |-> 0]]
      /\ pc' = [pc EXCEPT ![r] = "exchange"]
      /\ UNCHANGED <<lengths, loop, counts, received>>
  BY DEF Fill
<1>2. /\ pc \in [Rank -> PcType] /\ packets \in [Rank -> [Rank -> Nat]]
      /\ left \in [Rank -> [Rank -> Seq(Nat)]] /\ area = [s \in Rank |-> area[s]]
      /\ \A s, t \in Rank : Len(left[s][t]) = Len(lengths[s][t])
  BY DEF FoldInv, RoundType
<1>3. \A t \in Rank : /\ f(t).words = counts[r][t]
                      /\ f(t).left \in Seq(Nat) /\ Len(f(t).left) = Len(lengths[r][t])
  <2> TAKE t \in Rank
  <2>1. counts[r][t] = Counted(packets[r][t], left[r][t])
    BY <1>1 DEF FoldInv, CountsHold
  <2> QED BY <2>1, CountedArea DEF FoldInv
<1> HIDE DEF f
<1>4. \A t \in Rank : /\ out[t].words = counts[r][t]
                      /\ rest[t] \in Seq(Nat) /\ Len(rest[t]) = Len(lengths[r][t])
  BY <1>3
<1>5. rest \in [Rank -> Seq(Nat)]
  BY <1>3
<1> HIDE DEF out, rest
<1>6. PutType'
  BY DEF FoldInv, PutType, foldVars
<1>7. RoundType'
  <2>1. /\ pc' \in [Rank -> PcType] /\ packets' \in [Rank -> [Rank -> Nat]]
        /\ left' \in [Rank -> [Rank -> Seq(Nat)]] /\ area' = [s \in Rank |-> area'[s]]
    BY <1>1, <1>2, <1>5 DEF PcType
  <2>2. \A s, t \in Rank : Len(left'[s][t]) = Len(lengths'[s][t])
    <3> SUFFICES ASSUME NEW s \in Rank, NEW t \in Rank PROVE Len(left'[s][t]) = Len(lengths'[s][t])
      OBVIOUS
    <3>1. CASE s = r
      BY <1>1, <1>2, <1>4, <3>1
    <3>2. CASE s # r
      BY <1>1, <1>2, <3>2
    <3> QED BY <3>1, <3>2
  <2> QED BY <1>1, <2>1, <2>2 DEF FoldInv, RoundType
<1>8. CountsHold'
  <2> SUFFICES ASSUME NEW s \in Rank, NEW t \in Rank
               PROVE  /\ pc'[s] \in {"agree", "fill"} => counts'[s][t] = Counted(packets'[s][t], left'[s][t])
                      /\ pc'[s] = "exchange" => area'[s][t].words = counts'[s][t]
    BY DEF CountsHold
  <2>1. CASE s = r
    <3>1. pc'[s] = "exchange" /\ area'[s] = out /\ counts' = counts
      BY <1>1, <1>2, <2>1
    <3> QED BY <1>4, <2>1, <3>1
  <2>2. CASE s # r
    <3>1. pc'[s] = pc[s] /\ packets'[s] = packets[s] /\ left'[s] = left[s] /\ counts' = counts /\ area'[s] = area[s]
      BY <1>1, <1>2, <2>2
    <3> QED BY <3>1 DEF FoldInv, CountsHold
  <2> QED BY <2>1, <2>2
<1>9. EndTogether'
  <2>1. \A s \in Rank : pc'[s] # "done"
    BY <1>1, <1>2, NoneDone
  <2> QED BY <2>1 DEF EndTogether
<1> QED BY <1>6, <1>7, <1>8, <1>9 DEF FoldInv

\* The exchange.
LEMMA ExchangeInv ==
  ASSUME FoldInv, ExchangeAndReceive
  PROVE  FoldInv'
<1>1. /\ pc' = [r \in Rank |-> "count"]
      /\ UNCHANGED <<lengths, packets, left, counts, area>>
      /\ UNCHANGED <<frontier, todo, packet, stream, lists>>
  BY DEF ExchangeAndReceive, Exchange
<1>2. PutType'
  BY <1>1 DEF FoldInv, PutType
<1>3. RoundType'
  <2>1. pc' \in [Rank -> PcType]
    BY <1>1 DEF PcType
  <2> QED BY <1>1, <2>1 DEF FoldInv, RoundType
<1>4. CountsHold' /\ EndTogether'
  BY <1>1 DEF CountsHold, EndTogether
<1> QED BY <1>2, <1>3, <1>4 DEF FoldInv

\* Every step.
LEMMA FoldInvNext == FoldInv /\ [FoldNext]_allVars => FoldInv'
<1> SUFFICES ASSUME FoldInv, [FoldNext]_allVars PROVE FoldInv'
  OBVIOUS
<1>1. CASE UNCHANGED allVars
  BY <1>1 DEF allVars, alltoallVars, foldVars, FoldInv, PutType, RoundType, CountsHold, EndTogether
<1>2. CASE \E r \in Rank : (\E h \in Thread : SendRow(r, h)) \/ FlushPackets(r)
  BY <1>2, SendRowInv, FlushPacketsInv
<1>3. CASE (Agree \/ \E r \in Rank : Count(r) \/ Fill(r)) /\ UNCHANGED foldVars
  BY <1>3, AgreeInv, CountInv, FillInv
<1>4. CASE ExchangeAndReceive
  BY <1>4, ExchangeInv
<1> QED BY <1>1, <1>2, <1>3, <1>4 DEF FoldNext

\* The inductive invariant of the fold.
THEOREM FoldInvariance == FoldSpec => []FoldInv
BY FoldInvInit, FoldInvNext, PTL DEF FoldSpec

\* No rank leaves the rounds of run_with_ptr before all do, nor while an edge
\* list of any rank has words left.
THEOREM RoundsEndTogether == FoldSpec => []EndTogether
<1>1. FoldInv => EndTogether
  BY DEF FoldInv
<1> QED BY <1>1, FoldInvariance, PTL

\* The second pass of run_with_ptr writes the words that the first counted.
AreasWritten == \A r \in Rank : pc[r] = "exchange" => \A t \in Rank : area[r][t].words = counts[r][t]
\* It does, also if packets leave no room for a list.
THEOREM AreasAreWritten == FoldSpec => []AreasWritten
<1>1. FoldInv => AreasWritten
  BY DEF FoldInv, CountsHold, AreasWritten
<1> QED BY <1>1, FoldInvariance, PTL

\* What the code relies on without checking: the packets for a target fit
\* its area.
PacketsFit == \A r, t \in Rank : packets[r][t] <= MaxSize
\* Then no area is larger than its share of the buffer.
SmallCounts ==
  \A r \in Rank : pc[r] \in {"agree", "fill", "exchange"} => \A t \in Rank : counts[r][t] <= MaxSize

\* It stays so.
LEMMA SmallCountsNext == FoldInv /\ PacketsFit /\ SmallCounts /\ [FoldNext]_allVars => SmallCounts'
<1> SUFFICES ASSUME FoldInv, PacketsFit, SmallCounts, [FoldNext]_allVars PROVE SmallCounts'
  OBVIOUS
<1>0. pc \in [Rank -> PcType] /\ counts \in [Rank -> [Rank -> Nat]]
  BY DEF FoldInv, RoundType
<1>1. CASE UNCHANGED allVars
  BY <1>1 DEF allVars, alltoallVars, SmallCounts
<1>2. ASSUME NEW r \in Rank, NEW h \in Thread, SendRow(r, h) PROVE SmallCounts'
  <2>1. UNCHANGED alltoallVars
    BY <1>2 DEF SendRow
  <2> QED BY <2>1 DEF alltoallVars, SmallCounts
<1>3. ASSUME NEW r \in Rank, FlushPackets(r) PROVE SmallCounts'
  <2>1. pc' = [pc EXCEPT ![r] = "count"] /\ counts' = counts
    BY <1>3 DEF FlushPackets
  <2> QED BY <1>0, <2>1 DEF SmallCounts
<1>4. ASSUME Agree PROVE SmallCounts'
  BY <1>4 DEF Agree, SmallCounts
<1>5. ASSUME NEW r \in Rank, Count(r) PROVE SmallCounts'
  <2> DEFINE room == [t \in Rank |-> Counted(packets[r][t], left[r][t])]
  <2>1. counts' = [counts EXCEPT ![r] = room] /\ pc' = [pc EXCEPT ![r] = IF loop[r] > 0 THEN "agree" ELSE "fill"]
    BY <1>5 DEF Count
  <2>2. \A t \in Rank : room[t] <= MaxSize
    BY CountedArea DEF FoldInv, PacketsFit
  <2> HIDE DEF room
  <2> SUFFICES ASSUME NEW s \in Rank, pc'[s] \in {"agree", "fill", "exchange"}, NEW t \in Rank
               PROVE  counts'[s][t] <= MaxSize
    BY DEF SmallCounts
  <2>3. CASE s = r
    BY <1>0, <2>1, <2>2, <2>3
  <2>4. CASE s # r
    BY <1>0, <2>1, <2>4 DEF SmallCounts
  <2> QED BY <2>3, <2>4
<1>6. ASSUME NEW r \in Rank, Fill(r) PROVE SmallCounts'
  <2>1. pc[r] = "fill" /\ pc' = [pc EXCEPT ![r] = "exchange"] /\ counts' = counts
    BY <1>6 DEF Fill
  <2> QED BY <1>0, <2>1 DEF SmallCounts
<1>7. ASSUME ExchangeAndReceive PROVE SmallCounts'
  BY <1>7 DEF ExchangeAndReceive, Exchange, SmallCounts
<1> QED BY <1>1, <1>2, <1>3, <1>4, <1>5, <1>6, <1>7 DEF FoldNext

\* If the packets fit, areas are as large as counted, and no larger than
\* the share of the receive buffer that a rank has.
THEOREM AreasAreExact == FoldSpec /\ []PacketsFit => []AreasExact
<1>1. FoldInit => SmallCounts
  BY DEF FoldInit, SmallCounts
<1>2. FoldInv /\ SmallCounts => AreasExact
  BY DEF FoldInv, CountsHold, SmallCounts, AreasExact
<1> QED BY <1>1, <1>2, FoldInvariance, SmallCountsNext, PTL DEF FoldSpec

-----------------------------------------------------------------------------
(* Counting and adding *)

\* How often e occurs in a sequence, and the sum of the first n values of f.
Occ(s, e) == Cardinality({j \in DOMAIN s : s[j] = e})
Totals(f, n) == LET at[k \in 0 .. n] == IF k = 0 THEN 0 ELSE at[k - 1] + f[k] IN at
Total(f, n) == Totals(f, n)[n]

\* Sets of positions that differ by a shift.
Moved(A, B, m, n) ==
  /\ m \in Nat /\ n \in Nat /\ A \subseteq 1 .. n /\ B \subseteq m + 1 .. m + n
  /\ \A j \in 1 .. n : j \in A <=> m + j \in B
LEMMA ShiftedSet ==
  ASSUME NEW n, NEW m, NEW A, NEW B, Moved(A, B, m, n)
  PROVE  IsFiniteSet(A) /\ IsFiniteSet(B) /\ Cardinality(A) = Cardinality(B) /\ Cardinality(A) \in Nat
<1> USE DEF Moved
<1> DEFINE f == [j \in A |-> m + j]
<1>1. IsFiniteSet(1 .. n)
  BY FS_Interval
<1>2. IsFiniteSet(A)
  BY <1>1, FS_Subset
<1>3. \A j \in A : j \in Nat /\ m + j \in B
  OBVIOUS
<1>4. \A q \in B : \E j \in A : m + j = q
  <2> TAKE q \in B
  <2>1. q - m \in 1 .. n /\ m + (q - m) = q
    OBVIOUS
  <2> QED BY <2>1
<1>5. f \in Bijection(A, B)
  <2>1. f \in [A -> B]
    BY <1>3
  <2>2. \A i, j \in A : f[i] = f[j] => i = j
    BY <1>3
  <2>3. \A q \in B : \E j \in A : f[j] = q
    BY <1>4
  <2> HIDE DEF f
  <2>4. f \in Injection(A, B)
    BY <2>1, <2>2 DEF Injection, IsInjective
  <2>5. f \in Surjection(A, B)
    BY <2>1, <2>3 DEF Surjection
  <2> QED BY <2>4, <2>5 DEF Bijection
<1>6. ExistsBijection(A, B)
  BY <1>5 DEF ExistsBijection
<1> QED BY <1>2, <1>6, FS_Bijection, FS_CardinalityType

\* Two finite sets without a common member.
LEMMA DisjointSum ==
  ASSUME NEW S, NEW T, IsFiniteSet(S), IsFiniteSet(T), \A x \in S : x \notin T
  PROVE  /\ IsFiniteSet(S \cup T) /\ Cardinality(S \cup T) = Cardinality(S) + Cardinality(T)
         /\ Cardinality(S) \in Nat /\ Cardinality(T) \in Nat
<1>1. S \cap T = {}
  OBVIOUS
<1>2. Cardinality(S \cap T) = 0
  BY <1>1, FS_EmptySet
<1>3. Cardinality(S) \in Nat /\ Cardinality(T) \in Nat
  BY FS_CardinalityType
<1>4. IsFiniteSet(S \cup T) /\ Cardinality(S \cup T) = Cardinality(S) + Cardinality(T) - Cardinality(S \cap T)
  BY FS_Union
<1> QED BY <1>2, <1>3, <1>4

\* Positions in two sequences put one behind the other.
Adjoined(A, B, D, m, n) ==
  /\ m \in Nat /\ n \in Nat /\ A \subseteq 1 .. m /\ B \subseteq 1 .. n /\ D \subseteq 1 .. m + n
  /\ \A j \in 1 .. m : j \in A <=> j \in D
  /\ \A j \in 1 .. n : j \in B <=> m + j \in D
LEMMA JoinedSets ==
  ASSUME NEW n, NEW m, NEW A, NEW B, NEW D, Adjoined(A, B, D, m, n)
  PROVE  /\ Cardinality(D) = Cardinality(A) + Cardinality(B)
         /\ Cardinality(A) \in Nat /\ Cardinality(B) \in Nat
<1> USE DEF Adjoined
<1> DEFINE E == {q \in D : q > m}
<1>1. IsFiniteSet(A)
  <2>1. IsFiniteSet(1 .. m)
    BY FS_Interval
  <2> QED BY <2>1, FS_Subset
<1>2. E \in SUBSET (m + 1 .. m + n)
  <2> SUFFICES ASSUME NEW q \in D, q > m PROVE q \in m + 1 .. m + n
    OBVIOUS
  <2>1. q \in 1 .. m + n
    OBVIOUS
  <2> QED BY <2>1
<1>3. \A j \in 1 .. n : j \in B <=> m + j \in E
  <2> TAKE j \in 1 .. n
  <2>1. m + j > m
    OBVIOUS
  <2> QED BY <2>1
<1>4. D = A \cup E
  <2>1. \A q \in D : q \in 1 .. m + n /\ (q > m \/ q \in 1 .. m)
    <3> TAKE q \in D
    <3>1. q \in 1 .. m + n
      OBVIOUS
    <3> QED BY <3>1
  <2>2. \A q \in A : q \in D
    OBVIOUS
  <2> QED BY <2>1, <2>2
<1>5. \A x \in A : x \notin E
  <2> TAKE x \in A
  <2>1. x \in 1 .. m
    OBVIOUS
  <2> QED BY <2>1
<1> HIDE DEF E
<1>6. IsFiniteSet(E) /\ Cardinality(B) = Cardinality(E) /\ Cardinality(B) \in Nat
  <2>1. Moved(B, E, m, n)
    BY <1>2, <1>3 DEF Moved
  <2> QED BY <2>1, ShiftedSet
<1>7. Cardinality(A \cup E) = Cardinality(A) + Cardinality(E) /\ Cardinality(A) \in Nat
  BY <1>1, <1>5, <1>6, DisjointSum
<1> QED BY <1>4, <1>6, <1>7

\* Occurrences in a sequence are counted by a number.
LEMMA OccTyped ==
  ASSUME NEW X, NEW s \in Seq(X), NEW e
  PROVE  Occ(s, e) \in Nat
<1> DEFINE A == {j \in DOMAIN s : s[j] = e}
<1>1. Len(s) \in Nat /\ A \in SUBSET (1 .. Len(s))
  OBVIOUS
<1> HIDE DEF A
<1>2. IsFiniteSet(A)
  <2>1. IsFiniteSet(1 .. Len(s))
    BY <1>1, FS_Interval
  <2> QED BY <1>1, <2>1, FS_Subset
<1> QED BY <1>2, FS_CardinalityType DEF Occ, A

LEMMA OccEmpty ==
  ASSUME NEW e PROVE Occ(<<>>, e) = 0
<1>1. {j \in DOMAIN <<>> : <<>>[j] = e} = {}
  OBVIOUS
<1> QED BY <1>1, FS_EmptySet DEF Occ

LEMMA OccJoin ==
  ASSUME NEW X, NEW s \in Seq(X), NEW t \in Seq(X), NEW e
  PROVE  Occ(s \o t, e) = Occ(s, e) + Occ(t, e)
<1> DEFINE A == {j \in DOMAIN s : s[j] = e}
           B == {j \in DOMAIN t : t[j] = e}
           D == {j \in DOMAIN (s \o t) : (s \o t)[j] = e}
           m == Len(s)
           n == Len(t)
<1>1. m \in Nat /\ n \in Nat /\ A \in SUBSET (1 .. m) /\ B \in SUBSET (1 .. n) /\ D \in SUBSET (1 .. m + n)
  OBVIOUS
<1>2. \A j \in 1 .. m : j \in A <=> j \in D
  OBVIOUS
<1>3. \A j \in 1 .. n : j \in B <=> m + j \in D
  <2> TAKE j \in 1 .. n
  <2>1. m + j \in 1 .. m + n /\ m + j > m /\ (m + j) - m = j
    OBVIOUS
  <2>2. (s \o t)[m + j] = t[j]
    BY <2>1
  <2> QED BY <2>1, <2>2
<1> HIDE DEF A, B, D, m, n
<1>4. Cardinality(D) = Cardinality(A) + Cardinality(B)
  <2>1. Adjoined(A, B, D, m, n)
    BY <1>1, <1>2, <1>3 DEF Adjoined
  <2> QED BY <2>1, JoinedSets
<1> QED BY <1>4 DEF Occ, A, B, D

LEMMA OccOne ==
  ASSUME NEW x, NEW e
  PROVE  Occ(<<x>>, e) = IF x = e THEN 1 ELSE 0
<1> DEFINE A == {j \in DOMAIN <<x>> : <<x>>[j] = e}
<1>1. CASE x = e
  <2>1. A = {1}
    BY <1>1
  <2> QED BY <1>1, <2>1, FS_Singleton DEF Occ
<1>2. CASE x # e
  <2>1. A = {}
    BY <1>2
  <2> QED BY <1>2, <2>1, FS_EmptySet DEF Occ
<1> QED BY <1>1, <1>2

-----------------------------------------------------------------------------
\* The sums so far.
Numbers(f, n) == n \in Nat /\ \A k \in 1 .. n : f[k] \in Int
LEMMA TotalSteps ==
  ASSUME NEW f, NEW n, Numbers(f, n)
  PROVE  /\ Totals(f, n)[0] = 0
         /\ \A k \in 1 .. n : Totals(f, n)[k] = Totals(f, n)[k - 1] + f[k]
         /\ \A k \in 0 .. n : Totals(f, n)[k] \in Int
         /\ Total(f, n) = Totals(f, n)[n] /\ Total(f, n) \in Int
<1> DEFINE Op(a, k) == a + f[k]
           F == [k \in 1 .. n |-> [a \in Int |-> Op(a, k)]]
           Eq(e) == e = [k \in 0 .. n |-> IF k = 0 THEN 0 ELSE Op(e[k - 1], k)]
           h == CHOOSE e : Eq(e)
<1>1. n \in Nat /\ \A a \in Int, k \in 1 .. n : Op(a, k) \in Int
  BY DEF Numbers
<1>2. Totals(f, n) = h
  BY DEF Totals
<1> HIDE DEF Op
<1>3. F \in [1 .. n -> [Int -> Int]] /\ \A k \in 1 .. n, a \in Int : F[k][a] = Op(a, k)
  BY <1>1
<1> HIDE DEF F, Eq, h
<1>4. PICK g \in [0 .. n -> Int] : g[0] = 0 /\ \A k \in 1 .. n : g[k] = F[k][g[k - 1]]
  <2>1. Stepwise(Int, n, 0, F)
    BY <1>1, <1>3 DEF Stepwise
  <2> QED BY <2>1, Recursion
<1>5. Eq(g)
  <2>1. \A k \in 0 .. n : g[k] = IF k = 0 THEN 0 ELSE Op(g[k - 1], k)
    <3> TAKE k \in 0 .. n
    <3>1. CASE k = 0
      BY <1>4, <3>1
    <3>2. CASE k \in 1 .. n
      <4>1. g[k - 1] \in Int
        BY <1>1, <3>2
      <4> QED BY <1>3, <1>4, <3>2, <4>1
    <3> QED BY <1>1, <3>1, <3>2
  <2> QED BY <2>1 DEF Eq
<1>6. Eq(h)
  BY <1>5 DEF h
<1>7. h[0] = 0 /\ \A k \in 1 .. n : h[k] = Op(h[k - 1], k)
  <2>1. h = [k \in 0 .. n |-> IF k = 0 THEN 0 ELSE Op(h[k - 1], k)]
    BY <1>6 DEF Eq
  <2>2. 0 \in 0 .. n /\ \A k \in 1 .. n : k \in 0 .. n /\ k # 0
    BY <1>1
  <2>3. h[0] = 0
    BY <2>1, <2>2
  <2>4. \A k \in 1 .. n : h[k] = Op(h[k - 1], k)
    BY <2>1, <2>2
  <2> QED BY <2>3, <2>4
<1>8. \A k \in 0 .. n : h[k] \in Int
  <2> DEFINE T == {k \in 0 .. n : h[k] \in Int}
  <2>1. 0 \in T
    BY <1>1, <1>7
  <2>2. ASSUME NEW k \in 1 .. n, k - 1 \in T PROVE k \in T
    <3>1. h[k] = Op(h[k - 1], k) /\ h[k - 1] \in Int /\ k \in 0 .. n
      BY <1>1, <1>7, <2>2
    <3> QED BY <1>1, <3>1
  <2> HIDE DEF T
  <2>3. \A k \in 0 .. n : k \in T
    BY <1>1, <2>1, <2>2, UpTo
  <2> QED BY <2>3 DEF T
<1>9. h[n] \in Int
  BY <1>1, <1>8
<1> QED BY <1>2, <1>7, <1>8, <1>9 DEF Total, Op

\* Sums that agree up to a place.
LEMMA TotalsAgree ==
  ASSUME NEW f, NEW n, Numbers(f, n), NEW g, NEW m, Numbers(g, m),
         NEW p \in Nat, p <= n, p <= m, \A k \in 1 .. p : f[k] = g[k]
  PROVE  Totals(f, n)[p] = Totals(g, m)[p]
<1> DEFINE T == {k \in 0 .. p : Totals(f, n)[k] = Totals(g, m)[k]}
<1>1. n \in Nat /\ m \in Nat
  BY DEF Numbers
<1>2. 0 \in T
  BY TotalSteps
<1>3. ASSUME NEW k \in 1 .. p, k - 1 \in T PROVE k \in T
  <2>1. k \in 1 .. n /\ k \in 1 .. m /\ k \in 0 .. p
    BY <1>1
  <2>2. Totals(f, n)[k] = Totals(f, n)[k - 1] + f[k]
    BY <2>1, TotalSteps
  <2>3. Totals(g, m)[k] = Totals(g, m)[k - 1] + g[k]
    BY <2>1, TotalSteps
  <2> QED BY <1>3, <2>1, <2>2, <2>3
<1> HIDE DEF T
<1>4. \A k \in 0 .. p : k \in T
  BY <1>2, <1>3, UpTo
<1> QED BY <1>4 DEF T

LEMMA TotalSame ==
  ASSUME NEW f, NEW n, Numbers(f, n), NEW g, \A k \in 1 .. n : f[k] = g[k]
  PROVE  Total(f, n) = Total(g, n)
<1>1. n \in Nat /\ Numbers(g, n) /\ n <= n
  BY DEF Numbers
<1>2. Totals(f, n)[n] = Totals(g, n)[n]
  BY <1>1, TotalsAgree
<1> QED BY <1>2 DEF Total

LEMMA TotalNext ==
  ASSUME NEW f, NEW n, Numbers(f, n), NEW g, NEW m, m = n + 1, NEW x \in Int,
         \A k \in 1 .. n : f[k] = g[k], g[m] = x
  PROVE  Total(g, m) = Total(f, n) + x
<1>1. n \in Nat /\ m \in Nat /\ m \in 1 .. m /\ m - 1 = n /\ n <= m /\ n <= n
  BY DEF Numbers
<1>2. Numbers(g, m)
  <2>1. \A k \in 1 .. m : k \in 1 .. n \/ k = m
    BY <1>1
  <2>2. \A k \in 1 .. m : g[k] \in Int
    <3> TAKE k \in 1 .. m
    <3>1. CASE k = m
      BY <3>1
    <3>2. CASE k \in 1 .. n
      BY <3>2 DEF Numbers
    <3> QED BY <2>1, <3>1, <3>2
  <2> QED BY <1>1, <2>2 DEF Numbers
<1>3. Totals(g, m)[m] = Totals(g, m)[m - 1] + g[m]
  BY <1>1, <1>2, TotalSteps
<1>4. Totals(f, n)[n] = Totals(g, m)[n]
  BY <1>1, <1>2, TotalsAgree
<1> QED BY <1>1, <1>3, <1>4 DEF Total

LEMMA TotalSum ==
  ASSUME NEW f, NEW g, NEW h, NEW n, Numbers(f, n), Numbers(g, n), \A k \in 1 .. n : h[k] = f[k] + g[k]
  PROVE  /\ Total(h, n) = Total(f, n) + Total(g, n) /\ Numbers(h, n)
         /\ Total(f, n) \in Int /\ Total(g, n) \in Int
<1> DEFINE T == {k \in 0 .. n : Totals(h, n)[k] = Totals(f, n)[k] + Totals(g, n)[k]}
<1>1. n \in Nat /\ Numbers(h, n)
  BY DEF Numbers
<1>2. Totals(h, n)[0] = 0 /\ \A k \in 1 .. n : Totals(h, n)[k] = Totals(h, n)[k - 1] + h[k]
  BY <1>1, TotalSteps
<1>3. /\ Totals(f, n)[0] = 0 /\ \A k \in 1 .. n : Totals(f, n)[k] = Totals(f, n)[k - 1] + f[k]
      /\ \A k \in 0 .. n : Totals(f, n)[k] \in Int
  BY TotalSteps
<1>4. /\ Totals(g, n)[0] = 0 /\ \A k \in 1 .. n : Totals(g, n)[k] = Totals(g, n)[k - 1] + g[k]
      /\ \A k \in 0 .. n : Totals(g, n)[k] \in Int
  BY TotalSteps
<1>5. 0 \in T
  BY <1>1, <1>2, <1>3, <1>4
<1>6. ASSUME NEW k \in 1 .. n, k - 1 \in T PROVE k \in T
  <2> DEFINE a == Totals(f, n)[k - 1]
             b == Totals(g, n)[k - 1]
             c == Totals(h, n)[k - 1]
  <2>1. k - 1 \in 0 .. n /\ k \in 0 .. n
    BY <1>1
  <2>2. a \in Int /\ b \in Int /\ c = a + b /\ f[k] \in Int /\ g[k] \in Int /\ h[k] = f[k] + g[k]
    BY <1>3, <1>4, <1>6, <2>1 DEF Numbers
  <2>3. Totals(h, n)[k] = c + h[k] /\ Totals(f, n)[k] = a + f[k] /\ Totals(g, n)[k] = b + g[k]
    BY <1>2, <1>3, <1>4
  <2> HIDE DEF a, b, c
  <2> QED BY <2>1, <2>2, <2>3
<1> HIDE DEF T
<1>7. \A k \in 0 .. n : k \in T
  BY <1>1, <1>5, <1>6, UpTo
<1>8. n \in T
  BY <1>1, <1>7
<1> QED BY <1>1, <1>8, TotalSteps DEF T, Total

\* One number of the sum changes.
LEMMA TotalChange ==
  ASSUME NEW f, NEW n, Numbers(f, n), NEW g, NEW i \in 1 .. n, NEW x \in Int, g[i] = f[i] + x,
         \A k \in 1 .. n : k # i => g[k] = f[k]
  PROVE  Total(g, n) = Total(f, n) + x /\ Numbers(g, n) /\ Total(f, n) \in Int
<1> DEFINE T == {k \in 0 .. n : Totals(g, n)[k] = Totals(f, n)[k] + IF k < i THEN 0 ELSE x}
<1>1. n \in Nat /\ Numbers(g, n)
  BY DEF Numbers
<1>2. Totals(g, n)[0] = 0 /\ \A k \in 1 .. n : Totals(g, n)[k] = Totals(g, n)[k - 1] + g[k]
  BY <1>1, TotalSteps
<1>3. /\ Totals(f, n)[0] = 0 /\ \A k \in 1 .. n : Totals(f, n)[k] = Totals(f, n)[k - 1] + f[k]
      /\ \A k \in 0 .. n : Totals(f, n)[k] \in Int
  BY TotalSteps
<1>4. 0 \in T
  BY <1>1, <1>2, <1>3
<1>5. ASSUME NEW k \in 1 .. n, k - 1 \in T PROVE k \in T
  <2> DEFINE a == Totals(f, n)[k - 1]
             c == Totals(g, n)[k - 1]
             y == f[k]
             z == g[k]
             u == Totals(f, n)[k]
             v == Totals(g, n)[k]
  <2>1. k - 1 \in 0 .. n /\ k \in 0 .. n
    BY <1>1
  <2>2. a \in Int /\ y \in Int /\ c = a + (IF k - 1 < i THEN 0 ELSE x) /\ z = (IF k = i THEN y + x ELSE y)
    BY <1>3, <1>5, <2>1 DEF Numbers
  <2>3. v = c + z /\ u = a + y
    BY <1>2, <1>3
  <2> HIDE DEF a, c, y, z, u, v
  <2>4. v = u + IF k < i THEN 0 ELSE x
    BY <2>2, <2>3
  <2> QED BY <2>1, <2>4 DEF u, v
<1> HIDE DEF T
<1>6. \A k \in 0 .. n : k \in T
  BY <1>1, <1>4, <1>5, UpTo
<1>7. n \in T /\ ~ (n < i)
  BY <1>1, <1>6
<1> QED BY <1>1, <1>7, TotalSteps DEF T, Total

LEMMA TotalZero ==
  ASSUME NEW f, NEW n \in Nat, \A k \in 1 .. n : f[k] = 0
  PROVE  Total(f, n) = 0 /\ Numbers(f, n)
<1>1. Numbers(f, n)
  BY DEF Numbers
<1> DEFINE T == {k \in 0 .. n : Totals(f, n)[k] = 0}
<1>2. 0 \in T /\ \A k \in 1 .. n : k - 1 \in T => k \in T
  BY <1>1, TotalSteps
<1> HIDE DEF T
<1>3. \A k \in 0 .. n : k \in T
  BY <1>2, UpTo
<1> QED BY <1>1, <1>3, TotalSteps DEF T

-----------------------------------------------------------------------------
(* How a stream of words is read *)

\* What a receiver keeps from word to word.
WordIn    == [kind : {"high", "low", "tgt", "list", "len"}, val : Nat]
Edge      == Int \X Nat
RowIn     == [src : Int, tgts : Seq(Nat)]
ReadState == [place : {"first", "low", "list low", "len", "list"}, src : Int, len : Nat,
              list : Seq(Nat), edges : Seq(Edge), rows : Seq(RowIn)]
Fresh     == [place |-> "first", src |-> -1, len |-> 0, list |-> <<>>, edges |-> <<>>, rows |-> <<>>]
\* It has no edge or list half read.
Ready     == {z \in ReadState : z.place = "first" /\ z.list = <<>>}

LEMMA FreshReady == Fresh \in Ready /\ \A words : Parse(words) = ReadAll(Fresh, words)
BY DEF Fresh, Ready, ReadState, Parse

\* What a state consists of.
LEMMA StateParts ==
  ASSUME NEW z \in ReadState
  PROVE  /\ z.place \in {"first", "low", "list low", "len", "list"} /\ z.src \in Int /\ z.len \in Nat
         /\ z.list \in Seq(Nat) /\ z.edges \in Seq(Edge) /\ z.rows \in Seq(RowIn)
         /\ z = [place |-> z.place, src |-> z.src, len |-> z.len, list |-> z.list, edges |-> z.edges, rows |-> z.rows]
BY DEF ReadState

LEMMA AppendTyped ==
  ASSUME NEW X, NEW s \in Seq(X), NEW x \in X
  PROVE  Append(s, x) \in Seq(X) /\ Len(Append(s, x)) = Len(s) + 1
OBVIOUS
LEMMA JoinTyped ==
  ASSUME NEW X, NEW s \in Seq(X), NEW t \in Seq(X)
  PROVE  s \o t \in Seq(X) /\ Len(s \o t) = Len(s) + Len(t)
OBVIOUS
LEMMA StateTyped ==
  ASSUME NEW p \in {"first", "low", "list low", "len", "list"}, NEW s \in Int, NEW n \in Nat,
         NEW l \in Seq(Nat), NEW e \in Seq(Edge), NEW r \in Seq(RowIn)
  PROVE  [place |-> p, src |-> s, len |-> n, list |-> l, edges |-> e, rows |-> r] \in ReadState
BY DEF ReadState

\* The edges of a list.
Spread(src, lst, n) == [j \in 1 .. n |-> <<src, lst[j]>>]
LEMMA SpreadTyped ==
  ASSUME NEW src \in Int, NEW lst \in Seq(Nat), NEW n \in Nat, n <= Len(lst)
  PROVE  Spread(src, lst, n) \in Seq(Edge) /\ Len(Spread(src, lst, n)) = n
<1>1. \A j \in 1 .. n : j \in 1 .. Len(lst)
  OBVIOUS
<1>2. \A j \in 1 .. n : <<src, lst[j]>> \in Edge
  BY <1>1 DEF Edge
<1>3. Spread(src, lst, n) \in [1 .. n -> Edge]
  BY <1>2 DEF Spread
<1> QED BY <1>3

\* A list that is complete, and one that is not.
LEMMA ListReadExact ==
  ASSUME NEW z \in ReadState
  PROVE  /\ Len(z.list) < z.len => ListRead(z) = z
         /\ ~ (Len(z.list) < z.len) =>
              ListRead(z) = [place |-> "first", src |-> z.src, len |-> z.len, list |-> <<>>,
                             edges |-> IF z.len < Pending THEN z.edges \o Spread(z.src, z.list, z.len) ELSE z.edges,
                             rows |-> IF z.len < Pending THEN z.rows
                                      ELSE Append(z.rows, [src |-> z.src, tgts |-> z.list])]
<1>1. z = [place |-> z.place, src |-> z.src, len |-> z.len, list |-> z.list, edges |-> z.edges, rows |-> z.rows]
  BY StateParts
<1>2. CASE Len(z.list) < z.len
  BY <1>2 DEF ListRead
<1>3. CASE ~ (Len(z.list) < z.len) /\ z.len < Pending
  BY <1>1, <1>3 DEF ListRead, Spread
<1>4. CASE ~ (Len(z.list) < z.len) /\ ~ (z.len < Pending)
  BY <1>1, <1>4 DEF ListRead
<1> QED BY <1>2, <1>3, <1>4

LEMMA ListReadTyped ==
  ASSUME NEW z \in ReadState
  PROVE  ListRead(z) \in ReadState
<1>0. /\ z.src \in Int /\ z.len \in Nat
      /\ z.list \in Seq(Nat) /\ z.edges \in Seq(Edge) /\ z.rows \in Seq(RowIn)
  BY StateParts
<1>1. CASE Len(z.list) < z.len
  BY <1>1, ListReadExact
<1>2. CASE ~ (Len(z.list) < z.len)
  <2> DEFINE s == Spread(z.src, z.list, z.len)
             row == [src |-> z.src, tgts |-> z.list]
             es == IF z.len < Pending THEN z.edges \o s ELSE z.edges
             rs == IF z.len < Pending THEN z.rows ELSE Append(z.rows, row)
  <2>1. s \in Seq(Edge)
    <3> DEFINE l == z.list
               n == z.len
    <3>1. l \in Seq(Nat) /\ n \in Nat /\ ~ (Len(l) < n)
      BY <1>0, <1>2
    <3> HIDE DEF l, n
    <3>2. Len(l) \in Nat
      BY <3>1
    <3>3. n <= Len(l)
      BY <3>1, <3>2
    <3>4. Spread(z.src, l, n) \in Seq(Edge)
      BY <1>0, <3>1, <3>3, SpreadTyped
    <3> QED BY <3>4 DEF l, n
  <2>2. row \in RowIn
    BY <1>0 DEF RowIn
  <2> HIDE DEF s, row
  <2>3. es \in Seq(Edge)
    BY <1>0, <2>1, JoinTyped
  <2>4. rs \in Seq(RowIn)
    BY <1>0, <2>2, AppendTyped
  <2>5. ListRead(z) = [place |-> "first", src |-> z.src, len |-> z.len, list |-> <<>>, edges |-> es, rows |-> rs]
    BY <1>2, ListReadExact DEF s, row
  <2>6. <<>> \in Seq(Nat)
    OBVIOUS
  <2> HIDE DEF es, rs
  <2>7. z.src \in Int /\ z.len \in Nat
    BY <1>0
  <2>8. [place |-> "first", src |-> z.src, len |-> z.len, list |-> <<>>, edges |-> es, rows |-> rs] \in ReadState
    BY <2>3, <2>4, <2>6, <2>7, StateTyped
  <2> QED BY <2>5, <2>8
<1> QED BY <1>1, <1>2

\* One word.
LEMMA ReadWordExact ==
  ASSUME NEW z \in ReadState, NEW w \in WordIn
  PROVE  /\ z.place = "first" /\ w.kind = "high" =>
              ReadWord(z, w) = [place |-> "low", src |-> w.val, len |-> z.len, list |-> z.list, edges |-> z.edges, rows |-> z.rows]
         /\ z.place = "first" /\ w.kind = "list" =>
              ReadWord(z, w) = [place |-> "list low", src |-> w.val, len |-> z.len, list |-> z.list, edges |-> z.edges, rows |-> z.rows]
         /\ z.place = "first" /\ w.kind \notin {"high", "list"} =>
              ReadWord(z, w) = [place |-> z.place, src |-> z.src, len |-> z.len, list |-> z.list, edges |-> Append(z.edges, <<z.src, w.val>>), rows |-> z.rows]
         /\ z.place = "low" =>
              ReadWord(z, w) = [place |-> "first", src |-> z.src, len |-> z.len, list |-> z.list, edges |-> z.edges, rows |-> z.rows]
         /\ z.place = "list low" =>
              ReadWord(z, w) = [place |-> "len", src |-> z.src, len |-> z.len, list |-> z.list, edges |-> z.edges, rows |-> z.rows]
         /\ z.place = "len" =>
              ReadWord(z, w) = ListRead([place |-> "list", src |-> z.src, len |-> w.val, list |-> z.list, edges |-> z.edges, rows |-> z.rows])
         /\ z.place = "list" =>
              ReadWord(z, w) = ListRead([place |-> z.place, src |-> z.src, len |-> z.len, list |-> Append(z.list, w.val), edges |-> z.edges, rows |-> z.rows])
<1>0. z = [place |-> z.place, src |-> z.src, len |-> z.len, list |-> z.list, edges |-> z.edges, rows |-> z.rows]
  BY StateParts
<1>1. z.place = "first" /\ w.kind = "high" =>
        ReadWord(z, w) = [place |-> "low", src |-> w.val, len |-> z.len, list |-> z.list, edges |-> z.edges, rows |-> z.rows]
  BY <1>0 DEF ReadWord
<1>2. z.place = "first" /\ w.kind = "list" =>
        ReadWord(z, w) = [place |-> "list low", src |-> w.val, len |-> z.len, list |-> z.list, edges |-> z.edges, rows |-> z.rows]
  BY <1>0 DEF ReadWord
<1>3. z.place = "first" /\ w.kind \notin {"high", "list"} =>
        ReadWord(z, w) = [place |-> z.place, src |-> z.src, len |-> z.len, list |-> z.list, edges |-> Append(z.edges, <<z.src, w.val>>), rows |-> z.rows]
  <2> SUFFICES ASSUME z.place = "first", w.kind \notin {"high", "list"}
               PROVE  ReadWord(z, w) = [place |-> z.place, src |-> z.src, len |-> z.len, list |-> z.list,
                                        edges |-> Append(z.edges, <<z.src, w.val>>), rows |-> z.rows]
    OBVIOUS
  <2>1. ReadWord(z, w) = [z EXCEPT !.edges = Append(z.edges, <<z.src, w.val>>)]
    BY DEF ReadWord
  <2> DEFINE es == Append(z.edges, <<z.src, w.val>>)
  <2> HIDE DEF es
  <2>2. [z EXCEPT !.edges = es] = [place |-> z.place, src |-> z.src, len |-> z.len, list |-> z.list, edges |-> es, rows |-> z.rows]
    BY <1>0
  <2> QED BY <2>1, <2>2 DEF es
<1>4. z.place = "low" =>
        ReadWord(z, w) = [place |-> "first", src |-> z.src, len |-> z.len, list |-> z.list, edges |-> z.edges, rows |-> z.rows]
  BY <1>0 DEF ReadWord
<1>5. z.place = "list low" =>
        ReadWord(z, w) = [place |-> "len", src |-> z.src, len |-> z.len, list |-> z.list, edges |-> z.edges, rows |-> z.rows]
  BY <1>0 DEF ReadWord
<1>6. z.place = "len" =>
        ReadWord(z, w) = ListRead([place |-> "list", src |-> z.src, len |-> w.val, list |-> z.list, edges |-> z.edges, rows |-> z.rows])
  <2>1. z.place = "len" => ReadWord(z, w) = ListRead([z EXCEPT !.len = w.val, !.place = "list"])
    BY DEF ReadWord
  <2> DEFINE v == w.val
             y == [z EXCEPT !.len = v]
  <2> HIDE DEF v
  <2>2. y = [place |-> z.place, src |-> z.src, len |-> v, list |-> z.list, edges |-> z.edges, rows |-> z.rows]
    BY <1>0
  <2> HIDE DEF y
  <2>3. [y EXCEPT !.place = "list"] =
          [place |-> "list", src |-> z.src, len |-> v, list |-> z.list, edges |-> z.edges, rows |-> z.rows]
    BY <2>2
  <2> QED BY <2>1, <2>3 DEF v, y
<1>7. z.place = "list" =>
        ReadWord(z, w) = ListRead([place |-> z.place, src |-> z.src, len |-> z.len, list |-> Append(z.list, w.val), edges |-> z.edges, rows |-> z.rows])
  <2>1. z.place = "list" => ReadWord(z, w) = ListRead([z EXCEPT !.list = Append(@, w.val)])
    BY DEF ReadWord
  <2> DEFINE l == Append(z.list, w.val)
  <2>2. [z EXCEPT !.list = Append(@, w.val)] = [z EXCEPT !.list = l]
    OBVIOUS
  <2> HIDE DEF l
  <2>3. [z EXCEPT !.list = l] =
          [place |-> z.place, src |-> z.src, len |-> z.len, list |-> l, edges |-> z.edges, rows |-> z.rows]
    BY <1>0
  <2> QED BY <2>1, <2>2, <2>3 DEF l
<1> QED BY <1>1, <1>2, <1>3, <1>4, <1>5, <1>6, <1>7

LEMMA ReadWordTyped ==
  ASSUME NEW z \in ReadState, NEW w \in WordIn
  PROVE  ReadWord(z, w) \in ReadState
<1>1. w.val \in Nat /\ w.val \in Int
  BY DEF WordIn
<1>2. z.place \in {"first", "low", "list low", "len", "list"} /\ z.src \in Int /\ z.len \in Nat
  BY StateParts
<1>3. z.list \in Seq(Nat) /\ z.edges \in Seq(Edge) /\ z.rows \in Seq(RowIn)
  BY StateParts
<1>4. Append(z.list, w.val) \in Seq(Nat)
  BY <1>1, <1>3, AppendTyped
<1>5. Append(z.edges, <<z.src, w.val>>) \in Seq(Edge)
  <2>1. <<z.src, w.val>> \in Edge
    BY <1>1, <1>2 DEF Edge
  <2> QED BY <1>3, <2>1, AppendTyped
<1>6. CASE z.place = "first" /\ w.kind = "high"
  <2>1. [place |-> "low", src |-> w.val, len |-> z.len, list |-> z.list, edges |-> z.edges, rows |-> z.rows] \in ReadState
    BY <1>1, <1>2, <1>3, <1>4, <1>5, <1>6, StateTyped
  <2> QED BY <1>6, <2>1, ReadWordExact
<1>7. CASE z.place = "first" /\ w.kind = "list"
  <2>1. [place |-> "list low", src |-> w.val, len |-> z.len, list |-> z.list, edges |-> z.edges, rows |-> z.rows] \in ReadState
    BY <1>1, <1>2, <1>3, <1>4, <1>5, <1>7, StateTyped
  <2> QED BY <1>7, <2>1, ReadWordExact
<1>8. CASE z.place = "first" /\ w.kind \notin {"high", "list"}
  <2>1. [place |-> z.place, src |-> z.src, len |-> z.len, list |-> z.list, edges |-> Append(z.edges, <<z.src, w.val>>), rows |-> z.rows] \in ReadState
    BY <1>1, <1>2, <1>3, <1>4, <1>5, <1>8, StateTyped
  <2> QED BY <1>8, <2>1, ReadWordExact
<1>9. CASE z.place = "low"
  <2>1. [place |-> "first", src |-> z.src, len |-> z.len, list |-> z.list, edges |-> z.edges, rows |-> z.rows] \in ReadState
    BY <1>1, <1>2, <1>3, <1>4, <1>5, <1>9, StateTyped
  <2> QED BY <1>9, <2>1, ReadWordExact
<1>10. CASE z.place = "list low"
  <2>1. [place |-> "len", src |-> z.src, len |-> z.len, list |-> z.list, edges |-> z.edges, rows |-> z.rows] \in ReadState
    BY <1>1, <1>2, <1>3, <1>4, <1>5, <1>10, StateTyped
  <2> QED BY <1>10, <2>1, ReadWordExact
<1>11. CASE z.place = "len"
  <2>1. [place |-> "list", src |-> z.src, len |-> w.val, list |-> z.list, edges |-> z.edges, rows |-> z.rows] \in ReadState
    BY <1>1, <1>2, <1>3, <1>4, <1>5, <1>11, StateTyped
  <2> QED BY <1>11, <2>1, ReadWordExact, ListReadTyped
<1>12. CASE z.place = "list"
  <2>1. [place |-> z.place, src |-> z.src, len |-> z.len, list |-> Append(z.list, w.val), edges |-> z.edges, rows |-> z.rows] \in ReadState
    BY <1>1, <1>2, <1>3, <1>4, <1>5, <1>12, StateTyped
  <2> QED BY <1>12, <2>1, ReadWordExact, ListReadTyped
<1> QED BY <1>2, <1>6, <1>7, <1>8, <1>9, <1>10, <1>11, <1>12

\* Word by word.
LEMMA ReadSteps ==
  ASSUME NEW z \in ReadState, NEW words \in Seq(WordIn)
  PROVE  \E c \in [0 .. Len(words) -> ReadState] :
           /\ c[0] = z /\ \A k \in 1 .. Len(words) : c[k] = ReadWord(c[k - 1], words[k])
           /\ ReadAll(z, words) = c[Len(words)]
<1> DEFINE n == Len(words)
           Op(a, k) == ReadWord(a, words[k])
           F == [k \in 1 .. n |-> [a \in ReadState |-> Op(a, k)]]
           Eq(e) == e = [k \in 0 .. n |-> IF k = 0 THEN z ELSE Op(e[k - 1], k)]
           h == CHOOSE e : Eq(e)
<1>1. n \in Nat /\ \A k \in 1 .. n : words[k] \in WordIn
  OBVIOUS
<1>2. \A a \in ReadState, k \in 1 .. n : Op(a, k) \in ReadState
  <2> HIDE DEF n
  <2> QED BY <1>1, ReadWordTyped
<1>3. ReadAll(z, words) = h[n]
  BY DEF ReadAll
<1> HIDE DEF n, Op
<1>4. F \in [1 .. n -> [ReadState -> ReadState]] /\ \A k \in 1 .. n, a \in ReadState : F[k][a] = Op(a, k)
  BY <1>2
<1> HIDE DEF F, Eq, h
<1>5. PICK g \in [0 .. n -> ReadState] : g[0] = z /\ \A k \in 1 .. n : g[k] = F[k][g[k - 1]]
  <2>1. Stepwise(ReadState, n, z, F)
    BY <1>1, <1>4 DEF Stepwise
  <2> QED BY <2>1, Recursion
<1>6. Eq(g)
  <2>1. \A k \in 0 .. n : g[k] = IF k = 0 THEN z ELSE Op(g[k - 1], k)
    <3> TAKE k \in 0 .. n
    <3>1. CASE k = 0
      BY <1>5, <3>1
    <3>2. CASE k \in 1 .. n
      <4>1. g[k - 1] \in ReadState
        BY <1>1, <3>2
      <4> QED BY <1>4, <1>5, <3>2, <4>1
    <3> QED BY <1>1, <3>1, <3>2
  <2> QED BY <2>1 DEF Eq
<1>7. Eq(h)
  BY <1>6 DEF h
<1>8. h = [k \in 0 .. n |-> IF k = 0 THEN z ELSE Op(h[k - 1], k)]
  BY <1>7 DEF Eq
<1>9. h[0] = z /\ \A k \in 1 .. n : h[k] = Op(h[k - 1], k)
  <2>1. 0 \in 0 .. n /\ \A k \in 1 .. n : k \in 0 .. n /\ k # 0
    BY <1>1
  <2>2. h[0] = z
    BY <1>8, <2>1
  <2>3. \A k \in 1 .. n : h[k] = Op(h[k - 1], k)
    BY <1>8, <2>1
  <2> QED BY <2>2, <2>3
<1>10. \A k \in 0 .. n : h[k] \in ReadState
  <2> DEFINE T == {k \in 0 .. n : h[k] \in ReadState}
  <2>1. 0 \in T
    BY <1>1, <1>9
  <2>2. ASSUME NEW k \in 1 .. n, k - 1 \in T PROVE k \in T
    <3>1. h[k] = Op(h[k - 1], k) /\ h[k - 1] \in ReadState /\ k \in 0 .. n
      BY <1>1, <1>9, <2>2
    <3> QED BY <1>2, <3>1
  <2> HIDE DEF T
  <2>3. \A k \in 0 .. n : k \in T
    BY <1>1, <2>1, <2>2, UpTo
  <2> QED BY <2>3 DEF T
<1>11. h \in [0 .. n -> ReadState]
  <2> DEFINE G(k) == IF k = 0 THEN z ELSE Op(h[k - 1], k)
  <2>1. h = [k \in 0 .. n |-> G(k)]
    BY <1>8
  <2>2. \A k \in 0 .. n : G(k) = h[k]
    BY <1>8
  <2> HIDE DEF G
  <2> QED BY <1>10, <2>1, <2>2
<1> QED BY <1>3, <1>9, <1>11 DEF n, Op

\* A stream of two parts is read part by part.
LEMMA ReadJoin ==
  ASSUME NEW z \in ReadState, NEW u \in Seq(WordIn), NEW v \in Seq(WordIn)
  PROVE  ReadAll(z, u) \in ReadState /\ ReadAll(z, u \o v) = ReadAll(ReadAll(z, u), v)
<1> DEFINE m == Len(u)
           n == Len(v)
           uv == u \o v
           y == ReadAll(z, u)
<1>1. /\ m \in Nat /\ n \in Nat /\ uv \in Seq(WordIn) /\ Len(uv) = m + n
      /\ \A k \in 1 .. m : uv[k] = u[k]
  OBVIOUS
<1>2. \A k \in 1 .. n : uv[m + k] = v[k]
  <2> TAKE k \in 1 .. n
  <2>1. m + k \in 1 .. m + n /\ m + k > m /\ (m + k) - m = k
    OBVIOUS
  <2> QED BY <2>1
<1> HIDE DEF uv
<1>3. PICK a \in [0 .. Len(u) -> ReadState] :
        /\ a[0] = z /\ \A k \in 1 .. Len(u) : a[k] = ReadWord(a[k - 1], u[k])
        /\ ReadAll(z, u) = a[Len(u)]
  BY ReadSteps
<1>4. y \in ReadState
  BY <1>3
<1> HIDE DEF y
<1>5. PICK b \in [0 .. Len(v) -> ReadState] :
        /\ b[0] = y /\ \A k \in 1 .. Len(v) : b[k] = ReadWord(b[k - 1], v[k])
        /\ ReadAll(y, v) = b[Len(v)]
  BY <1>4, ReadSteps
<1>6. PICK c \in [0 .. Len(uv) -> ReadState] :
        /\ c[0] = z /\ \A k \in 1 .. Len(uv) : c[k] = ReadWord(c[k - 1], uv[k])
        /\ ReadAll(z, uv) = c[Len(uv)]
  BY <1>1, ReadSteps
<1>7. \A k \in 0 .. m : c[k] = a[k]
  <2> DEFINE T == {k \in 0 .. m : c[k] = a[k]}
  <2>1. 0 \in T
    BY <1>1, <1>3, <1>6
  <2>2. ASSUME NEW k \in 1 .. m, k - 1 \in T PROVE k \in T
    <3>1. k \in 0 .. m /\ k \in 1 .. Len(uv)
      BY <1>1
    <3>2. c[k] = ReadWord(c[k - 1], uv[k]) /\ a[k] = ReadWord(a[k - 1], u[k]) /\ c[k - 1] = a[k - 1] /\ uv[k] = u[k]
      BY <1>1, <1>3, <1>6, <2>2, <3>1
    <3> QED BY <3>1, <3>2
  <2> HIDE DEF T
  <2>3. \A k \in 0 .. m : k \in T
    BY <1>1, <2>1, <2>2, UpTo
  <2> QED BY <2>3 DEF T
<1>8. c[m] = y
  BY <1>1, <1>3, <1>7 DEF y
<1>9. \A k \in 0 .. n : c[m + k] = b[k]
  <2> DEFINE T == {k \in 0 .. n : c[m + k] = b[k]}
  <2>1. 0 \in T
    BY <1>1, <1>5, <1>8
  <2>2. ASSUME NEW k \in 1 .. n, k - 1 \in T PROVE k \in T
    <3>1. k \in 0 .. n /\ m + k \in 1 .. Len(uv) /\ (m + k) - 1 = m + (k - 1)
      BY <1>1
    <3>2. c[m + k] = ReadWord(c[(m + k) - 1], uv[m + k])
      BY <1>6, <3>1
    <3>3. b[k] = ReadWord(b[k - 1], v[k]) /\ c[m + (k - 1)] = b[k - 1] /\ uv[m + k] = v[k]
      BY <1>2, <1>5, <2>2
    <3> QED BY <3>1, <3>2, <3>3
  <2> HIDE DEF T
  <2>3. \A k \in 0 .. n : k \in T
    BY <1>1, <2>1, <2>2, UpTo
  <2> QED BY <2>3 DEF T
<1>10. c[m + n] = b[n]
  BY <1>1, <1>9
<1> QED BY <1>1, <1>4, <1>5, <1>6, <1>10 DEF y, uv

LEMMA ReadNone ==
  ASSUME NEW z \in ReadState
  PROVE  ReadAll(z, <<>>) = z
<1>1. <<>> \in Seq(WordIn) /\ Len(<<>>) = 0
  OBVIOUS
<1>2. PICK c \in [0 .. Len(<<>>) -> ReadState] :
        /\ c[0] = z /\ \A k \in 1 .. Len(<<>>) : c[k] = ReadWord(c[k - 1], <<>>[k])
        /\ ReadAll(z, <<>>) = c[Len(<<>>)]
  BY <1>1, ReadSteps
<1> QED BY <1>1, <1>2

LEMMA ReadOne ==
  ASSUME NEW z \in ReadState, NEW w \in WordIn
  PROVE  ReadAll(z, <<w>>) = ReadWord(z, w) /\ ReadWord(z, w) \in ReadState
<1>1. <<w>> \in Seq(WordIn) /\ Len(<<w>>) = 1 /\ <<w>>[1] = w /\ 1 \in 1 .. 1 /\ 1 - 1 = 0
  OBVIOUS
<1>2. PICK c \in [0 .. Len(<<w>>) -> ReadState] :
        /\ c[0] = z /\ \A k \in 1 .. Len(<<w>>) : c[k] = ReadWord(c[k - 1], <<w>>[k])
        /\ ReadAll(z, <<w>>) = c[Len(<<w>>)]
  BY <1>1, ReadSteps
<1>3. c[1] = ReadWord(c[0], <<w>>[1])
  <2>1. c[1] = ReadWord(c[1 - 1], <<w>>[1])
    BY <1>1, <1>2
  <2> QED BY <1>1, <2>1
<1> QED BY <1>1, <1>2, <1>3, ReadWordTyped

-----------------------------------------------------------------------------
(* Stretches of a sequence, and sequences of sequences *)

\* How often e occurs behind position a, up to position b.
Within(s, a, b, e) == Cardinality({q \in a + 1 .. b : s[q] = e})

LEMMA WithinTyped ==
  ASSUME NEW s, NEW e, NEW a \in Nat, NEW b \in Nat
  PROVE  Within(s, a, b, e) \in Nat
<1> DEFINE A == {q \in a + 1 .. b : s[q] = e}
<1>1. IsFiniteSet(a + 1 .. b) /\ A \in SUBSET (a + 1 .. b)
  BY FS_Interval
<1> HIDE DEF A
<1>2. IsFiniteSet(A)
  BY <1>1, FS_Subset
<1> QED BY <1>2, FS_CardinalityType DEF Within, A

LEMMA WithinNone ==
  ASSUME NEW s, NEW e, NEW a \in Nat
  PROVE  Within(s, a, a, e) = 0
<1>1. {q \in a + 1 .. a : s[q] = e} = {}
  OBVIOUS
<1> QED BY <1>1, FS_EmptySet DEF Within

LEMMA WithinSplit ==
  ASSUME NEW s, NEW e, NEW a \in Nat, NEW b \in Nat, NEW c \in Nat, a <= b, b <= c
  PROVE  Within(s, a, c, e) = Within(s, a, b, e) + Within(s, b, c, e)
<1> DEFINE A == {q \in a + 1 .. b : s[q] = e}
           B == {q \in b + 1 .. c : s[q] = e}
           D == {q \in a + 1 .. c : s[q] = e}
<1>1. IsFiniteSet(A) /\ IsFiniteSet(B)
  <2>1. IsFiniteSet(a + 1 .. b) /\ A \in SUBSET (a + 1 .. b)
    BY FS_Interval
  <2>2. IsFiniteSet(b + 1 .. c) /\ B \in SUBSET (b + 1 .. c)
    BY FS_Interval
  <2> HIDE DEF A, B
  <2> QED BY <2>1, <2>2, FS_Subset
<1>2. D = A \cup B
  <2>1. \A q : q \in a + 1 .. c <=> q \in a + 1 .. b \/ q \in b + 1 .. c
    OBVIOUS
  <2> QED BY <2>1
<1>3. \A q \in A : q \notin B
  OBVIOUS
<1> HIDE DEF A, B, D
<1>4. Cardinality(A \cup B) = Cardinality(A) + Cardinality(B)
  BY <1>1, <1>3, DisjointSum
<1> QED BY <1>2, <1>4 DEF Within, A, B, D

LEMMA WithinAll ==
  ASSUME NEW X, NEW s \in Seq(X), NEW e
  PROVE  Occ(s, e) = Within(s, 0, Len(s), e)
<1>1. DOMAIN s = 0 + 1 .. Len(s)
  OBVIOUS
<1> QED BY <1>1 DEF Occ, Within

\* Nothing of that kind in a stretch.
LEMMA WithinZero ==
  ASSUME NEW s, NEW e, NEW a \in Nat, NEW b \in Nat, \A q \in a + 1 .. b : s[q] # e
  PROVE  Within(s, a, b, e) = 0
<1>1. {q \in a + 1 .. b : s[q] = e} = {}
  OBVIOUS
<1> QED BY <1>1, FS_EmptySet DEF Within

\* A stretch that is cut out or found elsewhere, and one that is like it in
\* what is counted.
AlikeStretch(s, a, b, e, t, c, d, f) ==
  /\ a \in Nat /\ b \in Nat /\ c \in Nat /\ d \in Nat /\ b - a = d - c /\ a <= b
  /\ \A q \in 1 .. b - a : s[a + q] = e <=> t[c + q] = f
LEMMA WithinAlike ==
  ASSUME NEW s, NEW t, NEW e, NEW f, NEW a, NEW b, NEW c, NEW d, AlikeStretch(s, a, b, e, t, c, d, f)
  PROVE  Within(s, a, b, e) = Within(t, c, d, f)
<1> USE DEF AlikeStretch
<1> DEFINE A == {q \in a + 1 .. b : s[q] = e}
           B == {q \in c + 1 .. d : t[q] = f}
           n == b - a
           M == {q \in 1 .. n : s[a + q] = e}
<1>1. n \in Nat /\ a + n = b /\ c + n = d /\ a \in Nat /\ c \in Nat
  OBVIOUS
<1>2. Moved(M, A, a, n)
  <2>1. \A j \in 1 .. n : a + j \in a + 1 .. b
    BY <1>1
  <2> QED BY <1>1, <2>1 DEF Moved
<1>3. Moved(M, B, c, n)
  <2>1. \A j \in 1 .. n : c + j \in c + 1 .. d /\ (s[a + j] = e <=> t[c + j] = f)
    BY <1>1
  <2> QED BY <1>1, <2>1 DEF Moved
<1> HIDE DEF A, B, M, n
<1>4. Cardinality(M) = Cardinality(A)
  BY <1>2, ShiftedSet
<1>5. Cardinality(M) = Cardinality(B)
  BY <1>3, ShiftedSet
<1> QED BY <1>4, <1>5 DEF Within, A, B

SameStretch(s, a, b, t, c, d) ==
  /\ a \in Nat /\ b \in Nat /\ c \in Nat /\ d \in Nat /\ b - a = d - c /\ a <= b
  /\ \A q \in 1 .. b - a : s[a + q] = t[c + q]
LEMMA WithinMoved ==
  ASSUME NEW s, NEW t, NEW e, NEW a, NEW b, NEW c, NEW d, SameStretch(s, a, b, t, c, d)
  PROVE  Within(s, a, b, e) = Within(t, c, d, e)
<1>1. AlikeStretch(s, a, b, e, t, c, d, e)
  BY DEF SameStretch, AlikeStretch
<1> QED BY <1>1, WithinAlike

LEMMA OccSubSeq ==
  ASSUME NEW X, NEW s \in Seq(X), NEW e, NEW a \in Nat, NEW b \in Nat, a <= b, b <= Len(s)
  PROVE  SubSeq(s, a + 1, b) \in Seq(X) /\ Len(SubSeq(s, a + 1, b)) = b - a
         /\ Occ(SubSeq(s, a + 1, b), e) = Within(s, a, b, e)
<1> DEFINE t == SubSeq(s, a + 1, b)
<1>1. t \in Seq(X) /\ Len(t) = b - a /\ \A q \in 1 .. b - a : t[q] = s[a + q]
  OBVIOUS
<1> HIDE DEF t
<1>2. Occ(t, e) = Within(t, 0, b - a, e)
  BY <1>1, WithinAll
<1>3. SameStretch(s, a, b, t, 0, b - a)
  BY <1>1 DEF SameStretch
<1>4. Within(s, a, b, e) = Within(t, 0, b - a, e)
  BY <1>3, WithinMoved
<1> QED BY <1>1, <1>2, <1>4 DEF t

\* Sequences put one behind the other.
Parts(X, seqs, n) == n \in Nat /\ seqs = [k \in 1 .. n |-> seqs[k]] /\ \A k \in 1 .. n : seqs[k] \in Seq(X)
Joined(X, seqs, n, c) ==
  /\ c \in [0 .. n -> Seq(X)] /\ c[0] = <<>> /\ \A k \in 1 .. n : c[k] = c[k - 1] \o seqs[k]
  /\ FlattenSeq(seqs) = c[n]
LEMMA FlattenSteps ==
  ASSUME NEW X, NEW seqs, NEW n, Parts(X, seqs, n)
  PROVE  \E c : Joined(X, seqs, n, c)
<1> DEFINE S == Seq(X)
           Op(a, k) == a \o seqs[k]
           F == [k \in 1 .. n |-> [a \in S |-> Op(a, k)]]
           Eq(f) == f = [i \in 1 .. n |-> IF i = 1 THEN seqs[i] ELSE f[i - 1] \o seqs[i]]
           h == CHOOSE f : Eq(f)
<1>1. n \in Nat /\ <<>> \in S /\ \A k \in 1 .. n : seqs[k] \in S
  BY DEF Parts
<1>2. \A a \in S, k \in 1 .. n : Op(a, k) \in S
  <2> SUFFICES ASSUME NEW a \in S, NEW k \in 1 .. n PROVE Op(a, k) \in S
    OBVIOUS
  <2>1. seqs[k] \in Seq(X) /\ a \in Seq(X)
    BY <1>1
  <2> QED BY <2>1, JoinTyped
<1>3. Len(seqs) = n /\ (n = 0 => seqs = <<>>)
  <2> DEFINE G(k) == seqs[k]
  <2>1. seqs = [k \in 1 .. n |-> G(k)] /\ n \in Nat
    BY DEF Parts
  <2> HIDE DEF G
  <2>2. Len([k \in 1 .. n |-> G(k)]) = n
    BY <2>1
  <2>3. n = 0 => [k \in 1 .. n |-> G(k)] = <<>>
    OBVIOUS
  <2> QED BY <2>1, <2>2, <2>3
<1>4. FlattenSeq(seqs) = IF n = 0 THEN <<>> ELSE h[n]
  <2>1. FlattenSeq(seqs) = IF Len(seqs) = 0 THEN seqs
          ELSE LET flatten[i \in 1 .. Len(seqs)] == IF i = 1 THEN seqs[i] ELSE flatten[i-1] \o seqs[i]
               IN  flatten[Len(seqs)]
    BY DEF FlattenSeq
  <2> QED BY <1>3, <2>1
<1>5. F \in [1 .. n -> [S -> S]] /\ \A k \in 1 .. n, a \in S : F[k][a] = Op(a, k)
  <2> HIDE DEF Op, S
  <2> QED BY <1>2
<1> HIDE DEF F, h, S
<1>6. PICK g \in [0 .. n -> S] : g[0] = <<>> /\ \A k \in 1 .. n : g[k] = F[k][g[k - 1]]
  <2>1. Stepwise(S, n, <<>>, F)
    BY <1>1, <1>5 DEF Stepwise
  <2> QED BY <2>1, Recursion
<1>7. \A k \in 1 .. n : g[k] = g[k - 1] \o seqs[k]
  <2> TAKE k \in 1 .. n
  <2>1. k - 1 \in 0 .. n
    BY <1>1
  <2>2. g[k - 1] \in S
    BY <2>1
  <2> QED BY <1>5, <1>6, <2>2
<1>8. 1 \in 1 .. n => g[1] = seqs[1]
  <2> SUFFICES ASSUME 1 \in 1 .. n PROVE g[1] = seqs[1]
    OBVIOUS
  <2>1. g[1] = g[0] \o seqs[1]
    <3>1. \A k \in 1 .. n : k - 1 = 0 => g[k] = g[0] \o seqs[k]
      BY <1>7
    <3> QED BY <1>1, <3>1
  <2>2. seqs[1] \in Seq(X)
    BY <1>1 DEF S
  <2>3. <<>> \o seqs[1] = seqs[1]
    BY <2>2
  <2> QED BY <1>6, <2>1, <2>3
<1> DEFINE f0 == [i \in 1 .. n |-> g[i]]
<1>9. Eq(f0)
  <2>1. \A i \in 1 .. n : g[i] = IF i = 1 THEN seqs[i] ELSE f0[i - 1] \o seqs[i]
    <3> TAKE i \in 1 .. n
    <3>1. CASE i = 1
      BY <1>8, <3>1
    <3>2. CASE i # 1
      <4>1. i - 1 \in 1 .. n
        BY <1>1, <3>2
      <4>2. f0[i - 1] = g[i - 1]
        BY <4>1
      <4> QED BY <1>7, <3>2, <4>2
    <3> QED BY <3>1, <3>2
  <2> QED BY <2>1
<1>10. Eq(h)
  <2> HIDE DEF f0, Eq
  <2> QED BY <1>9 DEF h
<1>11. \A k \in 1 .. n : h[k] = IF k = 1 THEN seqs[k] ELSE h[k - 1] \o seqs[k]
  BY <1>10
<1> HIDE DEF Eq, f0
<1>12. \A k \in 0 .. n : k = 0 \/ h[k] = g[k]
  <2> DEFINE T == {k \in 0 .. n : k = 0 \/ h[k] = g[k]}
  <2>1. 0 \in T
    BY <1>1
  <2>2. ASSUME NEW k \in 1 .. n, k - 1 \in T PROVE k \in T
    <3>1. k \in 0 .. n
      BY <1>1
    <3>2. CASE k = 1
      BY <1>8, <1>11, <3>1, <3>2
    <3>3. CASE k # 1
      <4>1. h[k - 1] = g[k - 1]
        BY <2>2, <3>3
      <4> QED BY <1>7, <1>11, <3>1, <3>3, <4>1
    <3> QED BY <3>2, <3>3
  <2> HIDE DEF T
  <2>3. \A k \in 0 .. n : k \in T
    BY <1>1, <2>1, <2>2, UpTo
  <2> QED BY <2>3 DEF T
<1>13. FlattenSeq(seqs) = g[n]
  BY <1>1, <1>4, <1>6, <1>12
<1>14. g \in [0 .. n -> Seq(X)]
  BY DEF S
<1> QED BY <1>6, <1>7, <1>13, <1>14 DEF Joined

LEMMA FlattenOcc ==
  ASSUME NEW X, NEW seqs, NEW n, Parts(X, seqs, n), NEW e, NEW f, \A k \in 1 .. n : f[k] = Occ(seqs[k], e)
  PROVE  FlattenSeq(seqs) \in Seq(X) /\ Numbers(f, n) /\ Occ(FlattenSeq(seqs), e) = Total(f, n)
<1>0. PICK c : Joined(X, seqs, n, c)
  BY FlattenSteps
<1>1. /\ c \in [0 .. n -> Seq(X)] /\ c[0] = <<>> /\ \A k \in 1 .. n : c[k] = c[k - 1] \o seqs[k]
      /\ FlattenSeq(seqs) = c[n]
  BY <1>0 DEF Joined
<1>2. n \in Nat /\ \A k \in 1 .. n : seqs[k] \in Seq(X)
  BY DEF Parts
<1>3. Numbers(f, n)
  <2>1. \A k \in 1 .. n : f[k] \in Nat
    BY <1>2, OccTyped
  <2> QED BY <1>2, <2>1 DEF Numbers
<1> DEFINE T == {k \in 0 .. n : Occ(c[k], e) = Totals(f, n)[k]}
<1>4. 0 \in T
  BY <1>1, <1>2, <1>3, OccEmpty, TotalSteps
<1>5. ASSUME NEW k \in 1 .. n, k - 1 \in T PROVE k \in T
  <2>1. k \in 0 .. n /\ k - 1 \in 0 .. n
    BY <1>2
  <2>2. Totals(f, n)[k] = Totals(f, n)[k - 1] + f[k]
    BY <1>3, TotalSteps
  <2>3. c[k] = c[k - 1] \o seqs[k] /\ c[k - 1] \in Seq(X) /\ seqs[k] \in Seq(X)
    BY <1>1, <1>2, <2>1
  <2>4. Occ(c[k], e) = Occ(c[k - 1], e) + Occ(seqs[k], e)
    BY <2>3, OccJoin
  <2> QED BY <1>5, <2>1, <2>2, <2>4
<1> HIDE DEF T
<1>6. \A k \in 0 .. n : k \in T
  BY <1>2, <1>4, <1>5, UpTo
<1>7. n \in T /\ n \in 0 .. n
  BY <1>2, <1>6
<1> QED BY <1>1, <1>3, <1>7 DEF T, Total

-----------------------------------------------------------------------------
(* What is heard of the words that were read *)

\* A source with the members of a sequence.
LEMMA OccPairs ==
  ASSUME NEW X, NEW s \in Seq(X), NEW src \in Int, NEW e \in Edge
  PROVE  Occ([j \in DOMAIN s |-> <<src, s[j]>>], e) = IF e[1] = src THEN Occ(s, e[2]) ELSE 0
<1> DEFINE p == [j \in DOMAIN s |-> <<src, s[j]>>]
           A == {j \in DOMAIN p : p[j] = e}
           B == {j \in DOMAIN s : s[j] = e[2]}
<1>1. e = <<e[1], e[2]>>
  BY DEF Edge
<1>2. DOMAIN p = DOMAIN s /\ \A j \in DOMAIN s : p[j] = e <=> src = e[1] /\ s[j] = e[2]
  BY <1>1
<1>3. CASE e[1] = src
  <2>1. A = B
    BY <1>2, <1>3
  <2> QED BY <1>3, <2>1 DEF Occ
<1>4. CASE e[1] # src
  <2>1. A = {}
    BY <1>2, <1>4
  <2> HIDE DEF A, p
  <2>2. Cardinality(A) = 0
    BY <2>1, FS_EmptySet
  <2> QED BY <1>4, <2>2 DEF Occ, A, p
<1> QED BY <1>3, <1>4

\* The shares of a list: they cover it.
LEMMA SharesCover ==
  ASSUME NEW len \in Nat
  PROVE  /\ NumSplits \in Nat /\ NumSplits >= 1 /\ ShareWidth(len) \in Nat
         /\ len <= ShareWidth(len) * NumSplits
<1>0. NumSplits \in Nat /\ NumSplits >= 1
  BY TopDownFoldAssumption
<1> DEFINE n == NumSplits
           a == len + n - 1
           w == a \div n
           m == a % n
<1>1. n \in Nat /\ n >= 1 /\ a \in Nat
  BY <1>0
<1>2. ShareWidth(len) = w
  BY DEF ShareWidth
<1> HIDE DEF n
<1>3. w \in Nat /\ a = (n * w) + m /\ m \in 0 .. n - 1
  <2> HIDE DEF a
  <2> QED BY <1>1
<1>4. len = (n * w) + m - (n - 1)
  <2> HIDE DEF w, m
  <2>1. n * w \in Nat
    BY <1>1, <1>3
  <2> QED BY <1>1, <1>3, <2>1
<1> HIDE DEF w, m, a
<1>5. n * w = w * n /\ n * w \in Nat
  BY <1>1, <1>3
<1>6. len <= w * n
  BY <1>1, <1>3, <1>4, <1>5
<1> QED BY <1>0, <1>2, <1>3, <1>6 DEF n

\* A list put aside is heard as if it were read at once.
LEMMA ReceiveRowExact ==
  ASSUME NEW row \in RowIn, NEW e \in Edge
  PROVE  /\ ReceiveRow(row) \in Seq(Edge)
         /\ Occ(ReceiveRow(row), e) = Occ(Spread(row.src, row.tgts, Len(row.tgts)), e)
<1> DEFINE t == row.tgts
           len == Len(t)
           w == ShareWidth(len)
           N == NumSplits
           Share(k) == LET b == Min({len, w * k}) IN SubSeq(t, b + 1, Min({len, b + w}))
           seqs == [k \in 1 .. N |-> Share(k - 1)]
           all == FlattenSeq(seqs)
           v == e[2]
           f == [k \in 1 .. N |-> Occ(seqs[k], v)]
           B(k) == IF len <= w * k THEN len ELSE w * k
<1>1. row.src \in Int /\ t \in Seq(Nat) /\ len \in Nat
  BY DEF RowIn
<1>2. ReceiveRow(row) = [j \in DOMAIN all |-> <<row.src, all[j]>>]
  BY DEF ReceiveRow
<1>3. Spread(row.src, t, len) = [j \in DOMAIN t |-> <<row.src, t[j]>>]
  <2> HIDE DEF t
  <2>1. DOMAIN t = 1 .. Len(t)
    BY <1>1
  <2> QED BY <2>1 DEF Spread
<1> HIDE DEF t
<1>4. w \in Nat /\ N \in Nat /\ N >= 1 /\ len <= w * N
  BY <1>1, SharesCover
<1> HIDE DEF len, w, N
<1>5. \A k \in Nat : w * k \in Nat /\ B(k) \in 0 .. len
  BY <1>1, <1>4
<1>6. \A k \in 1 .. N : k - 1 \in Nat /\ w * k = w * (k - 1) + w
  BY <1>4
<1>7. \A k \in 1 .. N : seqs[k] = SubSeq(t, B(k - 1) + 1, B(k)) /\ B(k - 1) <= B(k) /\ B(k - 1) \in Nat /\ B(k) \in Nat /\ B(k) <= Len(t)
  <2> TAKE k \in 1 .. N
  <2> DEFINE b == Min({len, w * (k - 1)})
             c == Min({len, b + w})
             x == w * (k - 1)
  <2>1. x \in Nat /\ w * k = x + w
    BY <1>5, <1>6
  <2>2. b = B(k - 1)
    BY <1>1, <2>1, MinOfTwo
  <2>3. seqs[k] = SubSeq(t, b + 1, c)
    OBVIOUS
  <2> HIDE DEF x, b
  <2>4. b = IF len <= x THEN len ELSE x
    BY <2>2 DEF x
  <2>5. c = B(k)
    <3>1. b + w \in Int /\ b \in Nat
      BY <1>1, <1>4, <2>1, <2>4
    <3>2. c = IF len <= b + w THEN len ELSE b + w
      BY <1>1, <3>1, MinOfTwo
    <3> QED BY <1>1, <1>4, <2>1, <2>4, <3>2
  <2>6. B(k) = IF len <= x + w THEN len ELSE x + w
    BY <2>1
  <2>7. b <= B(k) /\ b \in Nat /\ B(k) \in Nat /\ B(k) <= len
    <3> HIDE DEF B
    <3> QED BY <1>1, <1>4, <2>1, <2>4, <2>6
  <2> HIDE DEF c, B, seqs
  <2> QED BY <2>2, <2>3, <2>5, <2>7 DEF len
<1>8. B(0) = 0 /\ B(N) = len
  <2>1. w * 0 = 0
    BY <1>4
  <2> QED BY <1>1, <1>4, <2>1
<1>9. Parts(Nat, seqs, N) /\ \A k \in 1 .. N : f[k] = Within(t, B(k - 1), B(k), v)
  <2>1. seqs = [k \in 1 .. N |-> seqs[k]] /\ \A k \in 1 .. N : f[k] = Occ(seqs[k], v)
    OBVIOUS
  <2> HIDE DEF seqs, f, B
  <2>2. \A k \in 1 .. N : seqs[k] \in Seq(Nat) /\ f[k] = Within(t, B(k - 1), B(k), v)
    <3> TAKE k \in 1 .. N
    <3> DEFINE a == B(k - 1)
               b == B(k)
    <3>1. seqs[k] = SubSeq(t, a + 1, b) /\ a <= b /\ a \in Nat /\ b \in Nat /\ b <= Len(t)
      BY <1>7
    <3> HIDE DEF a, b
    <3>2. SubSeq(t, a + 1, b) \in Seq(Nat) /\ Occ(SubSeq(t, a + 1, b), v) = Within(t, a, b, v)
      BY <1>1, <3>1, OccSubSeq
    <3> QED BY <2>1, <3>1, <3>2 DEF a, b
  <2> QED BY <1>4, <2>1, <2>2 DEF Parts
<1>10. all \in Seq(Nat) /\ Numbers(f, N) /\ Occ(all, v) = Total(f, N)
  <2>1. \A k \in 1 .. N : f[k] = Occ(seqs[k], v)
    OBVIOUS
  <2> HIDE DEF seqs, f
  <2> QED BY <1>9, <2>1, FlattenOcc
<1> HIDE DEF all, seqs, f, B
<1>11. \A k \in 0 .. N : Totals(f, N)[k] = Within(t, 0, B(k), v)
  <2> DEFINE T == {k \in 0 .. N : Totals(f, N)[k] = Within(t, 0, B(k), v)}
  <2>1. 0 \in T
    <3>1. Within(t, 0, 0, v) = 0
      BY WithinNone
    <3> QED BY <1>4, <1>8, <1>10, <3>1, TotalSteps
  <2>2. ASSUME NEW k \in 1 .. N, k - 1 \in T PROVE k \in T
    <3> DEFINE a == B(k - 1)
               b == B(k)
    <3>1. a <= b /\ a \in Nat /\ b \in Nat /\ k \in 0 .. N /\ f[k] = Within(t, a, b, v)
      BY <1>4, <1>7, <1>9
    <3>2. Totals(f, N)[k] = Totals(f, N)[k - 1] + f[k] /\ Totals(f, N)[k - 1] = Within(t, 0, a, v)
      BY <1>10, <2>2, TotalSteps
    <3> HIDE DEF a, b
    <3>3. Within(t, 0, b, v) = Within(t, 0, a, v) + Within(t, a, b, v)
      BY <3>1, WithinSplit
    <3> QED BY <3>1, <3>2, <3>3 DEF b
  <2> HIDE DEF T
  <2>3. \A k \in 0 .. N : k \in T
    BY <1>4, <2>1, <2>2, UpTo
  <2> QED BY <2>3 DEF T
<1>12. Total(f, N) = Occ(t, v)
  <2>1. Totals(f, N)[N] = Within(t, 0, len, v)
    BY <1>4, <1>8, <1>11
  <2> QED BY <1>1, <2>1, WithinAll DEF Total, len
<1>13. Occ(ReceiveRow(row), e) = Occ(Spread(row.src, t, len), e)
  <2>1. Occ(ReceiveRow(row), e) = IF e[1] = row.src THEN Occ(all, e[2]) ELSE 0
    BY <1>1, <1>2, <1>10, OccPairs
  <2>2. Occ(Spread(row.src, t, len), e) = IF e[1] = row.src THEN Occ(t, e[2]) ELSE 0
    BY <1>1, <1>3, OccPairs
  <2> QED BY <1>10, <1>12, <2>1, <2>2 DEF v
<1>14. ReceiveRow(row) \in Seq(Edge)
  <2>1. \A j \in DOMAIN all : <<row.src, all[j]>> \in Edge
    BY <1>1, <1>10 DEF Edge
  <2>2. DOMAIN all = 1 .. Len(all) /\ Len(all) \in Nat
    BY <1>10
  <2> DEFINE G(j) == <<row.src, all[j]>>
  <2>3. ReceiveRow(row) = [j \in 1 .. Len(all) |-> G(j)] /\ \A j \in 1 .. Len(all) : G(j) \in Edge
    BY <1>2, <2>1, <2>2
  <2> HIDE DEF G
  <2> QED BY <2>2, <2>3
<1> QED BY <1>13, <1>14 DEF t, len

\* What the words that were read let a vertex hear, now or from a list that
\* was put aside.
RowsHeard(rows, e) == [k \in 1 .. Len(rows) |-> Occ(ReceiveRow(rows[k]), e)]
Gained(z, e) == Occ(z.edges, e) + Total(RowsHeard(z.rows, e), Len(z.rows))
LEMMA RowsHeardTyped ==
  ASSUME NEW rows \in Seq(RowIn), NEW e \in Edge
  PROVE  /\ Numbers(RowsHeard(rows, e), Len(rows))
         /\ Total(RowsHeard(rows, e), Len(rows)) \in Int
<1>1. Len(rows) \in Nat /\ \A k \in 1 .. Len(rows) : rows[k] \in RowIn
  OBVIOUS
<1>2. \A k \in 1 .. Len(rows) : ReceiveRow(rows[k]) \in Seq(Edge)
  BY <1>1, ReceiveRowExact
<1>3. \A k \in 1 .. Len(rows) : RowsHeard(rows, e)[k] \in Nat
  <2> TAKE k \in 1 .. Len(rows)
  <2>1. RowsHeard(rows, e)[k] = Occ(ReceiveRow(rows[k]), e)
    BY DEF RowsHeard
  <2> QED BY <1>2, <2>1, OccTyped
<1>4. Numbers(RowsHeard(rows, e), Len(rows))
  BY <1>1, <1>3 DEF Numbers
<1> QED BY <1>4, TotalSteps

LEMMA GainedTyped ==
  ASSUME NEW z \in ReadState, NEW e \in Edge
  PROVE  Gained(z, e) \in Int /\ Occ(z.edges, e) \in Nat /\ Total(RowsHeard(z.rows, e), Len(z.rows)) \in Int
<1>1. z.edges \in Seq(Edge) /\ z.rows \in Seq(RowIn)
  BY StateParts
<1>2. Occ(z.edges, e) \in Nat
  BY <1>1, OccTyped
<1>3. Total(RowsHeard(z.rows, e), Len(z.rows)) \in Int
  BY <1>1, RowsHeardTyped
<1> QED BY <1>2, <1>3 DEF Gained

LEMMA GainedFresh ==
  ASSUME NEW e \in Edge
  PROVE  Gained(Fresh, e) = 0
<1>1. Fresh.edges = <<>> /\ Fresh.rows = <<>>
  BY DEF Fresh
<1>2. Len(<<>>) = 0 /\ 0 \in Nat /\ \A k \in 1 .. 0 : RowsHeard(<<>>, e)[k] = 0
  OBVIOUS
<1>3. Total(RowsHeard(<<>>, e), 0) = 0
  BY <1>2, TotalZero
<1> QED BY <1>1, <1>2, <1>3, OccEmpty DEF Gained

\* More edges, or one more list.
LEMMA GainedMore ==
  ASSUME NEW z \in ReadState, NEW y \in ReadState, NEW e \in Edge, NEW x \in Int,
         \/ y.rows = z.rows /\ Occ(y.edges, e) = Occ(z.edges, e) + x
         \/ /\ y.edges = z.edges
            /\ \E row \in RowIn : y.rows = Append(z.rows, row) /\ Occ(ReceiveRow(row), e) = x
  PROVE  Gained(y, e) = Gained(z, e) + x
<1>1. /\ Occ(z.edges, e) \in Nat /\ Total(RowsHeard(z.rows, e), Len(z.rows)) \in Int
  BY GainedTyped
<1>2. CASE y.rows = z.rows /\ Occ(y.edges, e) = Occ(z.edges, e) + x
  BY <1>1, <1>2 DEF Gained
<1>3. ASSUME y.edges = z.edges, NEW row \in RowIn, y.rows = Append(z.rows, row), Occ(ReceiveRow(row), e) = x
      PROVE  Gained(y, e) = Gained(z, e) + x
  <2> DEFINE s == z.rows
             u == Append(s, row)
             f == RowsHeard(s, e)
             g == RowsHeard(u, e)
             n == Len(s)
  <2>1. s \in Seq(RowIn)
    BY StateParts
  <2> HIDE DEF s
  <2>2. n \in Nat /\ Len(u) = n + 1 /\ u[n + 1] = row /\ \A k \in 1 .. n : u[k] = s[k]
    BY <2>1
  <2>3. Numbers(f, n)
    BY <2>1, RowsHeardTyped
  <2>4. \A k \in 1 .. n : k \in 1 .. n + 1
    BY <2>2
  <2>5. n + 1 \in 1 .. n + 1
    BY <2>2
  <2> HIDE DEF u, n
  <2>6. \A k \in 1 .. n : f[k] = g[k]
    <3>1. \A k \in 1 .. n : f[k] = Occ(ReceiveRow(s[k]), e)
      BY DEF RowsHeard, n
    <3>2. \A k \in 1 .. n : g[k] = Occ(ReceiveRow(u[k]), e)
      BY <2>2, <2>4 DEF RowsHeard
    <3> HIDE DEF f, g
    <3> QED BY <2>2, <3>1, <3>2
  <2>7. g[n + 1] = x
    BY <1>3, <2>2, <2>5 DEF RowsHeard
  <2> HIDE DEF f, g
  <2>8. Total(g, n + 1) = Total(f, n) + x
    BY <2>3, <2>6, <2>7, TotalNext
  <2>9. Gained(y, e) = Occ(z.edges, e) + Total(g, n + 1)
    BY <1>3, <2>2 DEF Gained, g, u, s
  <2>10. Gained(z, e) = Occ(z.edges, e) + Total(f, n)
    BY DEF Gained, f, n, s
  <2>11. Total(f, n) \in Int
    BY <1>1 DEF f, n, s
  <2> QED BY <1>1, <2>8, <2>9, <2>10, <2>11
<1> QED BY <1>2, <1>3

\* A list is complete.
LEMMA ListComplete ==
  ASSUME NEW z \in ReadState, Len(z.list) = z.len, NEW e \in Edge
  PROVE  /\ ListRead(z) \in Ready
         /\ Gained(ListRead(z), e) = Gained(z, e) + Occ(Spread(z.src, z.list, z.len), e)
<1> DEFINE y == ListRead(z)
           s == Spread(z.src, z.list, z.len)
           row == [src |-> z.src, tgts |-> z.list]
<1>1. y \in ReadState
  BY ListReadTyped
<1>2. z.src \in Int /\ z.len \in Nat /\ z.list \in Seq(Nat) /\ z.edges \in Seq(Edge) /\ z.rows \in Seq(RowIn)
  BY StateParts
<1>3. ~ (Len(z.list) < z.len) /\ z.len <= Len(z.list)
  BY <1>2
<1>4. y = [place |-> "first", src |-> z.src, len |-> z.len, list |-> <<>>,
           edges |-> IF z.len < Pending THEN z.edges \o s ELSE z.edges,
           rows |-> IF z.len < Pending THEN z.rows ELSE Append(z.rows, row)]
  BY <1>3, ListReadExact
<1>5. s \in Seq(Edge)
  BY <1>2, <1>3, SpreadTyped
<1>6. row \in RowIn /\ row.src = z.src /\ row.tgts = z.list
  BY <1>2 DEF RowIn
<1> HIDE DEF y, s, row
<1>7. y.place = "first" /\ y.list = <<>>
  BY <1>4
<1>8. y \in Ready
  BY <1>1, <1>7 DEF Ready
<1>9. Occ(s, e) \in Int
  <2>1. Occ(s, e) \in Nat
    BY <1>5, OccTyped
  <2> QED BY <2>1
<1>10. CASE z.len < Pending
  <2>1. y.edges = z.edges \o s /\ y.rows = z.rows
    BY <1>4, <1>10
  <2>2. Occ(y.edges, e) = Occ(z.edges, e) + Occ(s, e)
    BY <1>2, <1>5, <2>1, OccJoin
  <2>3. Gained(y, e) = Gained(z, e) + Occ(s, e)
    BY <1>1, <1>9, <2>1, <2>2, GainedMore
  <2> QED BY <1>8, <2>3 DEF y, s
<1>11. CASE ~ (z.len < Pending)
  <2>1. y.edges = z.edges /\ y.rows = Append(z.rows, row)
    BY <1>4, <1>11
  <2>2. Occ(ReceiveRow(row), e) = Occ(Spread(row.src, row.tgts, Len(row.tgts)), e)
    BY <1>6, ReceiveRowExact
  <2>3. Spread(row.src, row.tgts, Len(row.tgts)) = s
    BY <1>6 DEF s
  <2>4. Gained(y, e) = Gained(z, e) + Occ(s, e)
    BY <1>1, <1>6, <1>9, <2>1, <2>2, <2>3, GainedMore
  <2> QED BY <1>8, <2>4 DEF y, s
<1> QED BY <1>10, <1>11

\* The kinds of words.
LEMMA WordsTyped ==
  /\ \A v \in Nat : Word("high", v) \in WordIn /\ Word("low", v) \in WordIn /\ Word("tgt", v) \in WordIn
                    /\ Word("list", v) \in WordIn /\ Word("len", v) \in WordIn
  /\ \A v, k : Word(k, v).kind = k /\ Word(k, v).val = v
  /\ Seq(WordType) \subseteq Seq(WordIn)
<1>1. \A v \in Nat : Word("high", v) \in WordIn /\ Word("low", v) \in WordIn /\ Word("tgt", v) \in WordIn
                    /\ Word("list", v) \in WordIn /\ Word("len", v) \in WordIn
  BY DEF Word, WordIn
<1>2. \A v, k : Word(k, v).kind = k /\ Word(k, v).val = v
  BY DEF Word
<1>3. WordType \subseteq WordIn
  BY DEF WordType, WordIn
<1>4. \A s \in Seq(WordType) : s \in Seq(WordIn)
  <2> TAKE s \in Seq(WordType)
  <2>1. Len(s) \in Nat /\ s \in [1 .. Len(s) -> WordType]
    OBVIOUS
  <2>2. s \in [1 .. Len(s) -> WordIn]
    BY <1>3, <2>1
  <2> QED BY <2>1, <2>2
<1> QED BY <1>1, <1>2, <1>4

\* What a ready state consists of.
LEMMA ReadyParts ==
  ASSUME NEW z \in Ready
  PROVE  z \in ReadState /\ z.place = "first" /\ z.list = <<>>
BY DEF Ready

\* A source, and the target behind it.
LEMMA SourceRead ==
  ASSUME NEW z \in Ready, NEW s \in Nat
  PROVE  LET y == ReadAll(z, SourceWords(s)) IN
         y \in Ready /\ y.src = s /\ \A e \in Edge : Gained(y, e) = Gained(z, e)
<1> DEFINE u == Word("high", s)
           v == Word("low", s)
           a == ReadAll(z, <<u>>)
           y == ReadAll(z, SourceWords(s))
<1>1. z \in ReadState /\ z.place = "first" /\ z.list = <<>>
  BY ReadyParts
<1>2. u \in WordIn /\ v \in WordIn /\ u.kind = "high" /\ u.val = s
  BY WordsTyped
<1> HIDE DEF u, v
<1>3. a = ReadWord(z, u) /\ a \in ReadState
  BY <1>1, <1>2, ReadOne
<1>4. SourceWords(s) = <<u>> \o <<v>>
  BY DEF SourceWords, u, v
<1>5. <<u>> \in Seq(WordIn) /\ <<v>> \in Seq(WordIn)
  BY <1>2
<1>6. y = ReadAll(a, <<v>>)
  <2> DEFINE p == <<u>>
             q == <<v>>
  <2>1. p \in Seq(WordIn) /\ q \in Seq(WordIn) /\ SourceWords(s) = p \o q
    BY <1>4, <1>5
  <2> HIDE DEF p, q
  <2>2. ReadAll(z, p \o q) = ReadAll(ReadAll(z, p), q)
    BY <1>1, <2>1, ReadJoin
  <2> QED BY <2>1, <2>2 DEF p, q
<1>7. a = [place |-> "low", src |-> s, len |-> z.len, list |-> z.list, edges |-> z.edges, rows |-> z.rows]
  BY <1>1, <1>2, <1>3, ReadWordExact
<1> HIDE DEF a, y
<1>8. y = ReadWord(a, v) /\ y \in ReadState
  BY <1>2, <1>3, <1>6, ReadOne
<1>9. a.place = "low" /\ a.src = s /\ a.list = z.list /\ a.edges = z.edges /\ a.rows = z.rows
  BY <1>7
<1>10. y = [place |-> "first", src |-> a.src, len |-> a.len, list |-> a.list, edges |-> a.edges, rows |-> a.rows]
  BY <1>2, <1>3, <1>8, <1>9, ReadWordExact
<1>11. y.place = "first" /\ y.src = s /\ y.list = <<>> /\ y.edges = z.edges /\ y.rows = z.rows
  BY <1>1, <1>9, <1>10
<1>12. y \in Ready
  BY <1>8, <1>11 DEF Ready
<1>13. \A e \in Edge : Gained(y, e) = Gained(z, e)
  BY <1>11 DEF Gained
<1> QED BY <1>11, <1>12, <1>13 DEF y

LEMMA TargetRead ==
  ASSUME NEW z \in Ready, NEW v \in Nat, NEW e \in Edge
  PROVE  LET y == ReadAll(z, <<Word("tgt", v)>>) IN
         /\ y \in Ready /\ y.src = z.src
         /\ Gained(y, e) = Gained(z, e) + IF <<z.src, v>> = e THEN 1 ELSE 0
<1> DEFINE w == Word("tgt", v)
           y == ReadAll(z, <<w>>)
           x == <<z.src, v>>
           n == IF x = e THEN 1 ELSE 0
<1>1. z \in ReadState /\ z.place = "first" /\ z.list = <<>>
  BY ReadyParts
<1>2. w \in WordIn /\ w.kind = "tgt" /\ w.val = v
  BY WordsTyped
<1> HIDE DEF w
<1>3. y = ReadWord(z, w) /\ y \in ReadState
  BY <1>1, <1>2, ReadOne
<1> HIDE DEF y
<1>4. z.src \in Int /\ z.edges \in Seq(Edge) /\ x \in Edge
  <2>1. z.src \in Int /\ z.edges \in Seq(Edge)
    BY <1>1, StateParts
  <2> QED BY <2>1 DEF Edge
<1>5. y = [place |-> z.place, src |-> z.src, len |-> z.len, list |-> z.list, edges |-> Append(z.edges, x), rows |-> z.rows]
  BY <1>1, <1>2, <1>3, ReadWordExact
<1> HIDE DEF x
<1>6. y.place = "first" /\ y.src = z.src /\ y.list = <<>> /\ y.edges = Append(z.edges, x) /\ y.rows = z.rows
  BY <1>1, <1>5
<1>7. y \in Ready
  BY <1>3, <1>6 DEF Ready
<1>8. Append(z.edges, x) = z.edges \o <<x>> /\ <<x>> \in Seq(Edge)
  <2> DEFINE s == z.edges
  <2>1. s \in Seq(Edge)
    BY <1>4
  <2> HIDE DEF s
  <2>2. Append(s, x) = s \o <<x>> /\ <<x>> \in Seq(Edge)
    BY <1>4, <2>1
  <2> QED BY <2>2 DEF s
<1>9. Occ(y.edges, e) = Occ(z.edges, e) + n
  <2>1. Occ(<<x>>, e) = n
    BY OccOne
  <2>2. Occ(z.edges \o <<x>>, e) = Occ(z.edges, e) + Occ(<<x>>, e)
    BY <1>4, <1>8, OccJoin
  <2> QED BY <1>6, <1>8, <2>1, <2>2
<1>10. n \in Int
  OBVIOUS
<1> HIDE DEF n
<1>11. Gained(y, e) = Gained(z, e) + n
  BY <1>1, <1>3, <1>6, <1>9, <1>10, GainedMore
<1> QED BY <1>6, <1>7, <1>11 DEF y, w, n, x

\* The edges of a list, and those in a stretch of it.
Say(lst) == [q \in DOMAIN lst.tgts |-> <<lst.src, lst.tgts[q].local>>]
Between(lst, a, b, e) == Within(Say(lst), a, b, e)

\* The words of a piece of a list.
PieceWords(lst, first, n) ==
  <<Word("list", lst.src), Word("low", lst.src), Word("len", n)>>
    \o [j \in 1 .. n |-> Word("tgt", lst.tgts[first + j].local)]
Piece(lst, first, n) == lst \in ListType /\ first \in Nat /\ n \in Nat /\ first + n <= Len(lst.tgts)

LEMMA JoinAt ==
  ASSUME NEW X, NEW s \in Seq(X), NEW t \in Seq(X)
  PROVE  \A k \in 1 .. Len(s) : (s \o t)[k] = s[k]
OBVIOUS
Behind(s, t, m, k) == (s \o t)[m + k]
LEMMA JoinBehind ==
  ASSUME NEW X, NEW s \in Seq(X), NEW t \in Seq(X), NEW k \in 1 .. Len(t)
  PROVE  Behind(s, t, Len(s), k) = t[k]
<1> DEFINE m == Len(s)
           n == Len(t)
<1>1. m \in Nat /\ n \in Nat /\ k \in 1 .. n
  OBVIOUS
<1>2. m + k \in 1 .. m + n /\ m + k > m /\ (m + k) - m = k
  BY <1>1
<1> QED BY <1>2 DEF Behind

LEMMA PieceWordsExact ==
  ASSUME NEW lst, NEW first, NEW n, Piece(lst, first, n)
  PROVE  LET w == PieceWords(lst, first, n) IN
         /\ w \in Seq(WordIn) /\ Len(w) = n + 3
         /\ w[1] = Word("list", lst.src) /\ w[2] = Word("low", lst.src) /\ w[3] = Word("len", n)
         /\ \A j \in 1 .. n : w[j + 3] = Word("tgt", lst.tgts[first + j].local)
         /\ \A j \in 1 .. n : lst.tgts[first + j].local \in Nat
         /\ lst.src \in Nat /\ n \in Nat
<1> DEFINE s == lst.src
           G(j) == Word("tgt", lst.tgts[first + j].local)
           head == <<Word("list", s), Word("low", s), Word("len", n)>>
           body == [j \in 1 .. n |-> G(j)]
           w == PieceWords(lst, first, n)
<1>1. s \in Nat /\ n \in Nat /\ first \in Nat /\ lst.tgts \in Seq(Target) /\ first + n <= Len(lst.tgts)
  BY DEF Piece, ListType
<1>2. \A j \in 1 .. n : lst.tgts[first + j].local \in Nat
  <2> TAKE j \in 1 .. n
  <2>1. first + j \in 1 .. Len(lst.tgts)
    BY <1>1
  <2>2. lst.tgts[first + j] \in Target
    BY <1>1, <2>1
  <2> QED BY <2>2 DEF Target
<1>3. \A j \in 1 .. n : G(j) \in WordIn
  BY <1>2, WordsTyped
<1>4. w = head \o body
  BY DEF PieceWords
<1> HIDE DEF w, G
<1>5. head \in Seq(WordIn) /\ Len(head) = 3 /\ head[1] = Word("list", s) /\ head[2] = Word("low", s) /\ head[3] = Word("len", n)
  <2>1. Word("list", s) \in WordIn /\ Word("low", s) \in WordIn /\ Word("len", n) \in WordIn
    BY <1>1, WordsTyped
  <2> QED BY <2>1
<1>6. body \in Seq(WordIn) /\ Len(body) = n /\ \A j \in 1 .. n : body[j] = G(j)
  BY <1>1, <1>3
<1> HIDE DEF head, body
<1>7. w \in Seq(WordIn) /\ Len(w) = n + 3 /\ w[1] = head[1] /\ w[2] = head[2] /\ w[3] = head[3]
  <2>1. w \in Seq(WordIn) /\ Len(w) = 3 + n
    <3>1. head \o body \in Seq(WordIn) /\ Len(head \o body) = Len(head) + Len(body)
      BY <1>5, <1>6, JoinTyped
    <3> QED BY <1>4, <1>5, <1>6, <3>1
  <2>3. \A k \in 1 .. 3 : w[k] = head[k]
    <3>1. \A k \in 1 .. Len(head) : (head \o body)[k] = head[k]
      BY <1>5, <1>6, JoinAt
    <3> QED BY <1>4, <1>5, <3>1
  <2>2. 3 + n = n + 3
    BY <1>1
  <2> QED BY <2>1, <2>2, <2>3
<1>8. \A j \in 1 .. n : w[j + 3] = G(j)
  <2> TAKE j \in 1 .. n
  <2>1. w[3 + j] = body[j]
    <3>1. j \in 1 .. Len(body) /\ 3 = Len(head)
      BY <1>5, <1>6
    <3>2. head \in Seq(WordIn) /\ body \in Seq(WordIn)
      BY <1>5, <1>6
    <3>3. Behind(head, body, Len(head), j) = body[j]
      BY <3>1, <3>2, JoinBehind
    <3> QED BY <1>4, <3>1, <3>3 DEF Behind
  <2>2. 3 + j = j + 3
    BY <1>1
  <2> QED BY <1>6, <2>1, <2>2
<1> QED BY <1>1, <1>2, <1>5, <1>7, <1>8 DEF w, G

\* What a receiver has while it reads a piece: j of its targets.
Half(z, lst, first, n, j) ==
  [place |-> "list", src |-> lst.src, len |-> n, list |-> [i \in 1 .. j |-> lst.tgts[first + i].local],
   edges |-> z.edges, rows |-> z.rows]
LEMMA HalfTyped ==
  ASSUME NEW z \in ReadState, NEW lst, NEW first, NEW n, Piece(lst, first, n), NEW j \in 0 .. n
  PROVE  LET h == Half(z, lst, first, n, j) IN
         /\ h \in ReadState /\ h.place = "list" /\ h.src = lst.src /\ h.len = n /\ Len(h.list) = j
         /\ h.edges = z.edges /\ h.rows = z.rows
         /\ h.list = [i \in 1 .. j |-> lst.tgts[first + i].local]
<1> DEFINE G(i) == lst.tgts[first + i].local
           l == [i \in 1 .. j |-> G(i)]
<1>1. /\ n \in Nat /\ lst.src \in Nat /\ \A i \in 1 .. n : G(i) \in Nat
  BY PieceWordsExact
<1> HIDE DEF G
<1>2. j \in Nat /\ \A i \in 1 .. j : i \in 1 .. n
  BY <1>1
<1>3. l \in Seq(Nat) /\ Len(l) = j
  BY <1>1, <1>2
<1> HIDE DEF l
<1>4. Half(z, lst, first, n, j) = [place |-> "list", src |-> lst.src, len |-> n, list |-> l, edges |-> z.edges, rows |-> z.rows]
  BY DEF Half, l, G
<1>5. z.edges \in Seq(Edge) /\ z.rows \in Seq(RowIn) /\ lst.src \in Int
  <2>1. z.edges \in Seq(Edge) /\ z.rows \in Seq(RowIn)
    BY StateParts
  <2> QED BY <1>1, <2>1
<1>6. Half(z, lst, first, n, j) \in ReadState
  <2>1. l \in Seq(Nat) /\ n \in Nat
    BY <1>1, <1>3
  <2>2. [place |-> "list", src |-> lst.src, len |-> n, list |-> l, edges |-> z.edges, rows |-> z.rows] \in ReadState
    BY <1>5, <2>1, StateTyped
  <2> QED BY <1>4, <2>2
<1> QED BY <1>3, <1>4, <1>6 DEF l, G

\* A piece of a list is read: its edges are heard, each once.
LEMMA PieceRead ==
  ASSUME NEW z \in Ready, NEW lst, NEW first, NEW n, Piece(lst, first, n), NEW e \in Edge
  PROVE  LET y == ReadAll(z, PieceWords(lst, first, n)) IN
         y \in Ready /\ Gained(y, e) = Gained(z, e) + Between(lst, first, first + n, e)
<1> DEFINE w == PieceWords(lst, first, n)
           H(j) == Half(z, lst, first, n, j)
           G(i) == lst.tgts[first + i].local
<1>1. z \in ReadState /\ z.place = "first" /\ z.list = <<>>
  BY ReadyParts
<1>2. /\ w \in Seq(WordIn) /\ Len(w) = n + 3
      /\ w[1] = Word("list", lst.src) /\ w[2] = Word("low", lst.src) /\ w[3] = Word("len", n)
      /\ \A j \in 1 .. n : w[j + 3] = Word("tgt", G(j))
      /\ \A j \in 1 .. n : G(j) \in Nat
      /\ lst.src \in Nat /\ n \in Nat
  BY PieceWordsExact
<1> HIDE DEF w
<1>3. PICK c \in [0 .. Len(w) -> ReadState] :
        /\ c[0] = z /\ \A k \in 1 .. Len(w) : c[k] = ReadWord(c[k - 1], w[k])
        /\ ReadAll(z, w) = c[Len(w)]
  BY <1>1, <1>2, ReadSteps
<1>4. \A k \in 1 .. n + 3 : c[k] = ReadWord(c[k - 1], w[k]) /\ c[k - 1] \in ReadState /\ w[k] \in WordIn
  <2> TAKE k \in 1 .. n + 3
  <2>1. k \in 1 .. Len(w) /\ k - 1 \in 0 .. Len(w)
    BY <1>2
  <2> QED BY <1>2, <1>3, <2>1
<1>5. 1 \in 1 .. n + 3 /\ 2 \in 1 .. n + 3 /\ 3 \in 1 .. n + 3 /\ 1 - 1 = 0 /\ 2 - 1 = 1 /\ 3 - 1 = 2
  BY <1>2
<1>6. /\ c[1] = ReadWord(z, w[1]) /\ c[2] = ReadWord(c[1], w[2]) /\ c[3] = ReadWord(c[2], w[3])
      /\ c[1] \in ReadState /\ c[2] \in ReadState /\ w[1] \in WordIn /\ w[2] \in WordIn /\ w[3] \in WordIn
  <2>1. c[1] = ReadWord(c[1 - 1], w[1]) /\ w[1] \in WordIn
    BY <1>4, <1>5
  <2>2. c[2] = ReadWord(c[2 - 1], w[2]) /\ c[2 - 1] \in ReadState /\ w[2] \in WordIn
    BY <1>4, <1>5
  <2>3. c[3] = ReadWord(c[3 - 1], w[3]) /\ c[3 - 1] \in ReadState /\ w[3] \in WordIn
    BY <1>4, <1>5
  <2> QED BY <1>3, <1>5, <2>1, <2>2, <2>3
<1>7. w[1].kind = "list" /\ w[1].val = lst.src /\ w[3].val = n
  BY <1>2, WordsTyped
<1>8. c[1] = [place |-> "list low", src |-> lst.src, len |-> z.len, list |-> z.list, edges |-> z.edges, rows |-> z.rows]
  BY <1>1, <1>6, <1>7, ReadWordExact
<1>9. c[1].place = "list low" /\ c[1].src = lst.src /\ c[1].list = z.list /\ c[1].edges = z.edges /\ c[1].rows = z.rows
  <2> DEFINE a == c[1]
             l == z.list
  <2>1. a = [place |-> "list low", src |-> lst.src, len |-> z.len, list |-> l, edges |-> z.edges, rows |-> z.rows]
    BY <1>8
  <2> HIDE DEF a, l
  <2>2. a.place = "list low" /\ a.src = lst.src /\ a.list = l /\ a.edges = z.edges /\ a.rows = z.rows
    BY <2>1
  <2> QED BY <2>2 DEF a, l
<1>10. c[2] = [place |-> "len", src |-> c[1].src, len |-> c[1].len, list |-> c[1].list, edges |-> c[1].edges, rows |-> c[1].rows]
  BY <1>6, <1>9, ReadWordExact
<1>11. c[2].place = "len" /\ c[2].src = lst.src /\ c[2].list = <<>> /\ c[2].edges = z.edges /\ c[2].rows = z.rows
  <2> DEFINE a == c[1]
             b == c[2]
  <2> HIDE DEF a, b
  <2>1. b = [place |-> "len", src |-> a.src, len |-> a.len, list |-> a.list, edges |-> a.edges, rows |-> a.rows]
    BY <1>10 DEF a, b
  <2>2. a.src = lst.src /\ a.list = <<>> /\ a.edges = z.edges /\ a.rows = z.rows
    BY <1>1, <1>9 DEF a
  <2>3. b.place = "len" /\ b.src = lst.src /\ b.list = <<>> /\ b.edges = z.edges /\ b.rows = z.rows
    BY <2>1, <2>2
  <2> QED BY <2>3 DEF b
<1>12. c[3] = ListRead([place |-> "list", src |-> c[2].src, len |-> w[3].val, list |-> c[2].list, edges |-> c[2].edges, rows |-> c[2].rows])
  BY <1>6, <1>11, ReadWordExact
<1>13. H(0) = [place |-> "list", src |-> lst.src, len |-> n, list |-> <<>>, edges |-> z.edges, rows |-> z.rows]
  <2>1. [i \in 1 .. 0 |-> lst.tgts[first + i].local] = <<>>
    OBVIOUS
  <2> QED BY <2>1 DEF Half
<1>14. c[3] = ListRead(H(0))
  BY <1>7, <1>11, <1>12, <1>13
<1>15. \A j \in 0 .. n : /\ H(j) \in ReadState /\ H(j).place = "list" /\ H(j).src = lst.src /\ H(j).len = n /\ Len(H(j).list) = j
                         /\ H(j).edges = z.edges /\ H(j).rows = z.rows /\ H(j).list = [i \in 1 .. j |-> G(i)]
  BY <1>1, HalfTyped
<1> HIDE DEF H
<1>16. ASSUME NEW j \in 1 .. n, c[(j - 1) + 3] = ListRead(H(j - 1)) PROVE c[j + 3] = ListRead(H(j))
  <2> DEFINE h == H(j - 1)
             u == w[j + 3]
  <2>1. j - 1 \in 0 .. n /\ j \in 0 .. n /\ j + 3 \in 1 .. n + 3 /\ (j + 3) - 1 = (j - 1) + 3 /\ j - 1 < n /\ j \in Nat
    BY <1>2
  <2>2. /\ h \in ReadState /\ h.place = "list" /\ h.src = lst.src /\ h.len = n /\ Len(h.list) = j - 1
        /\ h.edges = z.edges /\ h.rows = z.rows /\ h.list = [i \in 1 .. j - 1 |-> G(i)]
    BY <1>15, <2>1
  <2>3. ListRead(h) = h
    BY <2>1, <2>2, ListReadExact
  <2>4. c[j + 3] = ReadWord(h, u) /\ u \in WordIn /\ u.val = G(j)
    <3>1. c[j + 3] = ReadWord(c[(j + 3) - 1], w[j + 3]) /\ w[j + 3] \in WordIn
      BY <1>4, <2>1
    <3>2. c[(j + 3) - 1] = h
      BY <1>16, <2>1, <2>3
    <3>3. w[j + 3].val = G(j)
      BY <1>2, WordsTyped
    <3> QED BY <3>1, <3>2, <3>3
  <2> HIDE DEF h, u
  <2>5. c[j + 3] = ListRead([place |-> h.place, src |-> h.src, len |-> h.len, list |-> Append(h.list, u.val), edges |-> h.edges, rows |-> h.rows])
    BY <2>2, <2>4, ReadWordExact
  <2>6. Append(h.list, u.val) = [i \in 1 .. j |-> G(i)]
    <3> DEFINE a == [i \in 1 .. j - 1 |-> G(i)]
               b == [i \in 1 .. j |-> G(i)]
    <3> HIDE DEF G
    <3>1. Append(a, G(j)) = b
      <4>1. \A i \in 1 .. j - 1 : i \in 1 .. n
        BY <1>2
      <4>2. a \in Seq(Nat) /\ Len(a) = j - 1
        BY <1>2, <2>1, <4>1
      <4>3. b \in Seq(Nat) /\ Len(b) = j
        BY <1>2, <2>1, <4>1
      <4>4. Append(a, G(j)) \in Seq(Nat) /\ Len(Append(a, G(j))) = j
        <5>1. G(j) \in Nat
          BY <1>2
        <5>2. Append(a, G(j)) \in Seq(Nat) /\ Len(Append(a, G(j))) = Len(a) + 1
          BY <4>2, <5>1, AppendTyped
        <5> QED BY <2>1, <4>2, <5>2
      <4>5. \A i \in 1 .. j : Append(a, G(j))[i] = b[i]
        <5> TAKE i \in 1 .. j
        <5>1. CASE i = j
          <6>1. Append(a, G(j))[j] = G(j)
            BY <2>1, <4>2
          <6> QED BY <5>1, <6>1
        <5>2. CASE i # j
          <6>1. i \in 1 .. j - 1
            BY <2>1, <5>2
          <6>2. Append(a, G(j))[i] = a[i]
            BY <4>2, <6>1
          <6> QED BY <6>1, <6>2
        <5> QED BY <5>1, <5>2
      <4> DEFINE d == Append(a, G(j))
      <4> HIDE DEF a, b, d
      <4>6. d = [i \in 1 .. j |-> d[i]]
        <5>1. d \in Seq(Nat) /\ Len(d) = j
          BY <4>4 DEF d
        <5> QED BY <5>1
      <4>7. b = [i \in 1 .. j |-> b[i]]
        BY <4>3
      <4> QED BY <4>5, <4>6, <4>7 DEF d
    <3> QED BY <2>2, <2>4, <3>1
  <2>7. H(j) = [place |-> "list", src |-> lst.src, len |-> n, list |-> [i \in 1 .. j |-> G(i)], edges |-> z.edges, rows |-> z.rows]
    BY DEF H, Half
  <2> QED BY <2>2, <2>5, <2>6, <2>7
<1>17. \A j \in 0 .. n : c[j + 3] = ListRead(H(j))
  <2> DEFINE T == {j \in 0 .. n : c[j + 3] = ListRead(H(j))}
  <2>1. 0 \in T
    BY <1>2, <1>14
  <2>2. \A j \in 1 .. n : j - 1 \in T => j \in T
    <3> TAKE j \in 1 .. n
    <3>1. j \in 0 .. n
      BY <1>2
    <3> QED BY <1>16, <3>1
  <2> HIDE DEF T
  <2>3. \A k \in 0 .. n : k \in T
    BY <1>2, <2>1, <2>2, UpTo
  <2> QED BY <2>3 DEF T
<1> DEFINE h == H(n)
           sp == Spread(lst.src, h.list, n)
<1>18. ReadAll(z, w) = ListRead(h) /\ h \in ReadState /\ Len(h.list) = h.len /\ h.src = lst.src /\ h.len = n
       /\ h.edges = z.edges /\ h.rows = z.rows /\ h.list = [i \in 1 .. n |-> G(i)]
  <2>1. n \in 0 .. n
    BY <1>2
  <2> QED BY <1>2, <1>3, <1>15, <1>17, <2>1
<1> HIDE DEF h
<1>19. ListRead(h) \in Ready /\ Gained(ListRead(h), e) = Gained(h, e) + Occ(sp, e)
  BY <1>18, ListComplete
<1>20. Gained(h, e) = Gained(z, e)
  BY <1>18 DEF Gained
<1>21. Occ(sp, e) = Between(lst, first, first + n, e)
  <2>1. first \in Nat /\ lst.tgts \in Seq(Target) /\ first + n <= Len(lst.tgts) /\ lst.src \in Int
    BY <1>2 DEF Piece, ListType
  <2>2. h.list \in Seq(Nat) /\ Len(h.list) = n
    BY <1>18, StateParts
  <2>3. sp \in Seq(Edge) /\ Len(sp) = n
    BY <1>2, <2>1, <2>2, SpreadTyped
  <2>4. \A q \in 1 .. n : sp[q] = Say(lst)[first + q]
    <3> TAKE q \in 1 .. n
    <3>1. first + q \in DOMAIN lst.tgts
      BY <1>2, <2>1
    <3>2. sp[q] = <<lst.src, G(q)>>
      BY <1>18 DEF Spread
    <3>3. Say(lst)[first + q] = <<lst.src, lst.tgts[first + q].local>>
      BY <3>1 DEF Say
    <3> QED BY <3>2, <3>3
  <2> HIDE DEF sp
  <2>5. \A q \in 1 .. n - 0 : sp[0 + q] = Say(lst)[first + q]
    <3> TAKE q \in 1 .. n - 0
    <3>1. q \in 1 .. n /\ 0 + q = q
      BY <1>2
    <3> QED BY <2>4, <3>1
  <2>6. SameStretch(sp, 0, n, Say(lst), first, first + n)
    BY <1>2, <2>1, <2>5 DEF SameStretch
  <2>7. Within(sp, 0, n, e) = Within(Say(lst), first, first + n, e)
    BY <2>6, WithinMoved
  <2> QED BY <2>3, <2>7, WithinAll DEF Between
<1> QED BY <1>18, <1>19, <1>20, <1>21 DEF w

-----------------------------------------------------------------------------
(* What is sent as words is heard *)

\* What a stream lets a vertex hear. Words that can follow a complete edge or
\* list, and are then complete themselves, let it hear the same behind any
\* others.
Gain(words, e) == Gained(ReadAll(Fresh, words), e)
Plain(words) ==
  \A z \in Ready :
    /\ ReadAll(z, words) \in Ready
    /\ \A e \in Edge : Gained(ReadAll(z, words), e) = Gained(z, e) + Gain(words, e)

LEMMA GainTyped ==
  ASSUME NEW words, Plain(words), NEW e \in Edge
  PROVE  Gain(words, e) \in Int
<1>1. ReadAll(Fresh, words) \in Ready
  BY FreshReady DEF Plain
<1>2. ReadAll(Fresh, words) \in ReadState
  BY <1>1 DEF Ready
<1> QED BY <1>2, GainedTyped DEF Gain

\* It is enough to know what a stretch adds.
Adds(words, g) ==
  /\ \A e \in Edge : g[e] \in Int
  /\ \A z \in Ready :
       /\ ReadAll(z, words) \in Ready
       /\ \A e \in Edge : Gained(ReadAll(z, words), e) = Gained(z, e) + g[e]
LEMMA PlainAdds ==
  ASSUME NEW words, NEW g, Adds(words, g)
  PROVE  Plain(words) /\ \A e \in Edge : Gain(words, e) = g[e]
<1>1. \A e \in Edge : Gain(words, e) = g[e]
  <2> TAKE e \in Edge
  <2>1. Gained(ReadAll(Fresh, words), e) = Gained(Fresh, e) + g[e] /\ g[e] \in Int
    BY FreshReady DEF Adds
  <2> QED BY <2>1, GainedFresh DEF Gain
<1> QED BY <1>1 DEF Plain, Adds
LEMMA AddsPlain ==
  ASSUME NEW words, Plain(words)
  PROVE  Adds(words, [e \in Edge |-> Gain(words, e)])
<1> DEFINE g == [e \in Edge |-> Gain(words, e)]
<1>1. \A e \in Edge : g[e] \in Int /\ g[e] = Gain(words, e)
  BY GainTyped
<1> HIDE DEF g
<1>2. \A z \in Ready : ReadAll(z, words) \in Ready
  BY DEF Plain
<1>3. \A z \in Ready : \A e \in Edge : Gained(ReadAll(z, words), e) = Gained(z, e) + g[e]
  BY <1>1 DEF Plain
<1>4. Adds(words, g)
  BY <1>1, <1>2, <1>3 DEF Adds
<1> QED BY <1>4 DEF g

LEMMA AddsJoin ==
  ASSUME NEW u \in Seq(WordIn), NEW v \in Seq(WordIn), NEW f, NEW g, Adds(u, f), Adds(v, g)
  PROVE  Adds(u \o v, [e \in Edge |-> f[e] + g[e]])
<1> DEFINE h == [e \in Edge |-> f[e] + g[e]]
           w == u \o v
<1>1. \A e \in Edge : f[e] \in Int /\ g[e] \in Int /\ h[e] = f[e] + g[e]
  BY DEF Adds
<1> HIDE DEF h
<1>2. ASSUME NEW z \in Ready
      PROVE  /\ ReadAll(z, w) \in Ready
             /\ \A e \in Edge : Gained(ReadAll(z, w), e) = Gained(z, e) + h[e]
  <2> DEFINE y == ReadAll(z, u)
  <2>1. z \in ReadState
    BY DEF Ready
  <2>2. y \in Ready /\ \A e \in Edge : Gained(y, e) = Gained(z, e) + f[e]
    BY DEF Adds
  <2>3. ReadAll(z, w) = ReadAll(y, v)
    BY <2>1, ReadJoin
  <2> HIDE DEF y, w
  <2>4. ReadAll(y, v) \in Ready /\ \A e \in Edge : Gained(ReadAll(y, v), e) = Gained(y, e) + g[e]
    BY <2>2 DEF Adds
  <2>5. \A e \in Edge : Gained(z, e) \in Int
    BY <2>1, GainedTyped
  <2>6. \A e \in Edge : Gained(ReadAll(z, w), e) = Gained(z, e) + h[e]
    BY <1>1, <2>2, <2>3, <2>4, <2>5
  <2> QED BY <2>3, <2>4, <2>6
<1> HIDE DEF w
<1>3. Adds(w, h)
  BY <1>1, <1>2 DEF Adds
<1> QED BY <1>3 DEF w, h

LEMMA PlainEmpty ==
  Plain(<<>>) /\ \A e \in Edge : Gain(<<>>, e) = 0
<1> DEFINE g == [e \in Edge |-> 0]
<1>1. \A z \in Ready : ReadAll(z, <<>>) = z /\ \A e \in Edge : Gained(z, e) \in Int
  BY ReadNone, GainedTyped DEF Ready
<1>2. Adds(<<>>, g)
  <2>1. \A e \in Edge : g[e] = 0
    OBVIOUS
  <2> HIDE DEF g
  <2> QED BY <1>1, <2>1 DEF Adds
<1>3. Plain(<<>>) /\ \A e \in Edge : Gain(<<>>, e) = g[e]
  BY <1>2, PlainAdds
<1> QED BY <1>3

LEMMA PlainJoin ==
  ASSUME NEW u \in Seq(WordIn), NEW v \in Seq(WordIn), Plain(u), Plain(v)
  PROVE  Plain(u \o v) /\ \A e \in Edge : Gain(u \o v, e) = Gain(u, e) + Gain(v, e)
<1> DEFINE f == [e \in Edge |-> Gain(u, e)]
           g == [e \in Edge |-> Gain(v, e)]
           h == [e \in Edge |-> f[e] + g[e]]
           w == u \o v
<1>1. Adds(u, f) /\ Adds(v, g)
  BY AddsPlain
<1>2. \A e \in Edge : f[e] = Gain(u, e) /\ g[e] = Gain(v, e) /\ h[e] = f[e] + g[e]
  OBVIOUS
<1> HIDE DEF f, g
<1>3. Adds(w, h)
  BY <1>1, AddsJoin
<1> HIDE DEF w, h
<1>4. Plain(w) /\ \A e \in Edge : Gain(w, e) = h[e]
  BY <1>3, PlainAdds
<1> QED BY <1>2, <1>4 DEF w

\* A packet whose words are complete and whose source is the last one.
SoundPacket(pk) == Plain(pk.words) /\ (pk.src # -1 => \A z \in Ready : ReadAll(z, pk.words).src = pk.src)

LEMMA SoundEmpty == SoundPacket(Empty) /\ Empty \in PacketType /\ \A e \in Edge : Gain(Empty.words, e) = 0
<1>1. Empty.words = <<>> /\ Empty.src = -1
  BY DEF Empty
<1>2. Empty \in PacketType
  BY DEF Empty, PacketType
<1> QED BY <1>1, <1>2, PlainEmpty DEF SoundPacket

\* One more edge in a packet, behind its source if that changes.
MorePacket(pk, src, v) ==
  [src |-> src,
   words |-> pk.words \o (IF pk.src # src THEN SourceWords(src) ELSE <<>>) \o <<Word("tgt", v)>>]
One(x, e) == IF x = e THEN 1 ELSE 0
LEMMA PacketMore ==
  ASSUME NEW pk \in PacketType, SoundPacket(pk), NEW src \in Nat, NEW v \in Nat
  PROVE  LET new == MorePacket(pk, src, v) IN
         /\ SoundPacket(new) /\ \A e \in Edge : Gain(new.words, e) = Gain(pk.words, e) + One(<<src, v>>, e)
<1> DEFINE u == pk.words
           head == IF pk.src # src THEN SourceWords(src) ELSE <<>>
           last == <<Word("tgt", v)>>
           uh == u \o head
           w == uh \o last
           g == [e \in Edge |-> Gain(u, e) + One(<<src, v>>, e)]
<1>1. u \in Seq(WordIn) /\ head \in Seq(WordIn) /\ last \in Seq(WordIn) /\ uh \in Seq(WordIn)
  <2>1. u \in Seq(WordIn)
    BY WordsTyped DEF PacketType
  <2>2. SourceWords(src) \in Seq(WordIn) /\ last \in Seq(WordIn) /\ <<>> \in Seq(WordIn)
    BY WordsTyped DEF SourceWords
  <2> HIDE DEF u, last
  <2>3. head \in Seq(WordIn)
    BY <2>2
  <2> HIDE DEF head
  <2> QED BY <2>1, <2>2, <2>3, JoinTyped
<1>2. Plain(u) /\ (pk.src # -1 => \A z \in Ready : ReadAll(z, u).src = pk.src)
  BY DEF SoundPacket
<1>3. \A e \in Edge : Gain(u, e) \in Int /\ One(<<src, v>>, e) \in Int
  BY <1>2, GainTyped DEF One
<1> DEFINE x == <<src, v>>
<1> HIDE DEF u, x
<1>4. \A e \in Edge : g[e] = Gain(u, e) + One(x, e) /\ g[e] \in Int
  BY <1>3 DEF x
<1> HIDE DEF uh, last, head, g
<1>5. ASSUME NEW z \in Ready
      PROVE  /\ ReadAll(z, w) \in Ready /\ ReadAll(z, w).src = src
             /\ \A e \in Edge : Gained(ReadAll(z, w), e) = Gained(z, e) + g[e]
  <2> DEFINE a == ReadAll(z, u)
             b == ReadAll(a, head)
             c == ReadAll(b, last)
  <2>1. z \in ReadState /\ \A e \in Edge : Gained(z, e) \in Int
    BY GainedTyped DEF Ready
  <2>2. a \in Ready /\ a \in ReadState /\ \A e \in Edge : Gained(a, e) = Gained(z, e) + Gain(u, e)
    BY <1>2 DEF Plain, Ready
  <2>3. ReadAll(z, uh) = b
    BY <1>1, <2>1, ReadJoin DEF uh
  <2>4. ReadAll(z, w) = ReadAll(ReadAll(z, uh), last)
    BY <1>1, <2>1, ReadJoin
  <2>5. b \in Ready /\ b.src = src /\ \A e \in Edge : Gained(b, e) = Gained(a, e)
    <3> HIDE DEF a
    <3>1. CASE pk.src # src
      <4>1. head = SourceWords(src)
        BY <3>1 DEF head
      <4> QED BY <2>2, <4>1, SourceRead
    <3>2. CASE pk.src = src
      <4>1. head = <<>>
        BY <3>2 DEF head
      <4>2. b = a
        BY <2>2, <4>1, ReadNone
      <4>3. pk.src # -1
        BY <3>2
      <4>4. a.src = pk.src
        BY <1>2, <4>3 DEF a
      <4> QED BY <2>2, <3>2, <4>2, <4>4
    <3> QED BY <3>1, <3>2
  <2> HIDE DEF a, b
  <2>6. ASSUME NEW e \in Edge
        PROVE  c \in Ready /\ c.src = b.src /\ Gained(c, e) = Gained(b, e) + One(<<b.src, v>>, e)
    BY <2>5, TargetRead DEF last, One
  <2>7. ReadAll(z, w) = c
    BY <2>3, <2>4
  <2> HIDE DEF c, w
  <2>8. <<0, 0>> \in Edge
    BY DEF Edge
  <2>9. ReadAll(z, w) \in Ready /\ ReadAll(z, w).src = src
    BY <2>5, <2>6, <2>7, <2>8
  <2>10. ASSUME NEW e \in Edge PROVE Gained(ReadAll(z, w), e) = Gained(z, e) + g[e]
    <3>1. Gained(c, e) = Gained(b, e) + One(x, e)
      BY <2>5, <2>6 DEF x
    <3>2. Gained(b, e) = Gained(z, e) + Gain(u, e)
      BY <2>2, <2>5
    <3>3. Gain(u, e) \in Int /\ One(x, e) \in Int /\ Gained(z, e) \in Int /\ g[e] = Gain(u, e) + One(x, e)
      BY <1>3, <1>4, <2>1 DEF x
    <3> QED BY <2>7, <3>1, <3>2, <3>3
  <2> QED BY <2>9, <2>10
<1>6. MorePacket(pk, src, v).src = src /\ MorePacket(pk, src, v).words = w
  BY DEF MorePacket, uh, u, head, last
<1> HIDE DEF w
<1>7. Adds(w, g)
  BY <1>4, <1>5 DEF Adds
<1>8. Plain(w) /\ \A e \in Edge : Gain(w, e) = g[e]
  BY <1>7, PlainAdds
<1>9. SoundPacket(MorePacket(pk, src, v))
  BY <1>5, <1>6, <1>8 DEF SoundPacket
<1> QED BY <1>4, <1>6, <1>8, <1>9 DEF x, u

\* The edges of a row with their targets' ranks, and the one that rank t
\* hears as e.
Aim(row) == [j \in DOMAIN row.tgts |-> <<row.tgts[j].dest, row.src, row.tgts[j].local>>]
Wish(t, e) == <<t, e[1], e[2]>>

\* What a thread has sent or still has for rank t.
Held(acc, t, e) == Gain(acc.stream[t], e) + Gain(acc.pk[t].words, e)
SoundSend(acc) == \A t \in Rank : Plain(acc.stream[t]) /\ SoundPacket(acc.pk[t])
LEMMA HeldTyped ==
  ASSUME NEW acc, SoundSend(acc), NEW t \in Rank, NEW e \in Edge
  PROVE  /\ Held(acc, t, e) \in Int /\ Gain(acc.stream[t], e) \in Int /\ Gain(acc.pk[t].words, e) \in Int
<1>1. Plain(acc.stream[t]) /\ Plain(acc.pk[t].words)
  BY DEF SoundSend, SoundPacket
<1>2. Gain(acc.stream[t], e) \in Int /\ Gain(acc.pk[t].words, e) \in Int
  BY <1>1, GainTyped
<1> QED BY <1>2 DEF Held

LEMMA SendEdgeExact ==
  ASSUME NEW acc \in SendState, SoundSend(acc), NEW src \in Nat, NEW tgt \in Target
  PROVE  LET new == SendEdge(acc, src, tgt) IN
         /\ SoundSend(new)
         /\ \A t \in Rank, e \in Edge :
              Held(new, t, e) = Held(acc, t, e) + One(<<tgt.dest, src, tgt.local>>, Wish(t, e))
<1> DEFINE d    == tgt.dest
           v    == tgt.local
           full == Len(acc.pk[d].words) > PacketLength - 3
           pk   == IF full THEN Sent(acc.pk[d]) ELSE acc.pk[d]
           more == MorePacket(pk, src, v)
           st   == IF full THEN [acc.stream EXCEPT ![d] = @ \o acc.pk[d].words] ELSE acc.stream
           new  == SendEdge(acc, src, tgt)
<1>1. new = [stream |-> st, pk |-> [acc.pk EXCEPT ![d] = more]]
  BY DEF SendEdge, MorePacket
<1>2. d \in Rank /\ v \in Nat /\ acc.pk \in [Rank -> PacketType] /\ acc.stream \in [Rank -> Seq(WordType)]
  BY DEF Target, SendState
<1> HIDE DEF new
<1>3. acc.pk[d] \in PacketType /\ acc.stream[d] \in Seq(WordIn) /\ acc.pk[d].words \in Seq(WordIn)
  BY <1>2, WordsTyped DEF PacketType
<1>4. Plain(acc.stream[d]) /\ SoundPacket(acc.pk[d]) /\ Plain(acc.pk[d].words)
  BY <1>2 DEF SoundSend, SoundPacket
<1>5. pk \in PacketType /\ SoundPacket(pk)
  BY <1>3, <1>4, SoundEmpty DEF Sent
<1>6. st[d] = IF full THEN acc.stream[d] \o acc.pk[d].words ELSE acc.stream[d]
  BY <1>2
<1>7. \A t \in Rank : t # d => st[t] = acc.stream[t]
  BY <1>2
<1>8. /\ Plain(st[d])
      /\ \A e \in Edge : Gain(st[d], e) + Gain(pk.words, e) = Gain(acc.stream[d], e) + Gain(acc.pk[d].words, e)
      /\ \A e \in Edge : Gain(st[d], e) \in Int /\ Gain(pk.words, e) \in Int
  <2>1. CASE full
    <3>1. st[d] = acc.stream[d] \o acc.pk[d].words /\ pk = Empty
      BY <1>6, <2>1 DEF Sent
    <3>5. acc.stream[d] \in Seq(WordIn) /\ acc.pk[d].words \in Seq(WordIn)
      BY <1>3
    <3>6. /\ Plain(acc.stream[d] \o acc.pk[d].words)
          /\ \A e \in Edge : Gain(acc.stream[d] \o acc.pk[d].words, e) = Gain(acc.stream[d], e) + Gain(acc.pk[d].words, e)
      BY <1>4, <3>5, PlainJoin
    <3>2. Plain(st[d]) /\ \A e \in Edge : Gain(st[d], e) = Gain(acc.stream[d], e) + Gain(acc.pk[d].words, e)
      BY <3>1, <3>6
    <3>3. \A e \in Edge : Gain(pk.words, e) = 0
      BY <3>1, SoundEmpty
    <3>4. \A e \in Edge : Gain(acc.stream[d], e) \in Int /\ Gain(acc.pk[d].words, e) \in Int
      BY <1>4, GainTyped
    <3> HIDE DEF st, pk, d
    <3> QED BY <3>2, <3>3, <3>4
  <2>2. CASE ~ full
    <3>1. st[d] = acc.stream[d] /\ pk = acc.pk[d]
      BY <1>6, <2>2
    <3> HIDE DEF st, pk, d
    <3> QED BY <1>4, <3>1, GainTyped
  <2> QED BY <2>1, <2>2
<1> HIDE DEF st, pk
<1>9. SoundPacket(more) /\ \A e \in Edge : Gain(more.words, e) = Gain(pk.words, e) + One(<<src, v>>, e)
  BY <1>2, <1>5, PacketMore
<1> HIDE DEF more
<1>10. new.stream = st /\ new.pk[d] = more /\ \A t \in Rank : t # d => new.pk[t] = acc.pk[t]
  BY <1>1, <1>2
<1>11. SoundSend(new)
  <2> SUFFICES ASSUME NEW t \in Rank PROVE Plain(new.stream[t]) /\ SoundPacket(new.pk[t])
    BY DEF SoundSend
  <2>1. CASE t = d
    BY <1>8, <1>9, <1>10, <2>1
  <2>2. CASE t # d
    <3>1. new.stream[t] = acc.stream[t] /\ new.pk[t] = acc.pk[t]
      BY <1>7, <1>10, <2>2
    <3> QED BY <3>1 DEF SoundSend
  <2> QED BY <2>1, <2>2
<1>12. ASSUME NEW t \in Rank, NEW e \in Edge
       PROVE  Held(new, t, e) = Held(acc, t, e) + One(<<d, src, v>>, Wish(t, e))
  <2>0. e = <<e[1], e[2]>>
    BY DEF Edge
  <2>1. CASE t = d
    <3>1. Held(new, t, e) = Gain(st[d], e) + Gain(more.words, e)
      BY <1>10, <2>1 DEF Held
    <3>2. Held(acc, t, e) = Gain(acc.stream[d], e) + Gain(acc.pk[d].words, e)
      BY <2>1 DEF Held
    <3>3. One(<<d, src, v>>, Wish(t, e)) = One(<<src, v>>, e) /\ One(<<src, v>>, e) \in Int
      BY <2>0, <2>1 DEF One, Wish
    <3>4. Gain(more.words, e) = Gain(pk.words, e) + One(<<src, v>>, e)
      BY <1>9
    <3>5. /\ Gain(st[d], e) + Gain(pk.words, e) = Gain(acc.stream[d], e) + Gain(acc.pk[d].words, e)
          /\ Gain(st[d], e) \in Int /\ Gain(pk.words, e) \in Int
      BY <1>8
    <3> QED BY <3>1, <3>2, <3>3, <3>4, <3>5
  <2>2. CASE t # d
    <3>1. new.stream[t] = acc.stream[t] /\ new.pk[t] = acc.pk[t]
      BY <1>7, <1>10, <2>2
    <3>2. One(<<d, src, v>>, Wish(t, e)) = 0
      BY <2>2 DEF One, Wish
    <3>3. Held(new, t, e) = Held(acc, t, e) /\ Held(acc, t, e) \in Int
      BY <3>1, HeldTyped DEF Held
    <3> QED BY <3>2, <3>3
  <2> QED BY <2>1, <2>2
<1> QED BY <1>11, <1>12 DEF new

LEMMA WithinNext ==
  ASSUME NEW s, NEW e, NEW k \in Nat, k >= 1
  PROVE  Within(s, 0, k, e) = Within(s, 0, k - 1, e) + One(s[k], e) /\ Within(s, 0, k - 1, e) \in Nat
<1>0. k - 1 \in Nat /\ k - 1 <= k /\ 0 <= k - 1
  OBVIOUS
<1>1. Within(s, 0, k, e) = Within(s, 0, k - 1, e) + Within(s, k - 1, k, e)
  BY <1>0, WithinSplit
<1>2. Within(s, k - 1, k, e) = One(s[k], e)
  <2> DEFINE A == {q \in (k - 1) + 1 .. k : s[q] = e}
  <2>0. \A q : q \in (k - 1) + 1 .. k <=> q = k
    OBVIOUS
  <2>1. CASE s[k] = e
    <3>1. A = {k}
      BY <2>0, <2>1
    <3> QED BY <2>1, <3>1, FS_Singleton DEF Within, One
  <2>2. CASE s[k] # e
    <3>1. A = {}
      BY <2>0, <2>2
    <3> QED BY <2>2, <3>1, FS_EmptySet DEF Within, One
  <2> QED BY <2>1, <2>2
<1> QED BY <1>0, <1>1, <1>2, WithinTyped

\* The first m edges of a row are held, each once and for its target.
LEMMA SendWordsExact ==
  ASSUME NEW acc \in SendState, SoundSend(acc), NEW row \in Row, NEW m \in 0 .. Len(row.tgts)
  PROVE  LET new == SendWords(acc, row, m) IN
         /\ SoundSend(new)
         /\ \A t \in Rank, e \in Edge : Held(new, t, e) = Held(acc, t, e) + Within(Aim(row), 0, m, Wish(t, e))
<1>1. PICK c \in [0 .. m -> SendState] :
           /\ c[0] = acc
           /\ \A k \in 1 .. m : c[k] = SendEdge(c[k - 1], row.src, row.tgts[k])
           /\ SendWords(acc, row, m) = c[m]
  BY SendWordsSteps
<1>2. m \in Nat /\ row.src \in Nat /\ \A k \in 1 .. m : row.tgts[k] \in Target /\ k \in DOMAIN row.tgts
  BY DEF Row
<1> DEFINE Good(k) == /\ SoundSend(c[k])
                      /\ \A t \in Rank, e \in Edge :
                           Held(c[k], t, e) = Held(acc, t, e) + Within(Aim(row), 0, k, Wish(t, e))
           T == {k \in 0 .. m : Good(k)}
<1>3. Good(0)
  <2>1. \A t \in Rank, e \in Edge : Within(Aim(row), 0, 0, Wish(t, e)) = 0 /\ Held(acc, t, e) \in Int
    BY WithinNone, HeldTyped
  <2> QED BY <1>1, <2>1
<1>4. ASSUME NEW k \in 1 .. m, Good(k - 1) PROVE Good(k)
  <2> DEFINE a == c[k - 1]
             b == c[k]
             g == row.tgts[k]
  <2>1. k - 1 \in 0 .. m /\ k \in Nat /\ k >= 1
    BY <1>2
  <2>2. a \in SendState /\ b = SendEdge(a, row.src, g) /\ g \in Target
    BY <1>1, <1>2, <2>1
  <2>3. SoundSend(a) /\ \A t \in Rank, e \in Edge : Held(a, t, e) = Held(acc, t, e) + Within(Aim(row), 0, k - 1, Wish(t, e))
    BY <1>4
  <2>4. Aim(row)[k] = <<g.dest, row.src, g.local>>
    BY <1>2 DEF Aim
  <2> HIDE DEF a, b, g
  <2>5. /\ SoundSend(b)
        /\ \A t \in Rank, e \in Edge : Held(b, t, e) = Held(a, t, e) + One(<<g.dest, row.src, g.local>>, Wish(t, e))
    BY <1>2, <2>2, <2>3, SendEdgeExact
  <2>6. ASSUME NEW t \in Rank, NEW e \in Edge
        PROVE  Held(b, t, e) = Held(acc, t, e) + Within(Aim(row), 0, k, Wish(t, e))
    <3> DEFINE x == Wish(t, e)
    <3>1. Held(b, t, e) = Held(a, t, e) + One(Aim(row)[k], x) /\ Held(a, t, e) = Held(acc, t, e) + Within(Aim(row), 0, k - 1, x)
      BY <2>3, <2>4, <2>5
    <3> HIDE DEF x
    <3>2. Within(Aim(row), 0, k, x) = Within(Aim(row), 0, k - 1, x) + One(Aim(row)[k], x) /\ Within(Aim(row), 0, k - 1, x) \in Nat
      BY <2>1, WithinNext
    <3>3. Held(acc, t, e) \in Int /\ One(Aim(row)[k], x) \in Int
      BY HeldTyped DEF One
    <3>4. Held(b, t, e) = Held(acc, t, e) + Within(Aim(row), 0, k, x)
      BY <3>1, <3>2, <3>3
    <3> QED BY <3>4 DEF x
  <2> QED BY <2>5, <2>6 DEF b
<1> HIDE DEF Good
<1>5. 0 \in T /\ \A k \in 1 .. m : k - 1 \in T => k \in T
  BY <1>2, <1>3, <1>4
<1> HIDE DEF T
<1>6. \A k \in 0 .. m : k \in T
  BY <1>2, <1>5, UpTo
<1>7. Good(m)
  BY <1>2, <1>6 DEF T
<1> QED BY <1>1, <1>7 DEF Good

\* What the threads have left goes out.
Leftover(pks, t, e) == [h \in 1 .. NumThreads |-> Gain(pks[h][t].words, e)]
LEMMA FlushedExact ==
  ASSUME NEW words \in Seq(WordType), NEW pks \in [Thread -> [Rank -> PacketType]], NEW t \in Rank,
         Plain(words), \A h \in Thread : SoundPacket(pks[h][t])
  PROVE  LET new == Flushed(words, pks, t) IN
         /\ Plain(new)
         /\ \A e \in Edge : Gain(new, e) = Gain(words, e) + Total(Leftover(pks, t, e), NumThreads)
<1> DEFINE N == NumThreads
<1>1. PICK c : FlushedBy(words, pks, t, c)
  BY FlushedSteps
<1>2. /\ c \in [0 .. N -> WordSeq] /\ c[0] = words
      /\ \A k \in 1 .. N : c[k] = c[k - 1] \o pks[k][t].words
      /\ Flushed(words, pks, t) = c[N]
  BY <1>1 DEF FlushedBy
<1>3. N \in Nat /\ \A k \in 1 .. N : k \in Thread
  BY Places
<1>4. \A k \in 1 .. N : pks[k][t].words \in Seq(WordIn) /\ Plain(pks[k][t].words)
  <2> TAKE k \in 1 .. N
  <2>1. pks[k][t] \in PacketType /\ SoundPacket(pks[k][t])
    BY <1>3
  <2> QED BY <2>1, WordsTyped DEF PacketType, SoundPacket
<1> HIDE DEF N
<1>5. \A e \in Edge : Numbers(Leftover(pks, t, e), N)
  <2> TAKE e \in Edge
  <2>1. \A k \in 1 .. N : Leftover(pks, t, e)[k] = Gain(pks[k][t].words, e)
    BY DEF Leftover, N
  <2>2. \A k \in 1 .. N : Leftover(pks, t, e)[k] \in Int
    BY <1>4, <2>1, GainTyped
  <2> QED BY <1>3, <2>2 DEF Numbers
<1> DEFINE Good(k) == /\ Plain(c[k])
                      /\ \A e \in Edge : Gain(c[k], e) = Gain(words, e) + Totals(Leftover(pks, t, e), N)[k]
           T == {k \in 0 .. N : Good(k)}
<1>6. Good(0)
  <2>1. \A e \in Edge : Totals(Leftover(pks, t, e), N)[0] = 0 /\ Gain(words, e) \in Int
    BY <1>5, TotalSteps, GainTyped
  <2> QED BY <1>2, <2>1
<1>7. ASSUME NEW k \in 1 .. N, Good(k - 1) PROVE Good(k)
  <2> DEFINE a == c[k - 1]
             b == c[k]
             u == pks[k][t].words
  <2>1. k - 1 \in 0 .. N
    BY <1>3
  <2>2. a \in Seq(WordIn) /\ u \in Seq(WordIn) /\ Plain(u) /\ b = a \o u
    BY <1>2, <1>4, <2>1, WordsTyped DEF WordSeq
  <2>3. Plain(a) /\ \A e \in Edge : Gain(a, e) = Gain(words, e) + Totals(Leftover(pks, t, e), N)[k - 1]
    BY <1>7
  <2>4. \A e \in Edge : Leftover(pks, t, e)[k] = Gain(u, e)
    BY DEF Leftover, N
  <2> HIDE DEF a, b, u
  <2>5. Plain(b) /\ \A e \in Edge : Gain(b, e) = Gain(a, e) + Gain(u, e)
    BY <2>2, <2>3, PlainJoin
  <2>6. ASSUME NEW e \in Edge PROVE Gain(b, e) = Gain(words, e) + Totals(Leftover(pks, t, e), N)[k]
    <3> DEFINE f == Leftover(pks, t, e)
    <3> HIDE DEF f
    <3>1. Totals(f, N)[k] = Totals(f, N)[k - 1] + f[k]
      BY <1>5, TotalSteps DEF f
    <3>2. Totals(f, N)[k - 1] \in Int
      BY <1>5, <2>1, TotalSteps DEF f
    <3>3. Gain(words, e) \in Int /\ Gain(u, e) \in Int
      BY <2>2, GainTyped
    <3>4. Gain(a, e) = Gain(words, e) + Totals(f, N)[k - 1] /\ f[k] = Gain(u, e)
      BY <2>3, <2>4 DEF f
    <3>5. Gain(b, e) = Gain(words, e) + Totals(f, N)[k]
      BY <2>5, <3>1, <3>2, <3>3, <3>4
    <3> QED BY <3>5 DEF f
  <2> QED BY <2>5, <2>6 DEF b
<1> HIDE DEF Good
<1>8. 0 \in T /\ \A k \in 1 .. N : k - 1 \in T => k \in T
  BY <1>3, <1>6, <1>7
<1> HIDE DEF T
<1>9. \A k \in 0 .. N : k \in T
  BY <1>3, <1>8, UpTo
<1>10. Good(N)
  BY <1>3, <1>9 DEF T
<1> QED BY <1>2, <1>10 DEF Good, Total, N

-----------------------------------------------------------------------------
(* A long row is split by target *)

\* Targets in the order in which they are stored.
Sorted(seq) == \A j \in 2 .. Len(seq) : seq[j - 1].dest <= seq[j].dest
LEMMA SortedDests ==
  ASSUME NEW seq \in Seq(Target), Sorted(seq)
  PROVE  /\ \A j \in 1 .. Len(seq) : seq[j].dest \in Rank /\ seq[j].dest \in Nat
         /\ \A i, j \in 1 .. Len(seq) : i <= j => seq[i].dest <= seq[j].dest
<1> DEFINE n == Len(seq)
           D(j) == seq[j].dest
<1>1. n \in Nat /\ \A j \in 1 .. n : D(j) \in Rank /\ D(j) \in Nat
  <2>1. n \in Nat /\ \A j \in 1 .. n : seq[j] \in Target
    OBVIOUS
  <2>2. \A j \in 1 .. n : D(j) \in Rank
    BY <2>1 DEF Target
  <2>3. \A d \in Rank : d \in Nat
    BY Places
  <2> QED BY <2>1, <2>2, <2>3
<1>2. \A j \in 2 .. n : D(j - 1) <= D(j)
  BY DEF Sorted
<1> HIDE DEF D, n
<1>3. ASSUME NEW i \in 1 .. n, NEW j \in 1 .. n, i <= j PROVE D(i) <= D(j)
  <2> DEFINE m == j - i
             T == {k \in 0 .. m : D(i) <= D(i + k)}
  <2>1. m \in Nat /\ i + m = j /\ \A k \in 0 .. m : i + k \in 1 .. n
    BY <1>1, <1>3
  <2>2. 0 \in T
    <3>1. i + 0 = i /\ D(i) \in Nat
      BY <1>1
    <3> QED BY <2>1, <3>1
  <2>3. ASSUME NEW k \in 1 .. m, k - 1 \in T PROVE k \in T
    <3>1. i + k \in 2 .. n /\ (i + k) - 1 = i + (k - 1) /\ k \in 0 .. m /\ i + (k - 1) \in 1 .. n /\ i + k \in 1 .. n
      BY <1>1, <1>3, <2>1
    <3>2. D(i) <= D(i + (k - 1)) /\ D((i + k) - 1) <= D(i + k)
      BY <1>2, <2>3, <3>1
    <3>3. D(i) \in Nat /\ D(i + (k - 1)) \in Nat /\ D(i + k) \in Nat
      BY <1>1, <3>1
    <3> QED BY <3>1, <3>2, <3>3
  <2> HIDE DEF T, m
  <2>4. \A k \in 0 .. m : k \in T
    BY <2>1, <2>2, <2>3, UpTo
  <2>5. m \in T
    BY <2>1, <2>4
  <2> QED BY <2>1, <2>5 DEF T
<1> QED BY <1>1, <1>3 DEF D, n

\* What the bisection knows: the end is behind lo and not behind hi.
Bisects(seq, d, s) ==
  /\ s \in HalfState(Len(seq)) /\ s.lo <= s.next /\ s.next < s.hi
  /\ seq[s.lo + 1].dest <= d
  /\ s.hi < Len(seq) => seq[s.hi + 1].dest > d
LEMMA HalveExact ==
  ASSUME NEW seq \in Seq(Target), NEW d \in Rank, Len(seq) >= 1, NEW s, Bisects(seq, d, s)
  PROVE  LET z == Halve(seq, d, s) IN
         /\ Bisects(seq, d, z) /\ z.next = (z.lo + z.hi) \div 2
         /\ s.lo < s.next => z.hi - z.lo < s.hi - s.lo
<1> DEFINE n  == Len(seq)
           b  == seq[s.next + 1].dest > d
           lo == IF b THEN s.lo ELSE s.next
           hi == IF b THEN s.next ELSE s.hi
           z  == Halve(seq, d, s)
           m  == (lo + hi) \div 2
<1>1. /\ n \in Nat /\ n >= 1 /\ s.lo \in 0 .. n /\ s.hi \in 0 .. n /\ s.next \in 0 .. n - 1
      /\ s.lo <= s.next /\ s.next < s.hi
  BY DEF HalfState, Bisects
<1>2. z = [lo |-> lo, hi |-> hi, next |-> m]
  BY DEF Halve
<1>3. z \in HalfState(n)
  BY HalveType DEF Bisects
<1> HIDE DEF z
<1>4. z.lo = lo /\ z.hi = hi /\ z.next = m
  BY <1>2
<1>5. d \in Nat /\ seq[s.next + 1].dest \in Nat /\ seq[s.lo + 1].dest \in Nat
  <2>1. s.next + 1 \in 1 .. Len(seq)
    BY <1>1
  <2>2. s.lo + 1 \in 1 .. Len(seq)
    BY <1>1
  <2>6. \A k \in 1 .. Len(seq) : seq[k].dest \in Nat
    <3> TAKE k \in 1 .. Len(seq)
    <3>1. seq[k] \in Target
      OBVIOUS
    <3> QED BY <3>1, Places DEF Target
  <2>3. seq[s.next + 1].dest \in Nat
    BY <2>1, <2>6
  <2>4. seq[s.lo + 1].dest \in Nat
    BY <2>2, <2>6
  <2>5. d \in Nat
    BY Places
  <2> QED BY <2>3, <2>4, <2>5
<1>6. s.lo = s.next => ~ b
  BY <1>5 DEF Bisects
<1> HIDE DEF n
<1>7. lo \in Nat /\ hi \in Nat /\ lo < hi /\ (s.lo < s.next => hi - lo < s.hi - s.lo)
  <2>1. CASE b
    BY <1>1, <1>6, <2>1
  <2>2. CASE ~ b
    BY <1>1, <1>6, <2>2
  <2> QED BY <2>1, <2>2
<1>8. seq[lo + 1].dest <= d
  <2>1. CASE b
    BY <2>1 DEF Bisects
  <2>2. CASE ~ b
    BY <1>5, <2>2
  <2> QED BY <2>1, <2>2
<1>9. hi < n => seq[hi + 1].dest > d
  <2>1. CASE b
    BY <2>1
  <2>2. CASE ~ b
    BY <2>2 DEF Bisects, n
  <2> QED BY <2>1, <2>2
<1> HIDE DEF lo, hi
<1>10. lo <= m /\ m < hi
  BY <1>7
<1> HIDE DEF m
<1>11. Bisects(seq, d, z)
  BY <1>3, <1>4, <1>8, <1>9, <1>10 DEF Bisects, n
<1> QED BY <1>4, <1>7, <1>11 DEF z, m

\* The end of the targets up to rank d is found.
LEMMA EndExact ==
  ASSUME NEW seq \in Seq(Target), Sorted(seq), NEW d \in Rank, NEW start \in 0 .. Len(seq) - 1,
         seq[start + 1].dest <= d
  PROVE  LET end == EndOfTarget(seq, start, d) IN
         end \in start + 1 .. Len(seq) /\ \A j \in 1 .. Len(seq) : j <= end <=> seq[j].dest <= d
<1> DEFINE n == Len(seq)
           S == HalfState(n)
           first == FirstHalf(seq, start, d)
<1>1. PICK c \in [0 .. n -> S] :
           /\ c[0] = Halve(seq, d, FirstHalf(seq, start, d))
           /\ \A k \in 1 .. n : c[k] = IF c[k - 1].lo < c[k - 1].next THEN Halve(seq, d, c[k - 1]) ELSE c[k - 1]
           /\ EndOfTarget(seq, start, d) = c[n].hi
  BY EndOfTargetSteps
<1>2. n \in Nat /\ n >= 1 /\ start \in Nat /\ start <= n - 1
  OBVIOUS
<1>3. Bisects(seq, d, first)
  <2> DEFINE q == (n - start) \div (NumRanks - d)
             x == start + q * 2
  <2>1. NumRanks - d \in Nat \ {0} /\ n - start \in Nat
    BY Places, <1>2
  <2>2. q \in Nat
    BY <2>1
  <2>3. first = [lo |-> start, hi |-> n, next |-> Min({x, n - 1})]
    BY DEF FirstHalf
  <2> HIDE DEF n, q, first
  <2>4. x \in Nat /\ x >= start
    BY <1>2, <2>2
  <2> HIDE DEF x
  <2>5. Min({x, n - 1}) = IF x <= n - 1 THEN x ELSE n - 1
    BY <1>2, <2>4, MinOfTwo
  <2> DEFINE m == Min({x, n - 1})
  <2>6. m \in 0 .. n - 1 /\ m >= start
    BY <1>2, <2>4, <2>5
  <2> HIDE DEF m
  <2>7. first = [lo |-> start, hi |-> n, next |-> m]
    BY <2>3 DEF m
  <2>8. first.lo = start /\ first.hi = n /\ first.next = m
    BY <2>7
  <2>9. first \in HalfState(n)
    BY <1>2, <2>6, <2>7 DEF HalfState
  <2> QED BY <1>2, <2>6, <2>8, <2>9 DEF Bisects, n
<1> DEFINE Good(k) == /\ Bisects(seq, d, c[k]) /\ c[k].next = (c[k].lo + c[k].hi) \div 2
                      /\ c[k].hi - c[k].lo <= n - k \/ ~ (c[k].lo < c[k].next)
           T == {k \in 0 .. n : Good(k)}
<1>4. Good(0)
  <2> DEFINE y == c[0]
  <2>1. Bisects(seq, d, y) /\ y.next = (y.lo + y.hi) \div 2
    BY <1>1, <1>2, <1>3, HalveExact
  <2>2. y.hi \in 0 .. n /\ y.lo \in 0 .. n
    BY <2>1 DEF Bisects, HalfState
  <2> HIDE DEF y
  <2>3. y.hi - y.lo <= n - 0
    BY <1>2, <2>2
  <2> QED BY <2>1, <2>3 DEF y
<1>5. ASSUME NEW k \in 1 .. n, Good(k - 1) PROVE Good(k)
  <2> DEFINE y == c[k - 1]
             z == c[k]
  <2>1. z = IF y.lo < y.next THEN Halve(seq, d, y) ELSE y
    BY <1>1
  <2>2. Bisects(seq, d, y) /\ y.next = (y.lo + y.hi) \div 2 /\ (y.hi - y.lo <= n - (k - 1) \/ ~ (y.lo < y.next))
    BY <1>5
  <2> HIDE DEF y, z
  <2>3. CASE y.lo < y.next
    <3>1. z = Halve(seq, d, y)
      BY <2>1, <2>3
    <3>0. Len(seq) >= 1 /\ Bisects(seq, d, y)
      BY <1>2, <2>2
    <3>2. Bisects(seq, d, z) /\ z.next = (z.lo + z.hi) \div 2 /\ z.hi - z.lo < y.hi - y.lo
      BY <2>3, <3>0, <3>1, HalveExact
    <3>3. y.hi \in Nat /\ y.lo \in Nat /\ z.hi \in Nat /\ z.lo \in Nat
      BY <1>2, <2>2, <3>2 DEF Bisects, HalfState
    <3>4. z.hi - z.lo <= n - k
      <4>1. y.hi - y.lo <= n - (k - 1)
        BY <2>2, <2>3
      <4>2. n \in Nat /\ k \in Nat
        BY <1>2
      <4> HIDE DEF n
      <4> QED BY <3>2, <3>3, <4>1, <4>2
    <3> QED BY <3>2, <3>4 DEF z
  <2>4. CASE ~ (y.lo < y.next)
    <3>1. z = y
      BY <2>1, <2>4
    <3> QED BY <2>2, <2>4, <3>1 DEF z
  <2> QED BY <2>3, <2>4
<1> HIDE DEF Good
<1>6. 0 \in T /\ \A k \in 1 .. n : k - 1 \in T => k \in T
  BY <1>2, <1>4, <1>5
<1> HIDE DEF T
<1>7. \A k \in 0 .. n : k \in T
  BY <1>2, <1>6, UpTo
<1> DEFINE y == c[n]
<1>8. Bisects(seq, d, y) /\ y.next = (y.lo + y.hi) \div 2 /\ (y.hi - y.lo <= n - n \/ ~ (y.lo < y.next))
  <2>1. Good(n)
    BY <1>2, <1>7 DEF T
  <2> QED BY <2>1 DEF Good
<1>9. EndOfTarget(seq, start, d) = y.hi
  BY <1>1
<1> HIDE DEF y
<1>10. /\ y.hi \in 0 .. n /\ y.lo \in 0 .. n /\ y.lo <= y.next /\ y.next < y.hi /\ y.next \in Nat
       /\ seq[y.lo + 1].dest <= d /\ (y.hi < n => seq[y.hi + 1].dest > d)
  BY <1>2, <1>8 DEF Bisects, HalfState
<1>11. y.lo + 1 = y.hi
  <2> DEFINE l == y.lo
             h == y.hi
             x == y.next
  <2>1. l \in Nat /\ h \in Nat /\ x \in Nat /\ l <= x /\ x < h /\ x = (l + h) \div 2 /\ (h - l <= n - n \/ ~ (l < x))
    BY <1>2, <1>8, <1>10
  <2> HIDE DEF l, h, x
  <2>2. l + 1 = h
    BY <1>2, <2>1
  <2> QED BY <2>2 DEF l, h
<1> DEFINE h == y.hi
           D(j) == seq[j].dest
<1>12. /\ \A j \in 1 .. n : D(j) \in Nat
       /\ \A i, j \in 1 .. n : i <= j => D(i) <= D(j)
  BY SortedDests
<1>13. h \in 1 .. n /\ D(h) <= d /\ (h < n => D(h + 1) > d) /\ D(start + 1) <= d /\ d \in Nat
  BY <1>2, <1>10, <1>11, Places
<1> HIDE DEF h, D, n
<1>14. ASSUME NEW j \in 1 .. n PROVE j <= h <=> D(j) <= d
  <2>1. CASE j <= h
    <3>1. D(j) <= D(h) /\ D(j) \in Nat /\ D(h) \in Nat
      BY <1>12, <1>13, <2>1
    <3> QED BY <1>13, <2>1, <3>1
  <2>2. CASE ~ (j <= h)
    <3>1. h < n /\ h + 1 \in 1 .. n /\ h + 1 <= j
      BY <1>2, <1>13, <2>2
    <3>2. D(h + 1) <= D(j) /\ D(j) \in Nat /\ D(h + 1) \in Nat
      BY <1>12, <3>1
    <3> QED BY <1>13, <2>2, <3>1, <3>2
  <2> QED BY <2>1, <2>2
<1>15. h \in start + 1 .. n
  <2>1. start + 1 \in 1 .. n
    BY <1>2
  <2>2. start + 1 <= h
    BY <1>13, <1>14, <2>1
  <2> QED BY <1>2, <1>13, <2>2
<1> QED BY <1>9, <1>14, <1>15 DEF h, D, n

\* What the lists put for a target hold.
Whole(ls, e) == [b \in 1 .. Len(ls) |-> Between(ls[b], 0, Len(ls[b].tgts), e)]
Listed(ls, e) == Total(Whole(ls, e), Len(ls))
LEMMA ListedTyped ==
  ASSUME NEW ls \in Seq(ListType), NEW e
  PROVE  Numbers(Whole(ls, e), Len(ls)) /\ Listed(ls, e) \in Int
<1>1. Len(ls) \in Nat /\ \A b \in 1 .. Len(ls) : ls[b] \in ListType
  OBVIOUS
<1>2. \A b \in 1 .. Len(ls) : Whole(ls, e)[b] \in Nat
  <2> TAKE b \in 1 .. Len(ls)
  <2>1. Len(ls[b].tgts) \in Nat
    BY <1>1 DEF ListType
  <2> QED BY <2>1, WithinTyped DEF Whole, Between
<1>3. Numbers(Whole(ls, e), Len(ls))
  BY <1>1, <1>2 DEF Numbers
<1> QED BY <1>3, TotalSteps DEF Listed

LEMMA ListedMore ==
  ASSUME NEW ls \in Seq(ListType), NEW item \in ListType, NEW e
  PROVE  Listed(Append(ls, item), e) = Listed(ls, e) + Between(item, 0, Len(item.tgts), e)
<1> DEFINE u == Append(ls, item)
           f == Whole(ls, e)
           g == Whole(u, e)
           n == Len(ls)
           x == Between(item, 0, Len(item.tgts), e)
<1>1. n \in Nat /\ Len(u) = n + 1 /\ u[n + 1] = item /\ \A k \in 1 .. n : u[k] = ls[k]
  OBVIOUS
<1>2. Numbers(f, n)
  BY ListedTyped
<1>3. \A k \in 1 .. n : k \in 1 .. n + 1
  BY <1>1
<1>4. n + 1 \in 1 .. n + 1
  BY <1>1
<1>5. x \in Int
  <2>1. Len(item.tgts) \in Nat
    BY DEF ListType
  <2> QED BY <2>1, WithinTyped DEF Between
<1> HIDE DEF u, n
<1>6. \A k \in 1 .. n : f[k] = g[k]
  <2>1. \A k \in 1 .. n : f[k] = Between(ls[k], 0, Len(ls[k].tgts), e)
    BY DEF Whole, n
  <2>2. \A k \in 1 .. n : g[k] = Between(u[k], 0, Len(u[k].tgts), e)
    BY <1>1, <1>3 DEF Whole
  <2> HIDE DEF f, g
  <2> QED BY <1>1, <2>1, <2>2
<1>7. g[n + 1] = x
  BY <1>1, <1>4 DEF Whole
<1> HIDE DEF f, g, x
<1>8. Total(g, n + 1) = Total(f, n) + x
  BY <1>2, <1>5, <1>6, <1>7, TotalNext
<1>9. Listed(u, e) = Total(g, n + 1)
  BY <1>1 DEF Listed, g
<1>10. Listed(ls, e) = Total(f, n)
  BY DEF Listed, f, n
<1> QED BY <1>8, <1>9, <1>10 DEF u, x

\* The targets up to a position are those of the ranks below k.
Cut(seq, start, k) == start \in 0 .. Len(seq) /\ \A j \in 1 .. Len(seq) : j <= start <=> seq[j].dest < k

\* The piece for one target: all of its edges, and none else.
LEMMA PutPointersExact ==
  ASSUME NEW acc \in PutState, NEW d \in Rank, NEW row \in ListType, Sorted(row.tgts), Cut(row.tgts, acc.start, d)
  PROVE  LET new == PutPointers(acc, d, row) IN
         /\ Cut(row.tgts, new.start, d + 1)
         /\ \A t \in Rank : t # d => new.lists[t] = acc.lists[t]
         /\ \A e \in Edge : Listed(new.lists[d], e) = Listed(acc.lists[d], e) + Within(Aim(row), 0, Len(row.tgts), Wish(d, e))
<1> DEFINE seq == row.tgts
           n == Len(seq)
           start == acc.start
           D(j) == seq[j].dest
           new == PutPointers(acc, d, row)
           A == Aim(row)
<1>1. /\ acc.start \in Nat /\ acc.lists \in [Rank -> Seq(ListType)] /\ row.src \in Nat /\ seq \in Seq(Target)
      /\ n \in Nat /\ d \in Nat
  <2>1. acc.start \in Nat /\ acc.lists \in [Rank -> Seq(ListType)]
    BY DEF PutState
  <2>2. row.src \in Nat /\ seq \in Seq(Target)
    BY DEF ListType
  <2>3. d \in Nat
    BY Places
  <2>4. n \in Nat
    BY <2>2
  <2> QED BY <2>1, <2>2, <2>3, <2>4
<1>2. /\ \A j \in 1 .. n : D(j) \in Nat
      /\ \A i, j \in 1 .. n : i <= j => D(i) <= D(j)
  BY <1>1, SortedDests
<1>3. start \in 0 .. n /\ \A j \in 1 .. n : j <= start <=> D(j) < d
  BY DEF Cut
<1>4. \A j \in 1 .. n : A[j] = <<D(j), row.src, seq[j].local>>
  BY <1>1 DEF Aim
<1>5. \A j \in 1 .. n : D(j) # d => \A e : A[j] # Wish(d, e)
  BY <1>4 DEF Wish
<1>6. CASE start >= n \/ seq[start + 1].dest > d
  <2>1. new = acc
    BY <1>6 DEF PutPointers
  <2> HIDE DEF new, n, D, A, start
  <2>2. \A j \in 1 .. n : (j <= start <=> D(j) < d + 1) /\ D(j) # d
    <3> TAKE j \in 1 .. n
    <3>1. D(j) \in Nat
      BY <1>2
    <3>2. CASE j <= start
      BY <1>1, <1>3, <3>1, <3>2
    <3>3. CASE ~ (j <= start)
      <4>1. start + 1 \in 1 .. n /\ start + 1 <= j /\ ~ (start >= n)
        BY <1>1, <1>3, <3>3
      <4>2. D(start + 1) > d /\ D(start + 1) <= D(j) /\ D(start + 1) \in Nat
        BY <1>2, <1>6, <4>1 DEF D
      <4> QED BY <1>1, <3>1, <3>3, <4>2
    <3> QED BY <3>2, <3>3
  <2>3. \A e \in Edge : Within(A, 0, n, Wish(d, e)) = 0
    <3> TAKE e \in Edge
    <3>1. \A q \in 0 + 1 .. n : A[q] # Wish(d, e)
      BY <1>5, <2>2
    <3> QED BY <1>1, <3>1, WithinZero
  <2>4. \A e \in Edge : Listed(acc.lists[d], e) \in Int
    <3>1. acc.lists[d] \in Seq(ListType)
      BY <1>1
    <3> QED BY <3>1, ListedTyped
  <2>5. Cut(seq, new.start, d + 1)
    BY <1>3, <2>1, <2>2 DEF Cut, n, D, start
  <2>6. \A e \in Edge : Listed(new.lists[d], e) = Listed(acc.lists[d], e) + Within(A, 0, n, Wish(d, e))
    BY <2>1, <2>3, <2>4
  <2> QED BY <2>1, <2>5, <2>6 DEF new, A, n
<1>7. CASE ~ (start >= n \/ seq[start + 1].dest > d)
  <2> DEFINE end  == EndOfTarget(seq, start, d)
             part == SubSeq(seq, start + 1, end)
             item == [src |-> row.src, tgts |-> part]
  <2>1. new = [start |-> end, lists |-> [acc.lists EXCEPT ![d] = Append(@, item)]]
    BY <1>7 DEF PutPointers
  <2>2. start \in 0 .. n - 1 /\ seq[start + 1].dest <= d
    <3>1. start \in 0 .. n - 1
      BY <1>1, <1>3, <1>7
    <3>2. start + 1 \in 1 .. n
      BY <1>1, <3>1
    <3>3. D(start + 1) \in Nat /\ ~ (D(start + 1) > d)
      BY <1>2, <1>7, <3>2
    <3> QED BY <1>1, <3>1, <3>3
  <2>3. end \in start + 1 .. n /\ \A j \in 1 .. n : j <= end <=> D(j) <= d
    BY <1>1, <2>2, EndExact
  <2> HIDE DEF end, D, A
  <2>4. part \in Seq(Target) /\ Len(part) = end - start /\ \A q \in 1 .. end - start : part[q] = seq[start + q]
    <3>1. start \in Nat /\ end \in Nat /\ start + 1 <= end /\ end <= n
      BY <1>1, <2>2, <2>3
    <3>2. seq \in Seq(Target) /\ end <= Len(seq)
      BY <1>1, <3>1
    <3> HIDE DEF start, seq, n
    <3>3. part \in Seq(Target)
      BY <3>1, <3>2
    <3>4. Len(part) = end - start
      BY <3>1, <3>2
    <3>5. \A q \in 1 .. end - start : part[q] = seq[start + q]
      BY <3>1, <3>2
    <3> QED BY <3>3, <3>4, <3>5
  <2> HIDE DEF part, start, n, seq
  <2>5. item \in ListType /\ item.src = row.src /\ item.tgts = part
    BY <1>1, <2>4 DEF ListType
  <2>6. start \in Nat /\ end \in Nat /\ start <= end /\ end <= n /\ end - start \in Nat
    BY <1>1, <2>2, <2>3
  <2>7. \A j \in 1 .. n : (j <= start => D(j) < d) /\ (start < j /\ j <= end => D(j) = d) /\ (end < j => D(j) > d)
    BY <1>1, <1>2, <1>3, <2>3, <2>6
  <2>8. ASSUME NEW e \in Edge
        PROVE  Between(item, 0, Len(item.tgts), e) = Within(A, 0, n, Wish(d, e))
    <3> DEFINE x == Wish(d, e)
               m == end - start
    <3>1. Within(A, 0, start, x) = 0
      <4>1. \A q \in 0 + 1 .. start : A[q] # x
        <5> TAKE q \in 0 + 1 .. start
        <5>1. q \in 1 .. n /\ q <= start
          BY <1>1, <2>6
        <5>2. D(q) # d
          BY <1>1, <1>2, <2>7, <5>1
        <5> QED BY <1>5, <5>1, <5>2
      <4> HIDE DEF x
      <4> QED BY <2>6, <4>1, WithinZero
    <3>2. Within(A, end, n, x) = 0
      <4>1. \A q \in end + 1 .. n : A[q] # x
        <5> TAKE q \in end + 1 .. n
        <5>1. q \in 1 .. n /\ end < q
          BY <1>1, <2>6
        <5>2. D(q) # d
          BY <1>1, <1>2, <2>7, <5>1
        <5> QED BY <1>5, <5>1, <5>2
      <4> HIDE DEF x
      <4> QED BY <1>1, <2>6, <4>1, WithinZero
    <3>3. \A q \in 1 .. m : Say(item)[0 + q] = e <=> A[start + q] = x
      <4> TAKE q \in 1 .. m
      <4>1. start + q \in 1 .. n /\ start < start + q /\ start + q <= end /\ q \in 1 .. end - start /\ 0 + q = q
        BY <1>1, <2>6
      <4>2. D(start + q) = d /\ A[start + q] = <<D(start + q), row.src, seq[start + q].local>>
        BY <1>4, <2>7, <4>1
      <4>3. Say(item)[q] = <<row.src, seq[start + q].local>>
        <5>1. q \in DOMAIN part
          BY <2>4, <4>1
        <5>2. part[q] = seq[start + q]
          BY <2>4, <4>1
        <5> QED BY <2>5, <5>1, <5>2 DEF Say
      <4>4. e = <<e[1], e[2]>>
        BY DEF Edge
      <4> QED BY <4>1, <4>2, <4>3, <4>4 DEF Wish
    <3>4. m - 0 = end - start /\ 0 <= m /\ m \in Nat /\ Len(item.tgts) = m
      BY <2>4, <2>5, <2>6
    <3> HIDE DEF x, m, item
    <3>5. AlikeStretch(Say(item), 0, m, e, A, start, end, x)
      <4>1. \A q \in 1 .. m - 0 : Say(item)[0 + q] = e <=> A[start + q] = x
        BY <3>3, <3>4
      <4> QED BY <2>6, <3>4, <4>1 DEF AlikeStretch
    <3>6. Within(Say(item), 0, m, e) = Within(A, start, end, x)
      BY <3>5, WithinAlike
    <3>7. Within(A, 0, n, x) = Within(A, 0, start, x) + Within(A, start, n, x)
      BY <1>1, <2>6, WithinSplit
    <3>8. Within(A, start, n, x) = Within(A, start, end, x) + Within(A, end, n, x)
      BY <1>1, <2>6, WithinSplit
    <3>9. Within(A, start, end, x) \in Nat
      BY <2>6, WithinTyped
    <3>10. Between(item, 0, m, e) = Within(A, 0, n, x)
      BY <3>1, <3>2, <3>6, <3>7, <3>8, <3>9 DEF Between
    <3> QED BY <3>4, <3>10 DEF x
  <2> HIDE DEF item, new
  <2>9. new.start = end /\ new.lists[d] = Append(acc.lists[d], item) /\ \A t \in Rank : t # d => new.lists[t] = acc.lists[t]
    BY <1>1, <2>1
  <2>10. Cut(seq, new.start, d + 1)
    <3>1. \A j \in 1 .. n : D(j) <= d <=> D(j) < d + 1
      BY <1>1, <1>2
    <3>2. end \in 0 .. n
      BY <1>1, <2>6
    <3> QED BY <2>3, <2>9, <3>1, <3>2 DEF Cut, D, n
  <2>11. ASSUME NEW e \in Edge
         PROVE  Listed(new.lists[d], e) = Listed(acc.lists[d], e) + Within(A, 0, n, Wish(d, e))
    <3>1. acc.lists[d] \in Seq(ListType)
      BY <1>1
    <3>2. Listed(Append(acc.lists[d], item), e) = Listed(acc.lists[d], e) + Between(item, 0, Len(item.tgts), e)
      BY <2>5, <3>1, ListedMore
    <3> QED BY <2>8, <2>9, <3>2
  <2> QED BY <2>9, <2>10, <2>11 DEF new, A, n, seq
<1> QED BY <1>6, <1>7

\* All pieces of a row.
LEMMA PutRowExact ==
  ASSUME NEW old \in [Rank -> Seq(ListType)], NEW row \in ListType, Sorted(row.tgts)
  PROVE  LET new == PutRow(old, row) IN
         /\ new \in [Rank -> Seq(ListType)]
         /\ \A t \in Rank, e \in Edge :
              Listed(new[t], e) = Listed(old[t], e) + Within(Aim(row), 0, Len(row.tgts), Wish(t, e))
<1> DEFINE N == NumRanks
           W(t, e) == Within(Aim(row), 0, Len(row.tgts), Wish(t, e))
<1>1. row.tgts \in Seq(Target) /\ Len(row.tgts) \in Nat
  BY DEF ListType
<1>2. \A d \in Rank : \A start \in 0 .. Len(row.tgts) - 1 :
        EndOfTarget(row.tgts, start, d) \in 0 .. Len(row.tgts)
  BY <1>1, EndOfTargetType
<1>3. PICK c : PutBy(old, row, c)
  BY <1>2, PutRowSteps
<1>4. /\ c \in [0 .. N -> PutState] /\ c[0] = [start |-> 0, lists |-> old]
      /\ \A k \in 1 .. N : c[k] = PutPointers(c[k - 1], k - 1, row)
      /\ PutRow(old, row) = c[N].lists
  BY <1>3 DEF PutBy
<1>5. N \in Nat /\ Rank = 0 .. N - 1
  BY Places
<1> HIDE DEF N, W
<1> DEFINE Good(k) == /\ Cut(row.tgts, c[k].start, k)
                      /\ \A t \in Rank : t >= k => c[k].lists[t] = old[t]
                      /\ \A t \in Rank : t < k => \A e \in Edge : Listed(c[k].lists[t], e) = Listed(old[t], e) + W(t, e)
           T == {k \in 0 .. N : Good(k)}
<1>6. Good(0)
  <2>1. c[0].start = 0 /\ c[0].lists = old
    BY <1>4
  <2>2. \A j \in 1 .. Len(row.tgts) : row.tgts[j].dest \in Nat
    BY <1>1, SortedDests
  <2>3. Cut(row.tgts, 0, 0)
    BY <1>1, <2>2 DEF Cut
  <2>4. \A t \in Rank : ~ (t < 0)
    BY <1>5
  <2> QED BY <2>1, <2>3, <2>4
<1>7. ASSUME NEW k \in 1 .. N, Good(k - 1) PROVE Good(k)
  <2> DEFINE a == c[k - 1]
             b == c[k]
             d == k - 1
  <2>1. d \in Rank /\ d \in 0 .. N /\ d + 1 = k
    BY <1>5
  <2>2. a \in PutState /\ b = PutPointers(a, d, row)
    BY <1>4, <2>1
  <2>3. /\ Cut(row.tgts, a.start, d)
        /\ \A t \in Rank : t >= d => a.lists[t] = old[t]
        /\ \A t \in Rank : t < d => \A e \in Edge : Listed(a.lists[t], e) = Listed(old[t], e) + W(t, e)
    BY <1>7
  <2> HIDE DEF a, b, d
  <2>4. /\ Cut(row.tgts, b.start, d + 1)
        /\ \A t \in Rank : t # d => b.lists[t] = a.lists[t]
        /\ \A e \in Edge : Listed(b.lists[d], e) = Listed(a.lists[d], e) + W(d, e)
    BY <2>1, <2>2, <2>3, PutPointersExact DEF W
  <2>5. \A t \in Rank : (t >= k => t >= d /\ t # d) /\ (t < k => t < d \/ t = d) /\ (t < d => t # d) /\ (t = d => t >= d)
    BY <1>5, <2>1
  <2>6. \A t \in Rank : t >= k => b.lists[t] = old[t]
    BY <2>3, <2>4, <2>5
  <2>7. ASSUME NEW t \in Rank, t < k, NEW e \in Edge PROVE Listed(b.lists[t], e) = Listed(old[t], e) + W(t, e)
    <3>1. CASE t < d
      BY <2>3, <2>4, <2>5, <3>1
    <3>2. CASE t = d
      BY <2>3, <2>4, <2>5, <3>2
    <3> QED BY <2>5, <2>7, <3>1, <3>2
  <2> QED BY <2>1, <2>4, <2>6, <2>7 DEF b
<1> HIDE DEF Good
<1>8. 0 \in T /\ \A k \in 1 .. N : k - 1 \in T => k \in T
  BY <1>5, <1>6, <1>7
<1> HIDE DEF T
<1>9. \A k \in 0 .. N : k \in T
  BY <1>5, <1>8, UpTo
<1>10. Good(N)
  BY <1>5, <1>9 DEF T
<1>11. \A t \in Rank : t < N
  BY <1>5
<1>12. \A t \in Rank, e \in Edge : Listed(PutRow(old, row)[t], e) = Listed(old[t], e) + W(t, e)
  BY <1>4, <1>10, <1>11 DEF Good
<1>13. PutRow(old, row) \in [Rank -> Seq(ListType)]
  BY <1>2, PutRowType
<1> QED BY <1>12, <1>13 DEF W

-----------------------------------------------------------------------------
(* Pieces of lists are written *)

\* What the lists hold up to where they are cut, and what their pieces hold.
DoneParts(ls, lf, e) == [b \in 1 .. Len(ls) |-> Between(ls[b], 0, Len(ls[b].tgts) - lf[b], e)]
Done(ls, lf, e) == Total(DoneParts(ls, lf, e), Len(ls))
PieceParts(ps, ls, e) == [k \in 1 .. Len(ps) |-> Between(ls[ps[k].list], ps[k].first, ps[k].first + ps[k].length, e)]
PieceSum(ps, ls, e) == Total(PieceParts(ps, ls, e), Len(ps))

\* No more is left of a list than it has, and pieces are pieces of lists.
Fits(ls, lf) == \A b \in 1 .. Len(ls) : lf[b] \in 0 .. Len(ls[b].tgts)
Cutting(p, ls) == p.list \in 1 .. Len(ls) /\ Piece(ls[p.list], p.first, p.length)
Cuttings(ps, ls) == ps \in Pieces /\ \A k \in 1 .. Len(ps) : Cutting(ps[k], ls)

LEMMA DoneTyped ==
  ASSUME NEW ls \in Seq(ListType), NEW lf, Fits(ls, lf), NEW e
  PROVE  Numbers(DoneParts(ls, lf, e), Len(ls)) /\ Done(ls, lf, e) \in Int
<1>1. Len(ls) \in Nat /\ \A b \in 1 .. Len(ls) : ls[b] \in ListType
  OBVIOUS
<1>2. \A b \in 1 .. Len(ls) : DoneParts(ls, lf, e)[b] \in Nat
  <2> TAKE b \in 1 .. Len(ls)
  <2>1. Len(ls[b].tgts) \in Nat
    BY <1>1 DEF ListType
  <2>2. Len(ls[b].tgts) - lf[b] \in Nat
    BY <2>1 DEF Fits
  <2> QED BY <2>2, WithinTyped DEF DoneParts, Between
<1>3. Numbers(DoneParts(ls, lf, e), Len(ls))
  BY <1>1, <1>2 DEF Numbers
<1> QED BY <1>3, TotalSteps DEF Done

LEMMA PieceSumTyped ==
  ASSUME NEW ls, NEW ps, Cuttings(ps, ls), NEW e
  PROVE  Numbers(PieceParts(ps, ls, e), Len(ps)) /\ PieceSum(ps, ls, e) \in Int
<1>1. Len(ps) \in Nat
  BY DEF Cuttings, Pieces
<1>2. \A k \in 1 .. Len(ps) : PieceParts(ps, ls, e)[k] \in Nat
  <2> TAKE k \in 1 .. Len(ps)
  <2>1. Cutting(ps[k], ls)
    BY DEF Cuttings
  <2>2. ps[k].first \in Nat /\ ps[k].length \in Nat
    BY <2>1 DEF Cutting, Piece
  <2>3. ps[k].first + ps[k].length \in Nat
    BY <2>2
  <2> QED BY <2>2, <2>3, WithinTyped DEF PieceParts, Between
<1>3. Numbers(PieceParts(ps, ls, e), Len(ps))
  BY <1>1, <1>2 DEF Numbers
<1> QED BY <1>3, TotalSteps DEF PieceSum

\* One more piece.
LEMMA PieceSumMore ==
  ASSUME NEW ls, NEW ps, Cuttings(ps, ls), NEW p \in [list : Nat, first : Int, length : Int], Cutting(p, ls)
  PROVE  /\ Cuttings(Append(ps, p), ls)
         /\ \A e : PieceSum(Append(ps, p), ls, e) =
                     PieceSum(ps, ls, e) + Between(ls[p.list], p.first, p.first + p.length, e)
<1> DEFINE u == Append(ps, p)
           n == Len(ps)
<1>1. ps \in Pieces /\ \A k \in 1 .. Len(ps) : Cutting(ps[k], ls)
  BY DEF Cuttings
<1>2. u \in Pieces /\ n \in Nat /\ Len(u) = n + 1 /\ u[n + 1] = p /\ \A k \in 1 .. n : u[k] = ps[k]
  BY <1>1 DEF Pieces
<1> HIDE DEF u, n
<1>3. \A k \in 1 .. n : k \in 1 .. n + 1
  BY <1>2
<1>4. n + 1 \in 1 .. n + 1 /\ \A k \in 1 .. n + 1 : k \in 1 .. n \/ k = n + 1
  BY <1>2
<1>5. Cuttings(u, ls)
  <2>1. \A k \in 1 .. Len(u) : Cutting(u[k], ls)
    BY <1>1, <1>2, <1>4 DEF n
  <2> QED BY <1>2, <2>1 DEF Cuttings
<1>6. ASSUME NEW e PROVE PieceSum(u, ls, e) = PieceSum(ps, ls, e) + Between(ls[p.list], p.first, p.first + p.length, e)
  <2> DEFINE f == PieceParts(ps, ls, e)
             g == PieceParts(u, ls, e)
             x == Between(ls[p.list], p.first, p.first + p.length, e)
  <2>1. Numbers(f, n)
    BY PieceSumTyped DEF n
  <2>2. x \in Int
    <3>1. p.first \in Nat /\ p.length \in Nat
      BY DEF Cutting, Piece
    <3>2. p.first + p.length \in Nat
      BY <3>1
    <3> QED BY <3>1, <3>2, WithinTyped DEF Between
  <2>3. \A k \in 1 .. n : f[k] = g[k]
    <3>1. \A k \in 1 .. n : f[k] = Between(ls[ps[k].list], ps[k].first, ps[k].first + ps[k].length, e)
      BY DEF PieceParts, n
    <3>2. \A k \in 1 .. n : g[k] = Between(ls[u[k].list], u[k].first, u[k].first + u[k].length, e)
      BY <1>2, <1>3 DEF PieceParts
    <3> HIDE DEF f, g
    <3> QED BY <1>2, <3>1, <3>2
  <2>4. g[n + 1] = x
    BY <1>2, <1>4 DEF PieceParts
  <2> HIDE DEF f, g, x
  <2>5. Total(g, n + 1) = Total(f, n) + x
    BY <2>1, <2>2, <2>3, <2>4, TotalNext
  <2>6. PieceSum(u, ls, e) = Total(g, n + 1)
    BY <1>2 DEF PieceSum, g
  <2>7. PieceSum(ps, ls, e) = Total(f, n)
    BY DEF PieceSum, f, n
  <2> QED BY <2>5, <2>6, <2>7 DEF x
<1> QED BY <1>5, <1>6 DEF u

\* What is done and not in the pieces stays when one piece is cut off.
Unwritten(acc, ls, e) == Done(ls, acc.left, e) - PieceSum(acc.pieces, ls, e)
LEMMA FillListExact ==
  ASSUME NEW ls \in Seq(ListType), NEW b \in 1 .. Len(ls), NEW acc \in FillState(Len(ls)), Fits(ls, acc.left),
         Cuttings(acc.pieces, ls), acc.left[b] > 0 /\ ~ acc.full => acc.count + 3 <= MaxSize
  PROVE  LET f == FillList(acc, b, acc.left[b], Len(ls[b].tgts)) IN
         /\ Fits(ls, f.left) /\ Cuttings(f.pieces, ls)
         /\ \A e : Unwritten(f, ls, e) = Unwritten(acc, ls, e)
         /\ \A j \in 1 .. Len(ls) : j # b => f.left[j] = acc.left[j]
         /\ f = acc \/ (~ f.full => f.count + 3 <= MaxSize)
<1> DEFINE n   == Len(ls)
           len == acc.left[b]
           total == Len(ls[b].tgts)
           f == FillList(acc, b, len, total)
           m == TakeLength(acc.count, len)
           cc == acc.count + Min({len + HeaderSize, MaxSize - acc.count})
           piece == [list |-> b, first |-> PieceStart(len, total), length |-> m]
           full == cc + MinSpace >= MaxSize
<1>1. n \in Nat /\ ls[b] \in ListType /\ b \in Nat
  OBVIOUS
<1>2. total \in Nat /\ len \in Nat /\ len <= total
  <2>1. total \in Nat
    BY <1>1 DEF ListType
  <2>2. len \in 0 .. total
    BY DEF Fits
  <2> QED BY <2>1, <2>2
<1>3. acc.count \in Int /\ acc.pieces \in Pieces /\ acc.left \in [1 .. n -> Nat]
  BY DEF FillState
<1>4. CASE acc.full \/ len = 0
  <2>1. f = acc
    BY <1>4 DEF FillList
  <2> QED BY <2>1
<1>5. CASE ~ (acc.full \/ len = 0)
  <2>1. f = [count |-> cc, words |-> acc.words + HeaderSize + m, pieces |-> Append(acc.pieces, piece),
             left |-> [acc.left EXCEPT ![b] = len - m], full |-> full]
    BY <1>5 DEF FillList
  <2>2. m = IF acc.count + len + 3 >= MaxSize THEN MaxSize - acc.count - 3 ELSE len
    BY <1>2, <1>3, AreaSizes DEF TakeLength
  <2>3. m \in Nat /\ m <= len
    <3> DEFINE x == acc.count
    <3>1. x \in Int /\ x + 3 <= MaxSize /\ m = IF x + len + 3 >= MaxSize THEN MaxSize - x - 3 ELSE len
      BY <1>2, <1>3, <1>5, <2>2
    <3> HIDE DEF x, m, len
    <3> QED BY <1>2, <3>1, AreaSizes
  <2>4. piece.list = b /\ piece.first = total - len /\ piece.length = m
    BY DEF PieceStart
  <2>5. piece \in [list : Nat, first : Int, length : Int]
    BY <1>1, <1>2, <2>3 DEF PieceStart
  <2> HIDE DEF m, cc, piece, full, f
  <2>6. f.pieces = Append(acc.pieces, piece) /\ f.left = [acc.left EXCEPT ![b] = len - m] /\ f.count = cc /\ f.full = full
    BY <2>1
  <2> HIDE DEF len, total
  <2>7. total - len \in Nat /\ m \in Nat /\ total - len + m <= total /\ len - m \in Nat /\ total - (len - m) = total - len + m
    BY <1>2, <2>3
  <2>8. Cutting(piece, ls)
    <3>1. Piece(ls[b], total - len, m)
      BY <1>1, <2>7 DEF Piece, total
    <3> QED BY <2>4, <3>1 DEF Cutting
  <2>9. /\ Cuttings(f.pieces, ls)
        /\ \A e : PieceSum(f.pieces, ls, e) = PieceSum(acc.pieces, ls, e) + Between(ls[b], total - len, total - len + m, e)
    BY <2>4, <2>5, <2>6, <2>8, PieceSumMore
  <2>10. f.left[b] = len - m /\ \A j \in 1 .. n : j # b => f.left[j] = acc.left[j]
    BY <1>3, <2>6
  <2>11. Fits(ls, f.left)
    <3>1. len - m \in 0 .. total
      BY <1>2, <2>3, <2>7
    <3>2. \A j \in 1 .. Len(ls) : f.left[j] \in 0 .. Len(ls[j].tgts)
      BY <2>10, <3>1 DEF Fits, n, total
    <3> QED BY <3>2 DEF Fits
  <2>12. ASSUME NEW e PROVE Unwritten(f, ls, e) = Unwritten(acc, ls, e)
    <3> DEFINE g == DoneParts(ls, acc.left, e)
               h == DoneParts(ls, f.left, e)
               x == Between(ls[b], total - len, total - len + m, e)
    <3>1. Numbers(g, n) /\ Done(ls, acc.left, e) = Total(g, n) /\ Done(ls, f.left, e) = Total(h, n)
      BY DoneTyped DEF Done, n
    <3>2. g[b] = Between(ls[b], 0, total - len, e)
      BY DEF DoneParts, n, total, len
    <3>3. h[b] = Between(ls[b], 0, total - len + m, e)
      BY <2>7, <2>10 DEF DoneParts, n, total
    <3>4. \A j \in 1 .. n : j # b => h[j] = g[j]
      BY <2>10 DEF DoneParts, n
    <3>5. x \in Int /\ Between(ls[b], 0, total - len + m, e) = Between(ls[b], 0, total - len, e) + x
      <4> DEFINE a == total - len
                 c == total - len + m
      <4>1. a \in Nat /\ c \in Nat /\ 0 <= a /\ a <= c
        BY <2>7
      <4> HIDE DEF a, c
      <4>2. Within(Say(ls[b]), a, c, e) \in Nat
        BY <4>1, WithinTyped
      <4>3. Within(Say(ls[b]), 0, c, e) = Within(Say(ls[b]), 0, a, e) + Within(Say(ls[b]), a, c, e)
        BY <4>1, WithinSplit
      <4> QED BY <4>2, <4>3 DEF Between, a, c
    <3>6. b \in 1 .. n
      BY DEF n
    <3>7. PieceSum(acc.pieces, ls, e) \in Int
      BY PieceSumTyped
    <3>8. PieceSum(f.pieces, ls, e) = PieceSum(acc.pieces, ls, e) + x
      BY <2>9
    <3> HIDE DEF g, h, x, n
    <3>9. Total(h, n) = Total(g, n) + x /\ Total(g, n) \in Int
      BY <3>1, <3>2, <3>3, <3>4, <3>5, <3>6, TotalChange
    <3> QED BY <3>1, <3>5, <3>7, <3>8, <3>9 DEF Unwritten
  <2>13. ~ f.full => f.count + 3 <= MaxSize
    <3>1. len + HeaderSize \in Int /\ MaxSize - acc.count \in Int
      BY <1>2, <1>3, AreaSizes
    <3>2. Min({len + HeaderSize, MaxSize - acc.count}) \in Int
      BY <3>1, MinOfTwo
    <3>3. cc \in Int
      BY <1>3, <3>2 DEF cc
    <3>4. ~ (cc + MinSpace >= MaxSize) => cc + 3 <= MaxSize
      <4> HIDE DEF cc
      <4> QED BY <3>3, AreaSizes
    <3>5. f.full <=> cc + MinSpace >= MaxSize
      BY <2>6 DEF full
    <3> QED BY <2>6, <3>4, <3>5
  <2> QED BY <2>9, <2>10, <2>11, <2>12, <2>13 DEF f, len, total, n
<1> QED BY <1>4, <1>5

\* All lists of a target.
LEMMA FilledExact ==
  ASSUME NEW ls \in Seq(ListType), NEW p \in Nat, NEW lens \in Seq(Nat), Len(lens) = Len(ls), Fits(ls, lens),
         NEW total \in Seq(Nat), Len(total) = Len(ls), \A b \in 1 .. Len(ls) : total[b] = Len(ls[b].tgts),
         (\E b \in 1 .. Len(ls) : lens[b] > 0) => p + 3 <= MaxSize
  PROVE  LET f == Filled(p, lens, total) IN
         /\ Fits(ls, f.left) /\ Cuttings(f.pieces, ls)
         /\ \A e : Done(ls, f.left, e) = Done(ls, lens, e) + PieceSum(f.pieces, ls, e)
<1> DEFINE n == Len(ls)
<1>1. n \in Nat /\ Len(lens) = n /\ \A b \in 1 .. n : lens[b] \in Nat
  OBVIOUS
<1>2. PICK c \in [0 .. Len(lens) -> FillState(Len(lens))] :
         /\ c[0] = [count |-> p, words |-> p, pieces |-> <<>>, left |-> lens, full |-> FALSE]
         /\ \A k \in 1 .. Len(lens) : c[k] = FillList(c[k - 1], k, lens[k], total[k])
         /\ Filled(p, lens, total) = c[Len(lens)]
  <2>1. Len(total) = Len(lens)
    OBVIOUS
  <2> QED BY <2>1, FilledSteps
<1>3. /\ \A k \in 0 .. n : c[k] \in FillState(n)
      /\ c[0] = [count |-> p, words |-> p, pieces |-> <<>>, left |-> lens, full |-> FALSE]
      /\ \A k \in 1 .. n : c[k] = FillList(c[k - 1], k, lens[k], Len(ls[k].tgts))
      /\ Filled(p, lens, total) = c[n]
  BY <1>1, <1>2
<1> DEFINE Good(k) == /\ Fits(ls, c[k].left) /\ Cuttings(c[k].pieces, ls)
                      /\ \A e : Unwritten(c[k], ls, e) = Done(ls, lens, e)
                      /\ \A j \in 1 .. n : j > k => c[k].left[j] = lens[j]
                      /\ (\E j \in 1 .. n : lens[j] > 0) /\ ~ c[k].full => c[k].count + 3 <= MaxSize
           T == {k \in 0 .. n : Good(k)}
<1>4. Good(0)
  <2> DEFINE a == c[0]
  <2>1. a.count = p /\ a.pieces = <<>> /\ a.left = lens
    BY <1>3
  <2> HIDE DEF a
  <2>2. Cuttings(<<>>, ls)
    BY DEF Cuttings, Pieces
  <2>3. ASSUME NEW e PROVE Unwritten(a, ls, e) = Done(ls, lens, e)
    <3>1. PieceSum(<<>>, ls, e) = 0
      <4>1. Len(<<>>) = 0 /\ \A k \in 1 .. 0 : PieceParts(<<>>, ls, e)[k] = 0
        OBVIOUS
      <4>2. Total(PieceParts(<<>>, ls, e), 0) = 0
        BY <4>1, TotalZero
      <4> QED BY <4>1, <4>2 DEF PieceSum
    <3>2. Done(ls, lens, e) \in Int
      BY DoneTyped
    <3> QED BY <2>1, <3>1, <3>2 DEF Unwritten
  <2> QED BY <2>1, <2>2, <2>3 DEF a
<1>5. ASSUME NEW k \in 1 .. n, Good(k - 1) PROVE Good(k)
  <2> DEFINE a == c[k - 1]
             d == c[k]
  <2>1. a \in FillState(n) /\ d = FillList(a, k, lens[k], Len(ls[k].tgts)) /\ k > k - 1
    <3>1. k - 1 \in 0 .. n /\ k > k - 1
      BY <1>1
    <3> QED BY <1>3, <3>1
  <2>2. /\ Fits(ls, a.left) /\ Cuttings(a.pieces, ls)
        /\ \A e : Unwritten(a, ls, e) = Done(ls, lens, e)
        /\ \A j \in 1 .. n : j > k - 1 => a.left[j] = lens[j]
        /\ (\E j \in 1 .. n : lens[j] > 0) /\ ~ a.full => a.count + 3 <= MaxSize
    BY <1>5
  <2> HIDE DEF a, d
  <2>3. a.left[k] = lens[k]
    BY <2>1, <2>2
  <2>4. a.left[k] > 0 /\ ~ a.full => a.count + 3 <= MaxSize
    BY <2>2, <2>3
  <2>5. d = FillList(a, k, a.left[k], Len(ls[k].tgts))
    BY <2>1, <2>3
  <2>6. /\ Fits(ls, d.left) /\ Cuttings(d.pieces, ls)
        /\ \A e : Unwritten(d, ls, e) = Unwritten(a, ls, e)
        /\ \A j \in 1 .. n : j # k => d.left[j] = a.left[j]
        /\ d = a \/ (~ d.full => d.count + 3 <= MaxSize)
    <3>1. k \in 1 .. Len(ls) /\ a \in FillState(Len(ls))
      BY <2>1
    <3>2. Fits(ls, a.left) /\ Cuttings(a.pieces, ls)
      BY <2>2
    <3> HIDE DEF n
    <3>3. /\ Fits(ls, d.left) /\ Cuttings(d.pieces, ls)
          /\ \A e : Unwritten(d, ls, e) = Unwritten(a, ls, e)
          /\ \A j \in 1 .. Len(ls) : j # k => d.left[j] = a.left[j]
          /\ d = a \/ (~ d.full => d.count + 3 <= MaxSize)
      BY <2>4, <2>5, <3>1, <3>2, FillListExact
    <3> QED BY <3>3 DEF n
  <2>7. \A j \in 1 .. n : j > k => j > k - 1 /\ j # k
    BY <1>1
  <2>8. \A j \in 1 .. n : j > k => d.left[j] = lens[j]
    BY <2>2, <2>6, <2>7
  <2> QED BY <2>2, <2>6, <2>8 DEF d
<1> HIDE DEF Good
<1>6. 0 \in T /\ \A k \in 1 .. n : k - 1 \in T => k \in T
  BY <1>1, <1>4, <1>5
<1> HIDE DEF T
<1>7. \A k \in 0 .. n : k \in T
  BY <1>1, <1>6, UpTo
<1>8. Good(n)
  BY <1>1, <1>7 DEF T
<1> DEFINE f == c[n]
<1>9. Fits(ls, f.left) /\ Cuttings(f.pieces, ls) /\ \A e : Unwritten(f, ls, e) = Done(ls, lens, e)
  BY <1>8 DEF Good
<1> HIDE DEF f
<1>10. ASSUME NEW e PROVE Done(ls, f.left, e) = Done(ls, lens, e) + PieceSum(f.pieces, ls, e)
  <2>1. Done(ls, f.left, e) \in Int /\ PieceSum(f.pieces, ls, e) \in Int
    BY <1>9, DoneTyped, PieceSumTyped
  <2> QED BY <1>9, <2>1 DEF Unwritten
<1> QED BY <1>3, <1>9, <1>10 DEF f

-----------------------------------------------------------------------------
(* What is written is heard *)

\* The pieces of an area, one behind the other.
PieceSeqs(ps, ls) == [k \in DOMAIN ps |-> PieceWords(ls[ps[k].list], ps[k].first, ps[k].length)]
LEMMA PiecesRead ==
  ASSUME NEW ls, NEW ps, Cuttings(ps, ls)
  PROVE  LET w == FlattenSeq(PieceSeqs(ps, ls)) IN
         /\ w \in Seq(WordIn) /\ Plain(w) /\ \A e \in Edge : Gain(w, e) = PieceSum(ps, ls, e)
<1> DEFINE n == Len(ps)
           seqs == PieceSeqs(ps, ls)
           g(k) == [e \in Edge |-> PieceParts(ps, ls, e)[k]]
<1>1. n \in Nat /\ DOMAIN ps = 1 .. n /\ \A k \in 1 .. n : Cutting(ps[k], ls)
  BY DEF Cuttings, Pieces
<1>2. \A k \in 1 .. n : seqs[k] = PieceWords(ls[ps[k].list], ps[k].first, ps[k].length)
  BY <1>1 DEF PieceSeqs
<1>3. \A k \in 1 .. n : Piece(ls[ps[k].list], ps[k].first, ps[k].length)
  BY <1>1 DEF Cutting
<1>4. \A e \in Edge : Numbers(PieceParts(ps, ls, e), n) /\ PieceSum(ps, ls, e) = Total(PieceParts(ps, ls, e), n)
  BY PieceSumTyped DEF PieceSum
<1>5. ASSUME NEW k \in 1 .. n
      PROVE  seqs[k] \in Seq(WordIn) /\ Plain(seqs[k]) /\ \A e \in Edge : Gain(seqs[k], e) = PieceParts(ps, ls, e)[k]
  <2> DEFINE l == ls[ps[k].list]
             a == ps[k].first
             m == ps[k].length
             w == PieceWords(l, a, m)
  <2>1. seqs[k] = w /\ Piece(l, a, m)
    BY <1>2, <1>3
  <2>2. \A e \in Edge : PieceParts(ps, ls, e)[k] = Between(l, a, a + m, e)
    BY DEF PieceParts
  <2>3. \A e \in Edge : PieceParts(ps, ls, e)[k] \in Int
    BY <1>4 DEF Numbers
  <2> HIDE DEF l, a, m, seqs
  <2>4. w \in Seq(WordIn)
    BY <2>1, PieceWordsExact
  <2>5. \A e \in Edge : g(k)[e] = PieceParts(ps, ls, e)[k]
    OBVIOUS
  <2>6. \A z \in Ready : ReadAll(z, w) \in Ready /\ \A e \in Edge : Gained(ReadAll(z, w), e) = Gained(z, e) + g(k)[e]
    <3> TAKE z \in Ready
    <3>1. <<0, 0>> \in Edge
      BY DEF Edge
    <3>2. ReadAll(z, w) \in Ready
      BY <2>1, <3>1, PieceRead
    <3>3. ASSUME NEW e \in Edge PROVE Gained(ReadAll(z, w), e) = Gained(z, e) + g(k)[e]
      <4>1. Gained(ReadAll(z, w), e) = Gained(z, e) + Between(l, a, a + m, e)
        BY <2>1, PieceRead
      <4> QED BY <2>2, <2>5, <4>1
    <3> QED BY <3>2, <3>3
  <2>7. \A e \in Edge : g(k)[e] \in Int
    BY <2>3, <2>5
  <2> HIDE DEF g, w
  <2>8. Adds(w, g(k))
    BY <2>6, <2>7 DEF Adds
  <2>9. Plain(w) /\ \A e \in Edge : Gain(w, e) = g(k)[e]
    BY <2>8, PlainAdds
  <2> QED BY <2>1, <2>4, <2>5, <2>9
<1>6. Parts(WordIn, seqs, n)
  <2>1. seqs = [k \in 1 .. n |-> seqs[k]]
    BY <1>1 DEF PieceSeqs
  <2> HIDE DEF seqs
  <2> QED BY <1>1, <1>5, <2>1 DEF Parts
<1> HIDE DEF seqs, n
<1>7. PICK c : Joined(WordIn, seqs, n, c)
  BY <1>6, FlattenSteps
<1>8. /\ c \in [0 .. n -> Seq(WordIn)] /\ c[0] = <<>> /\ \A k \in 1 .. n : c[k] = c[k - 1] \o seqs[k]
      /\ FlattenSeq(seqs) = c[n]
  BY <1>7 DEF Joined
<1> DEFINE S(e, k) == Totals(PieceParts(ps, ls, e), n)[k]
<1>9. \A e \in Edge : /\ S(e, 0) = 0 /\ PieceSum(ps, ls, e) = S(e, n)
                      /\ \A k \in 1 .. n : S(e, k) = S(e, k - 1) + PieceParts(ps, ls, e)[k]
  BY <1>4, TotalSteps
<1> HIDE DEF S
<1> DEFINE Good(k) == Plain(c[k]) /\ \A e \in Edge : Gain(c[k], e) = S(e, k)
           T == {k \in 0 .. n : Good(k)}
<1>10. Good(0)
  BY <1>8, <1>9, PlainEmpty
<1>11. ASSUME NEW k \in 1 .. n, Good(k - 1) PROVE Good(k)
  <2> DEFINE a == c[k - 1]
             b == c[k]
  <2>1. k - 1 \in 0 .. n
    BY <1>1
  <2>2. a \in Seq(WordIn) /\ b = a \o seqs[k]
    BY <1>8, <2>1
  <2>3. Plain(a) /\ \A e \in Edge : Gain(a, e) = S(e, k - 1)
    BY <1>11
  <2> HIDE DEF a, b
  <2>4. Plain(b) /\ \A e \in Edge : Gain(b, e) = Gain(a, e) + Gain(seqs[k], e)
    BY <1>5, <2>2, <2>3, PlainJoin
  <2>5. \A e \in Edge : Gain(b, e) = S(e, k)
    BY <1>5, <1>9, <2>3, <2>4
  <2> QED BY <2>4, <2>5 DEF b
<1> HIDE DEF Good
<1>12. 0 \in T /\ \A k \in 1 .. n : k - 1 \in T => k \in T
  BY <1>1, <1>10, <1>11
<1> HIDE DEF T
<1>13. \A k \in 0 .. n : k \in T
  BY <1>1, <1>12, UpTo
<1>14. Good(n) /\ c[n] \in Seq(WordIn)
  BY <1>1, <1>8, <1>13 DEF T
<1>15. Plain(c[n]) /\ \A e \in Edge : Gain(c[n], e) = PieceSum(ps, ls, e)
  BY <1>9, <1>14 DEF Good
<1> QED BY <1>8, <1>14, <1>15 DEF seqs

\* What a rank hears of the words that one rank has sent.
Hears(words) == LET p == Parse(words) IN p.edges \o FlattenSeq([k \in DOMAIN p.rows |-> ReceiveRow(p.rows[k])])
LEMMA HearsExact ==
  ASSUME NEW words, Plain(words)
  PROVE  Hears(words) \in Seq(Edge) /\ \A e \in Edge : Occ(Hears(words), e) = Gain(words, e)
<1> DEFINE z == ReadAll(Fresh, words)
           n == Len(z.rows)
           seqs == [k \in DOMAIN z.rows |-> ReceiveRow(z.rows[k])]
<1>1. z \in ReadState
  <2>1. z \in Ready
    BY FreshReady DEF Plain
  <2> QED BY <2>1, ReadyParts
<1>2. Hears(words) = z.edges \o FlattenSeq(seqs)
  BY FreshReady DEF Hears
<1>3. \A e \in Edge : Gain(words, e) = Occ(z.edges, e) + Total(RowsHeard(z.rows, e), n)
  BY DEF Gain, Gained
<1> HIDE DEF z
<1>4. z.edges \in Seq(Edge) /\ z.rows \in Seq(RowIn)
  BY <1>1, StateParts
<1>5. n \in Nat /\ DOMAIN z.rows = 1 .. n /\ \A k \in 1 .. n : z.rows[k] \in RowIn
  BY <1>4
<1>6. <<0, 0>> \in Edge
  BY DEF Edge
<1>7. \A k \in 1 .. n : seqs[k] = ReceiveRow(z.rows[k]) /\ seqs[k] \in Seq(Edge)
  <2>1. \A k \in 1 .. n : seqs[k] = ReceiveRow(z.rows[k])
    BY <1>5
  <2> HIDE DEF n, seqs
  <2>2. \A k \in 1 .. n : ReceiveRow(z.rows[k]) \in Seq(Edge)
    BY <1>5, <1>6, ReceiveRowExact
  <2> QED BY <2>1, <2>2
<1>8. Parts(Edge, seqs, n)
  <2>1. seqs = [k \in 1 .. n |-> seqs[k]]
    BY <1>5
  <2> HIDE DEF seqs
  <2> QED BY <1>5, <1>7, <2>1 DEF Parts
<1> HIDE DEF seqs
<1>9. ASSUME NEW e \in Edge
      PROVE  FlattenSeq(seqs) \in Seq(Edge) /\ Occ(FlattenSeq(seqs), e) = Total(RowsHeard(z.rows, e), n)
  <2> DEFINE f == RowsHeard(z.rows, e)
  <2>1. \A k \in 1 .. n : f[k] = Occ(seqs[k], e)
    BY <1>7 DEF RowsHeard
  <2> HIDE DEF f, n
  <2> QED BY <1>8, <2>1, FlattenOcc DEF f
<1>10. FlattenSeq(seqs) \in Seq(Edge)
  BY <1>6, <1>9
<1>11. \A e \in Edge : Occ(z.edges \o FlattenSeq(seqs), e) = Occ(z.edges, e) + Occ(FlattenSeq(seqs), e)
  BY <1>4, <1>10, OccJoin
<1>12. z.edges \o FlattenSeq(seqs) \in Seq(Edge)
  BY <1>4, <1>10, JoinTyped
<1> QED BY <1>2, <1>3, <1>9, <1>11, <1>12

\* The words for a rank: its packets, in the first round, and the pieces.
LEMMA AreaRead ==
  ASSUME NEW s \in Rank, NEW t \in Rank, stream[s][t] \in Seq(WordType), Plain(stream[s][t]),
         Cuttings(area[s][t].pieces, lists[s][t])
  PROVE  /\ Plain(WordsFor(s, t))
         /\ \A e \in Edge : Gain(WordsFor(s, t), e) =
              (IF loop[s] = 0 THEN Gain(stream[s][t], e) ELSE 0) + PieceSum(area[s][t].pieces, lists[s][t], e)
<1> DEFINE ps == area[s][t].pieces
           ls == lists[s][t]
           u == IF loop[s] = 0 THEN stream[s][t] ELSE <<>>
           v == FlattenSeq(PieceSeqs(ps, ls))
<1>1. \A p : ListWords(s, t, p) = PieceWords(ls[p.list], p.first, p.length)
  BY DEF ListWords, PieceWords
<1>2. [k \in DOMAIN ps |-> ListWords(s, t, ps[k])] = PieceSeqs(ps, ls)
  BY <1>1 DEF PieceSeqs
<1>3. WordsFor(s, t) = u \o v
  BY <1>2 DEF WordsFor
<1>4. v \in Seq(WordIn) /\ Plain(v) /\ \A e \in Edge : Gain(v, e) = PieceSum(ps, ls, e)
  BY PiecesRead
<1>5. stream[s][t] \in Seq(WordIn) /\ <<>> \in Seq(WordIn)
  BY WordsTyped
<1>6. u \in Seq(WordIn) /\ Plain(u) /\ \A e \in Edge : Gain(u, e) = IF loop[s] = 0 THEN Gain(stream[s][t], e) ELSE 0
  BY <1>5, PlainEmpty
<1> HIDE DEF u, v, ps, ls
<1>7. Plain(u \o v) /\ \A e \in Edge : Gain(u \o v, e) = Gain(u, e) + Gain(v, e)
  BY <1>4, <1>6, PlainJoin
<1> QED BY <1>3, <1>4, <1>6, <1>7 DEF ps, ls

\* What a rank hears in one round, of all ranks.
HeardOf(t) == FlattenSeq([s \in 1 .. NumRanks |-> Hears(WordsFor(s - 1, t))])
SentTo(t, e) == [s \in 1 .. NumRanks |-> Gain(WordsFor(s - 1, t), e)]
LEMMA RoundHeard ==
  ASSUME NEW t \in Rank, \A s \in Rank : Plain(WordsFor(s, t)), NEW e \in Edge
  PROVE  Numbers(SentTo(t, e), NumRanks) /\ Occ(HeardOf(t), e) = Total(SentTo(t, e), NumRanks)
<1> DEFINE n == NumRanks
           seqs == [s \in 1 .. n |-> Hears(WordsFor(s - 1, t))]
           f == SentTo(t, e)
<1>1. n \in Nat /\ \A s \in 1 .. n : s - 1 \in Rank
  BY Places
<1>2. \A s \in 1 .. n : seqs[s] = Hears(WordsFor(s - 1, t)) /\ f[s] = Gain(WordsFor(s - 1, t), e)
  BY DEF SentTo
<1>3. HeardOf(t) = FlattenSeq(seqs)
  BY DEF HeardOf
<1>4. seqs = [k \in 1 .. n |-> seqs[k]]
  OBVIOUS
<1> HIDE DEF seqs, f, n
<1>5. ASSUME NEW s \in 1 .. n PROVE seqs[s] \in Seq(Edge) /\ f[s] = Occ(seqs[s], e)
  <2>1. Plain(WordsFor(s - 1, t))
    BY <1>1
  <2>2. Hears(WordsFor(s - 1, t)) \in Seq(Edge) /\ Occ(Hears(WordsFor(s - 1, t)), e) = Gain(WordsFor(s - 1, t), e)
    BY <2>1, HearsExact
  <2> QED BY <1>2, <2>2
<1>6. Parts(Edge, seqs, n)
  BY <1>1, <1>4, <1>5 DEF Parts
<1>7. \A k \in 1 .. n : f[k] = Occ(seqs[k], e)
  BY <1>5
<1>8. Numbers(f, n) /\ Occ(FlattenSeq(seqs), e) = Total(f, n)
  BY <1>6, <1>7, FlattenOcc
<1> QED BY <1>3, <1>8 DEF f, n

-----------------------------------------------------------------------------
(* What a row puts for a rank *)

\* The edges of the rows that were taken, for rank t.
RowParts(rows, open, t, e) ==
  [i \in 1 .. Len(rows) |->
     IF i \in open THEN 0 ELSE Within(Aim(rows[i]), 0, Len(rows[i].tgts), Wish(t, e))]
RowsTaken(rows, open, t, e) == Total(RowParts(rows, open, t, e), Len(rows))
LEMMA RowPartsTyped ==
  ASSUME NEW rows \in Seq(Row), NEW open, NEW t, NEW e
  PROVE  /\ Numbers(RowParts(rows, open, t, e), Len(rows)) /\ RowsTaken(rows, open, t, e) \in Int
         /\ \A i \in 1 .. Len(rows) : Within(Aim(rows[i]), 0, Len(rows[i].tgts), Wish(t, e)) \in Nat
<1>1. Len(rows) \in Nat /\ \A i \in 1 .. Len(rows) : rows[i] \in Row
  OBVIOUS
<1>2. ASSUME NEW i \in 1 .. Len(rows) PROVE Within(Aim(rows[i]), 0, Len(rows[i].tgts), Wish(t, e)) \in Nat
  <2>1. Len(rows[i].tgts) \in Nat
    BY <1>1 DEF Row
  <2> QED BY <2>1, WithinTyped
<1>3. Numbers(RowParts(rows, open, t, e), Len(rows))
  BY <1>1, <1>2 DEF Numbers, RowParts
<1> QED BY <1>2, <1>3, TotalSteps DEF RowsTaken

\* One more row is taken.
LEMMA RowTaken ==
  ASSUME NEW rows \in Seq(Row), NEW open, NEW i \in open, i \in 1 .. Len(rows), NEW t, NEW e
  PROVE  RowsTaken(rows, open \ {i}, t, e) =
           RowsTaken(rows, open, t, e) + Within(Aim(rows[i]), 0, Len(rows[i].tgts), Wish(t, e))
<1> DEFINE n == Len(rows)
           f == RowParts(rows, open, t, e)
           g == RowParts(rows, open \ {i}, t, e)
           x == Within(Aim(rows[i]), 0, Len(rows[i].tgts), Wish(t, e))
<1>1. Numbers(f, n) /\ x \in Int
  <2>1. Numbers(f, n)
    BY RowPartsTyped
  <2>2. Len(rows[i].tgts) \in Nat
    BY DEF Row
  <2>3. x \in Nat
    BY <2>2, WithinTyped
  <2> QED BY <2>1, <2>3
<1>2. f[i] = 0 /\ g[i] = x
  BY DEF RowParts
<1>3. g[i] = f[i] + x
  BY <1>1, <1>2
<1>4. \A k \in 1 .. n : k # i => g[k] = f[k]
  BY DEF RowParts
<1>5. RowsTaken(rows, open, t, e) = Total(f, n) /\ RowsTaken(rows, open \ {i}, t, e) = Total(g, n)
  BY DEF RowsTaken
<1> HIDE DEF f, g, x, n
<1>6. i \in 1 .. n
  BY DEF n
<1>7. Total(g, n) = Total(f, n) + x
  BY <1>1, <1>3, <1>4, <1>6, TotalChange
<1> QED BY <1>5, <1>7 DEF x

\* The first edge of a row, and the others.
LEMMA TailExact ==
  ASSUME NEW row \in Row, Sorted(row.tgts)
  PROVE  LET rest == [src |-> row.src, tgts |-> Tail(row.tgts)] IN
         /\ rest \in ListType /\ Sorted(rest.tgts) /\ Len(row.tgts) \in Nat \ {0}
         /\ \A x : Within(Aim(row), 0, Len(row.tgts), x) =
                     Within(Aim(row), 0, 1, x) + Within(Aim(rest), 0, Len(rest.tgts), x)
<1> DEFINE seq == row.tgts
           n == Len(seq)
           tl == Tail(seq)
           rest == [src |-> row.src, tgts |-> tl]
<1>1. row.src \in Nat /\ seq \in Seq(Target) /\ seq # <<>>
  BY DEF Row
<1>2. n \in Nat /\ n >= 1
  BY <1>1
<1>3. tl \in Seq(Target) /\ Len(tl) = n - 1 /\ \A q \in 1 .. n - 1 : tl[q] = seq[q + 1]
  BY <1>1, <1>2
<1>4. rest \in ListType /\ rest.src = row.src /\ rest.tgts = tl
  BY <1>1, <1>3 DEF ListType
<1>5. Sorted(tl)
  <2>1. \A j \in 2 .. n : seq[j - 1].dest <= seq[j].dest
    BY DEF Sorted
  <2> HIDE DEF tl, n, seq
  <2> SUFFICES ASSUME NEW j \in 2 .. Len(tl) PROVE tl[j - 1].dest <= tl[j].dest
    BY DEF Sorted
  <2>2. j \in 1 .. n - 1 /\ j - 1 \in 1 .. n - 1 /\ j - 1 + 1 = j /\ j + 1 \in 2 .. n /\ j + 1 - 1 = j
    BY <1>2, <1>3
  <2>3. tl[j] = seq[j + 1] /\ tl[j - 1] = seq[j]
    BY <1>3, <2>2
  <2> QED BY <2>1, <2>2, <2>3
<1>6. \A j \in 1 .. n : Aim(row)[j] = <<seq[j].dest, row.src, seq[j].local>>
  BY <1>1 DEF Aim
<1>7. \A q \in 1 .. n - 1 : Aim(rest)[q] = <<tl[q].dest, row.src, tl[q].local>>
  BY <1>3, <1>4 DEF Aim
<1> HIDE DEF rest, tl, seq
<1>8. \A q \in 1 .. n - 1 : Aim(row)[1 + q] = Aim(rest)[0 + q]
  <2> TAKE q \in 1 .. n - 1
  <2>1. q + 1 \in 1 .. n /\ 1 + q = q + 1 /\ 0 + q = q
    BY <1>2
  <2> QED BY <1>3, <1>6, <1>7, <2>1
<1> HIDE DEF n
<1>9. SameStretch(Aim(row), 1, n, Aim(rest), 0, n - 1)
  <2>1. n - 1 \in Nat /\ n - 1 = n - 1 - 0 /\ 1 <= n
    BY <1>2
  <2> QED BY <1>2, <1>8, <2>1 DEF SameStretch
<1>10. \A x : Within(Aim(row), 1, n, x) = Within(Aim(rest), 0, n - 1, x)
  BY <1>9, WithinMoved
<1>11. \A x : Within(Aim(row), 0, n, x) = Within(Aim(row), 0, 1, x) + Within(Aim(row), 1, n, x)
  BY <1>2, WithinSplit
<1>12. Len(rest.tgts) = n - 1
  BY <1>3, <1>4
<1>13. \A x : Within(Aim(row), 0, Len(seq), x) = Within(Aim(row), 0, 1, x) + Within(Aim(rest), 0, Len(rest.tgts), x)
  BY <1>10, <1>11, <1>12 DEF n
<1>14. Sorted(rest.tgts) /\ Len(seq) \in Nat \ {0}
  BY <1>2, <1>4, <1>5 DEF n
<1> QED BY <1>4, <1>13, <1>14 DEF seq, rest, tl

\* What is put for a rank: in streams, with the threads, and in lists.
Put(st, pks, ls, t, e) == Gain(st[t], e) + Total(Leftover(pks, t, e), NumThreads) + Listed(ls[t], e)
Sound(st, pks) == \A t \in Rank : Plain(st[t]) /\ \A h \in Thread : SoundPacket(pks[h][t])
LEMMA LeftoverTyped ==
  ASSUME NEW st, NEW pks, Sound(st, pks), NEW t \in Rank, NEW e \in Edge
  PROVE  /\ Numbers(Leftover(pks, t, e), NumThreads) /\ Total(Leftover(pks, t, e), NumThreads) \in Int
         /\ Gain(st[t], e) \in Int /\ \A h \in Thread : Gain(pks[h][t].words, e) \in Int
<1>1. Plain(st[t]) /\ \A h \in Thread : Plain(pks[h][t].words)
  BY DEF Sound, SoundPacket
<1>2. Gain(st[t], e) \in Int /\ \A h \in Thread : Gain(pks[h][t].words, e) \in Int
  BY <1>1, GainTyped
<1>3. Numbers(Leftover(pks, t, e), NumThreads)
  BY <1>2, Places DEF Numbers, Leftover
<1> QED BY <1>2, <1>3, TotalSteps

\* A thread has sent m edges of a row as words.
LEMMA WordsPut ==
  ASSUME NEW st \in [Rank -> Seq(WordType)], NEW pks \in [Thread -> [Rank -> PacketType]], Sound(st, pks),
         NEW h \in Thread, NEW row \in Row, NEW m \in 0 .. Len(row.tgts)
  PROVE  LET all == SendWords([pk |-> pks[h], stream |-> st], row, m)
             new == [pks EXCEPT ![h] = all.pk] IN
         /\ Sound(all.stream, new)
         /\ \A t \in Rank, e \in Edge :
              Gain(all.stream[t], e) + Total(Leftover(new, t, e), NumThreads) =
                Gain(st[t], e) + Total(Leftover(pks, t, e), NumThreads) + Within(Aim(row), 0, m, Wish(t, e))
<1> DEFINE acc == [pk |-> pks[h], stream |-> st]
           all == SendWords(acc, row, m)
           new == [pks EXCEPT ![h] = all.pk]
<1>1. acc \in SendState /\ acc.pk = pks[h] /\ acc.stream = st
  BY DEF SendState
<1>2. SoundSend(acc)
  BY <1>1 DEF SoundSend, Sound
<1> HIDE DEF acc
<1>3. SoundSend(all) /\ \A t \in Rank, e \in Edge : Held(all, t, e) = Held(acc, t, e) + Within(Aim(row), 0, m, Wish(t, e))
  BY <1>1, <1>2, SendWordsExact
<1> HIDE DEF all
<1>4. new[h] = all.pk /\ \A g \in Thread : g # h => new[g] = pks[g]
  OBVIOUS
<1> HIDE DEF new
<1>5. Sound(all.stream, new)
  BY <1>3, <1>4 DEF Sound, SoundSend
<1>6. ASSUME NEW t \in Rank, NEW e \in Edge
      PROVE  Gain(all.stream[t], e) + Total(Leftover(new, t, e), NumThreads) =
               Gain(st[t], e) + Total(Leftover(pks, t, e), NumThreads) + Within(Aim(row), 0, m, Wish(t, e))
  <2> DEFINE f == Leftover(pks, t, e)
             g == Leftover(new, t, e)
             a == Gain(pks[h][t].words, e)
             b == Gain(all.pk[t].words, e)
             w == Within(Aim(row), 0, m, Wish(t, e))
             u == Gain(st[t], e)
             v == Gain(all.stream[t], e)
  <2>1. Numbers(f, NumThreads) /\ u \in Int /\ a \in Int /\ Total(f, NumThreads) \in Int
    BY LeftoverTyped
  <2>2. v \in Int /\ b \in Int
    BY <1>3, HeldTyped
  <2>3. w \in Int
    <3>1. m \in Nat
      BY DEF Row
    <3> QED BY <3>1, WithinTyped
  <2>4. v + b = u + a + w
    BY <1>1, <1>3 DEF Held
  <2>5. h \in 1 .. NumThreads
    BY Places
  <2>6. f[h] = a /\ g[h] = b
    BY <1>4, <2>5 DEF Leftover
  <2>7. \A k \in 1 .. NumThreads : k # h => g[k] = f[k]
    BY <1>4, Places DEF Leftover
  <2> HIDE DEF f, g, a, b, w, u, v
  <2>8. b - a \in Int /\ g[h] = f[h] + (b - a)
    BY <2>1, <2>2, <2>6
  <2>9. Total(g, NumThreads) = Total(f, NumThreads) + (b - a)
    BY <2>1, <2>5, <2>7, <2>8, TotalChange
  <2>10. v + Total(g, NumThreads) = u + Total(f, NumThreads) + w
    <3> DEFINE p == Total(f, NumThreads)
               q == Total(g, NumThreads)
    <3>1. p \in Int /\ q = p + (b - a)
      BY <2>1, <2>9
    <3> HIDE DEF p, q
    <3>2. v + q = u + p + w
      BY <2>1, <2>2, <2>3, <2>4, <3>1
    <3> QED BY <3>2 DEF p, q
  <2> QED BY <2>10 DEF f, g, u, v, w
<1> QED BY <1>5, <1>6 DEF all, new, acc

\* A row: its first edges as words, its others as words or in lists.
PutTogether(row, m, ls, nls) ==
  \/ m = 1 /\ nls = PutRow(ls, [src |-> row.src, tgts |-> Tail(row.tgts)])
  \/ m = Len(row.tgts) /\ nls = ls
RowIsPut(st, pks, ls, h, row, m, nls) ==
  LET all == SendWords([pk |-> pks[h], stream |-> st], row, m)
      new == [pks EXCEPT ![h] = all.pk] IN
  /\ Sound(all.stream, new)
  /\ \A t \in Rank, e \in Edge :
       Put(all.stream, new, nls, t, e) = Put(st, pks, ls, t, e) + Within(Aim(row), 0, Len(row.tgts), Wish(t, e))
LEMMA RowPut ==
  ASSUME NEW st \in [Rank -> Seq(WordType)], NEW pks \in [Thread -> [Rank -> PacketType]], Sound(st, pks),
         NEW ls \in [Rank -> Seq(ListType)], NEW h \in Thread, NEW row \in Row, Sorted(row.tgts),
         NEW m, NEW nls, PutTogether(row, m, ls, nls)
  PROVE  RowIsPut(st, pks, ls, h, row, m, nls)
<1> DEFINE all == SendWords([pk |-> pks[h], stream |-> st], row, m)
           new == [pks EXCEPT ![h] = all.pk]
           rest == [src |-> row.src, tgts |-> Tail(row.tgts)]
<1>1. /\ rest \in ListType /\ Sorted(rest.tgts) /\ Len(row.tgts) \in Nat \ {0}
      /\ \A x : Within(Aim(row), 0, Len(row.tgts), x) =
                  Within(Aim(row), 0, 1, x) + Within(Aim(rest), 0, Len(rest.tgts), x)
  BY TailExact
<1>2. \/ m = 1 /\ nls = PutRow(ls, rest)
      \/ m = Len(row.tgts) /\ nls = ls
  BY DEF PutTogether
<1> HIDE DEF rest
<1>3. m \in 0 .. Len(row.tgts) /\ m \in Nat
  BY <1>1, <1>2
<1>4. /\ Sound(all.stream, new)
      /\ \A t \in Rank, e \in Edge :
           Gain(all.stream[t], e) + Total(Leftover(new, t, e), NumThreads) =
             Gain(st[t], e) + Total(Leftover(pks, t, e), NumThreads) + Within(Aim(row), 0, m, Wish(t, e))
  BY <1>3, WordsPut
<1>5. \A t \in Rank, e \in Edge :
        Listed(PutRow(ls, rest)[t], e) = Listed(ls[t], e) + Within(Aim(rest), 0, Len(rest.tgts), Wish(t, e))
  BY <1>1, PutRowExact
<1> HIDE DEF all, new
<1>6. ASSUME NEW t \in Rank, NEW e \in Edge
      PROVE  Put(all.stream, new, nls, t, e) = Put(st, pks, ls, t, e) + Within(Aim(row), 0, Len(row.tgts), Wish(t, e))
  <2> DEFINE a == Gain(all.stream[t], e) + Total(Leftover(new, t, e), NumThreads)
             b == Gain(st[t], e) + Total(Leftover(pks, t, e), NumThreads)
             l == Listed(ls[t], e)
             k == Listed(nls[t], e)
             w == Within(Aim(row), 0, m, Wish(t, e))
             x == Within(Aim(row), 0, Len(row.tgts), Wish(t, e))
             y == Within(Aim(rest), 0, Len(rest.tgts), Wish(t, e))
  <2>1. Put(all.stream, new, nls, t, e) = a + k /\ Put(st, pks, ls, t, e) = b + l
    BY DEF Put
  <2>2. a = b + w
    BY <1>4
  <2>3. b \in Int /\ l \in Int /\ w \in Int /\ y \in Int
    <3>1. Gain(st[t], e) \in Int /\ Total(Leftover(pks, t, e), NumThreads) \in Int
      BY LeftoverTyped
    <3>2. ls[t] \in Seq(ListType)
      OBVIOUS
    <3>3. l \in Int
      BY <3>2, ListedTyped
    <3>5. w \in Int
      BY <1>3, WithinTyped
    <3>6. Len(rest.tgts) \in Nat
      BY <1>1 DEF ListType
    <3>7. y \in Int
      BY <3>6, WithinTyped
    <3> QED BY <3>1, <3>3, <3>5, <3>7
  <2>4. \/ k = l + y /\ x = w + y
        \/ k = l /\ x = w
    BY <1>1, <1>2, <1>5
  <2> HIDE DEF a, b, l, k, w, x, y
  <2>5. a + k = b + l + x
    BY <2>2, <2>3, <2>4
  <2> QED BY <2>1, <2>5 DEF x
<1> QED BY <1>4, <1>6 DEF RowIsPut, all, new

-----------------------------------------------------------------------------
(* No edge is lost or doubled on its way *)

\* What is written of the lists of a target.
Listing(ls, ln, lf) ==
  /\ Len(ln) = Len(ls) /\ Len(lf) = Len(ls) /\ \A b \in 1 .. Len(ls) : ln[b] = Len(ls[b].tgts)
  /\ Fits(ls, lf)

\* Streams and packets of a rank hold complete edges, and its areas pieces of
\* its lists.
RankShape(r) ==
  /\ loop[r] \in Nat
  /\ \A i \in DOMAIN frontier[r] : Sorted(frontier[r][i].tgts)
  /\ Sound(stream[r], packet[r])
  /\ pc[r] = "send" => loop[r] = 0
  /\ pc[r] # "send" => todo[r] = {} /\ \A t \in Rank : Listing(lists[r][t], lengths[r][t], left[r][t])
  /\ pc[r] \in {"agree", "done"} => loop[r] > 0
  /\ pc[r] = "exchange" => \A t \in Rank : Cuttings(area[r][t].pieces, lists[r][t])

\* What a rank has put for another are the edges of the rows it has taken.
InPackets(r, t, e) == IF pc[r] = "send" THEN Total(Leftover(packet[r], t, e), NumThreads) ELSE 0
Accounted(r) ==
  \A t \in Rank, e \in Edge :
    Gain(stream[r][t], e) + InPackets(r, t, e) + Listed(lists[r][t], e) = RowsTaken(frontier[r], todo[r], t, e)

\* What a rank has sent to another, and that is what is heard.
Streamed(r, t, e) == IF loop[r] = 0 THEN 0 ELSE Gain(stream[r][t], e)
OnTheWay(r, t, e) == IF pc[r] = "exchange" THEN PieceSum(area[r][t].pieces, lists[r][t], e) ELSE 0
Sofar(r, t, e) ==
  IF pc[r] = "send" THEN 0 ELSE Streamed(r, t, e) + Done(lists[r][t], left[r][t], e) - OnTheWay(r, t, e)
SofarAll(t, e) == [k \in 1 .. NumRanks |-> Sofar(k - 1, t, e)]
HeardType  == heard \in [Rank -> [Sources \X Locals -> Int]]
HeardRight == \A t \in Rank, e \in Sources \X Locals : heard[t][e] = Total(SofarAll(t, e), NumRanks)

DeliveryInv == (\A r \in Rank : RankShape(r) /\ Accounted(r)) /\ HeardType /\ HeardRight

\* What the code relies on without checking: where a list has words left, the
\* packets leave room for its header.
PacketsLeaveRoom ==
  \A r, t \in Rank : (\E b \in DOMAIN left[r][t] : left[r][t][b] > 0) => packets[r][t] + HeaderSize <= MaxSize

\* Sources and targets are numbers.
LEMMA EdgesTyped == PutType => Sources \X Locals \subseteq Edge
<1> SUFFICES ASSUME PutType PROVE Sources \X Locals \subseteq Edge
  OBVIOUS
<1>1. ASSUME NEW r \in Rank, NEW i \in DOMAIN frontier[r]
      PROVE  frontier[r][i].src \in Nat /\ frontier[r][i].tgts \in Seq(Target)
  <2>1. frontier[r] \in Seq(Row)
    BY DEF PutType
  <2>2. frontier[r][i] \in Row
    BY <2>1
  <2> QED BY <2>2 DEF Row
<1>2. Sources \subseteq Nat
  BY <1>1 DEF Sources
<1>3. \A r \in Rank : \A i \in DOMAIN frontier[r] : \A j \in DOMAIN frontier[r][i].tgts : frontier[r][i].tgts[j].local \in Nat
  <2> TAKE r \in Rank
  <2> TAKE i \in DOMAIN frontier[r]
  <2> TAKE j \in DOMAIN frontier[r][i].tgts
  <2>1. frontier[r][i].tgts[j] \in Target
    BY <1>1
  <2> QED BY <2>1 DEF Target
<1>4. Locals \subseteq Nat
  BY <1>3 DEF Locals
<1>5. Sources \subseteq Int
  BY <1>2
<1> QED BY <1>4, <1>5 DEF Edge

\* What was sent is a number.
LEMMA SofarTyped ==
  ASSUME PutType, NEW r \in Rank, RankShape(r), NEW t \in Rank, NEW e \in Edge
  PROVE  /\ Sofar(r, t, e) \in Int /\ Gain(stream[r][t], e) \in Int
         /\ pc[r] # "send" => Done(lists[r][t], left[r][t], e) \in Int
         /\ pc[r] = "exchange" => PieceSum(area[r][t].pieces, lists[r][t], e) \in Int
<1>1. lists[r][t] \in Seq(ListType)
  BY DEF PutType
<1>2. Sound(stream[r], packet[r])
  BY DEF RankShape
<1>3. Gain(stream[r][t], e) \in Int
  BY <1>2, LeftoverTyped
<1>4. ASSUME pc[r] # "send" PROVE Done(lists[r][t], left[r][t], e) \in Int
  <2>1. Fits(lists[r][t], left[r][t])
    BY <1>4 DEF RankShape, Listing
  <2> QED BY <1>1, <2>1, DoneTyped
<1>5. ASSUME pc[r] = "exchange" PROVE PieceSum(area[r][t].pieces, lists[r][t], e) \in Int
  <2>1. Cuttings(area[r][t].pieces, lists[r][t])
    BY <1>5 DEF RankShape
  <2> QED BY <2>1, PieceSumTyped
<1> QED BY <1>3, <1>4, <1>5 DEF Sofar, Streamed, OnTheWay

\* A rank that does nothing.
Stays(r) ==
  /\ pc[r]' = pc[r] /\ loop[r]' = loop[r] /\ frontier[r]' = frontier[r] /\ todo[r]' = todo[r]
  /\ packet[r]' = packet[r] /\ stream[r]' = stream[r] /\ lists[r]' = lists[r]
  /\ lengths[r]' = lengths[r] /\ left[r]' = left[r] /\ area[r]' = area[r]
LEMMA StaysSame ==
  ASSUME NEW r \in Rank, Stays(r), RankShape(r), Accounted(r)
  PROVE  RankShape(r)' /\ Accounted(r)' /\ \A t \in Rank, e \in Edge : Sofar(r, t, e)' = Sofar(r, t, e)
<1>1. RankShape(r)'
  BY DEF Stays, RankShape
<1>2. \A t \in Rank, e \in Edge : InPackets(r, t, e)' = InPackets(r, t, e)
  BY DEF Stays, InPackets
<1>3. Accounted(r)'
  BY <1>2 DEF Stays, Accounted
<1>4. \A t \in Rank, e \in Edge : Sofar(r, t, e)' = Sofar(r, t, e)
  BY DEF Stays, Sofar, Streamed, OnTheWay
<1> QED BY <1>1, <1>3, <1>4

\* Nothing is heard and nothing counts as sent.
LEMMA SameHeard ==
  ASSUME PutType, DeliveryInv, UNCHANGED <<heard, frontier>>,
         \A r \in Rank : RankShape(r)' /\ Accounted(r)' /\ \A t \in Rank, e \in Edge : Sofar(r, t, e)' = Sofar(r, t, e)
  PROVE  DeliveryInv'
<1>1. (Sources \X Locals)' = Sources \X Locals
  BY DEF Sources, Locals
<1>2. HeardType'
  BY <1>1 DEF DeliveryInv, HeardType
<1>3. ASSUME NEW t \in Rank, NEW e \in Sources \X Locals PROVE heard[t][e]' = Total(SofarAll(t, e)', NumRanks)
  <2>1. e \in Edge
    BY EdgesTyped
  <2>2. \A k \in 1 .. NumRanks : k - 1 \in Rank
    BY Places
  <2>3. \A k \in 1 .. NumRanks : Sofar(k - 1, t, e)' = Sofar(k - 1, t, e)
    BY <2>1, <2>2
  <2>4. SofarAll(t, e)' = SofarAll(t, e)
    BY <2>3 DEF SofarAll
  <2>5. heard[t][e] = Total(SofarAll(t, e), NumRanks)
    BY DEF DeliveryInv, HeardRight
  <2> QED BY <2>4, <2>5
<1>4. HeardRight'
  BY <1>1, <1>3 DEF HeardRight
<1> QED BY <1>2, <1>4 DEF DeliveryInv

\* One rank does something that counts as nothing sent.
LEMMA OneRank ==
  ASSUME PutType, DeliveryInv, UNCHANGED <<heard, frontier>>, NEW r \in Rank, \A s \in Rank : s # r => Stays(s),
         RankShape(r)', Accounted(r)', \A t \in Rank, e \in Edge : Sofar(r, t, e)' = Sofar(r, t, e)
  PROVE  DeliveryInv'
<1>1. ASSUME NEW s \in Rank
      PROVE  RankShape(s)' /\ Accounted(s)' /\ \A t \in Rank, e \in Edge : Sofar(s, t, e)' = Sofar(s, t, e)
  <2>1. RankShape(s) /\ Accounted(s)
    BY DEF DeliveryInv
  <2>2. CASE s = r
    BY <2>2
  <2>3. CASE s # r
    <3>1. Stays(s)
      BY <2>3
    <3> QED BY <2>1, <3>1, StaysSame
  <2> QED BY <2>2, <2>3
<1> QED BY <1>1, SameHeard

\* A thread sends a row.
LEMMA SendRowDelivery ==
  ASSUME FoldInv, DeliveryInv, NEW r \in Rank, NEW h \in Thread, SendRow(r, h)
  PROVE  DeliveryInv'
<1>1. PICK i \in todo[r] : 
        LET row  == frontier[r][i]
            long == Len(row.tgts) - 1 > LongRow
            all  == SendWords([pk |-> packet[r][h], stream |-> stream[r]], row,
                              IF long THEN 1 ELSE Len(row.tgts))
        IN
        /\ pc[r] = "send"
        /\ todo' = [todo EXCEPT ![r] = @ \ {i}]
        /\ packet' = [packet EXCEPT ![r][h] = all.pk]
        /\ stream' = [stream EXCEPT ![r] = all.stream]
        /\ lists' = IF long THEN [lists EXCEPT ![r] = PutRow(@, [src |-> row.src, tgts |-> Tail(row.tgts)])] ELSE lists
        /\ UNCHANGED <<alltoallVars, frontier, heard>>
  BY DEF SendRow
<1> DEFINE row  == frontier[r][i]
           long == Len(row.tgts) - 1 > LongRow
           m    == IF long THEN 1 ELSE Len(row.tgts)
           all  == SendWords([pk |-> packet[r][h], stream |-> stream[r]], row, m)
           new  == [packet[r] EXCEPT ![h] = all.pk]
           rest == [src |-> row.src, tgts |-> Tail(row.tgts)]
           nls  == IF long THEN PutRow(lists[r], rest) ELSE lists[r]
<1>2. /\ frontier \in [Rank -> Seq(Row)] /\ todo[r] \subseteq DOMAIN frontier[r]
      /\ packet \in [Rank -> [Thread -> [Rank -> PacketType]]]
      /\ stream \in [Rank -> [Rank -> Seq(WordType)]]
      /\ lists \in [Rank -> [Rank -> Seq(ListType)]]
      /\ todo = [s \in Rank |-> todo[s]]
  BY DEF FoldInv, PutType
<1>3. row \in Row /\ i \in 1 .. Len(frontier[r]) /\ frontier[r] \in Seq(Row)
  BY <1>1, <1>2
<1>4. RankShape(r) /\ Accounted(r)
  BY DEF DeliveryInv
<1>5. Sorted(row.tgts) /\ Sound(stream[r], packet[r]) /\ long \in BOOLEAN
  BY <1>1, <1>2, <1>4 DEF RankShape
<1>6. /\ Sound(all.stream, new)
      /\ \A t \in Rank, e \in Edge :
           Put(all.stream, new, nls, t, e) =
             Put(stream[r], packet[r], lists[r], t, e) + Within(Aim(row), 0, Len(row.tgts), Wish(t, e))
  <2>1. stream[r] \in [Rank -> Seq(WordType)] /\ packet[r] \in [Thread -> [Rank -> PacketType]] /\ lists[r] \in [Rank -> Seq(ListType)]
    BY <1>2
  <2>2. PutTogether(row, m, lists[r], nls)
    <3> HIDE DEF row, long
    <3> QED BY DEF PutTogether
  <2> HIDE DEF row, m, nls
  <2>3. RowIsPut(stream[r], packet[r], lists[r], h, row, m, nls)
    BY <1>3, <1>5, <2>1, <2>2, RowPut
  <2> QED BY <2>3 DEF RowIsPut
<1>7. /\ pc[r] = "send" /\ UNCHANGED <<alltoallVars, frontier, heard>>
      /\ todo' = [todo EXCEPT ![r] = @ \ {i}]
      /\ packet' = [packet EXCEPT ![r][h] = all.pk]
      /\ stream' = [stream EXCEPT ![r] = all.stream]
  BY <1>1
<1>8. lists' = IF long THEN [lists EXCEPT ![r] = PutRow(lists[r], rest)] ELSE lists
  BY <1>1
<1>9. packet'[r] = new /\ stream'[r] = all.stream /\ todo'[r] = todo[r] \ {i}
  <2> HIDE DEF all
  <2> QED BY <1>2, <1>7
<1>10. lists'[r] = nls
  <2> HIDE DEF long, rest
  <2> QED BY <1>2, <1>8 DEF nls
<1>11. pc' = pc /\ loop' = loop /\ lengths' = lengths /\ left' = left /\ area' = area
  BY <1>7 DEF alltoallVars
<1>12. \A s \in Rank : s # r => Stays(s)
  <2> SUFFICES ASSUME NEW s \in Rank, s # r PROVE Stays(s)
    OBVIOUS
  <2>1. lists'[s] = lists[s]
    <3> HIDE DEF long, rest
    <3> QED BY <1>2, <1>8
  <2>2. packet'[s] = packet[s] /\ stream'[s] = stream[s] /\ todo'[s] = todo[s]
    <3> HIDE DEF all
    <3> QED BY <1>2, <1>7
  <2> QED BY <1>7, <1>11, <2>1, <2>2 DEF Stays
<1> HIDE DEF all, new, nls, long, rest, m
<1>13. RankShape(r)'
  BY <1>4, <1>6, <1>7, <1>9, <1>11 DEF RankShape
<1>14. Accounted(r)'
  <2> SUFFICES ASSUME NEW t \in Rank, NEW e \in Edge
               PROVE  Gain(stream'[r][t], e) + InPackets(r, t, e)' + Listed(lists'[r][t], e) = RowsTaken(frontier'[r], todo'[r], t, e)
    BY DEF Accounted
  <2>1. InPackets(r, t, e)' = Total(Leftover(new, t, e), NumThreads)
    BY <1>7, <1>9, <1>11 DEF InPackets
  <2>2. Gain(stream'[r][t], e) + InPackets(r, t, e)' + Listed(lists'[r][t], e) = Put(all.stream, new, nls, t, e)
    BY <1>9, <1>10, <2>1 DEF Put
  <2>3. RowsTaken(frontier[r], todo[r] \ {i}, t, e) =
          RowsTaken(frontier[r], todo[r], t, e) + Within(Aim(row), 0, Len(row.tgts), Wish(t, e))
    BY <1>3, RowTaken
  <2>4. Put(stream[r], packet[r], lists[r], t, e) = RowsTaken(frontier[r], todo[r], t, e)
    BY <1>4, <1>7 DEF Accounted, InPackets, Put
  <2> HIDE DEF row
  <2> QED BY <1>6, <1>7, <1>9, <2>2, <2>3, <2>4
<1>15. \A t \in Rank, e \in Edge : Sofar(r, t, e)' = Sofar(r, t, e)
  BY <1>7, <1>11 DEF Sofar
<1>16. UNCHANGED <<heard, frontier>> /\ PutType
  BY <1>7 DEF FoldInv
<1> QED BY <1>12, <1>13, <1>14, <1>15, <1>16, OneRank

\* The packets go out and the rounds begin: all of every list is left.
LEMMA FlushPacketsDelivery ==
  ASSUME FoldInv, DeliveryInv, NEW r \in Rank, FlushPackets(r)
  PROVE  DeliveryInv'
<1>1. /\ packet \in [Rank -> [Thread -> [Rank -> PacketType]]]
      /\ stream \in [Rank -> [Rank -> Seq(WordType)]]
      /\ lists \in [Rank -> [Rank -> Seq(ListType)]]
  BY DEF FoldInv, PutType
<1>2. /\ pc \in [Rank -> PcType]
      /\ lengths \in [Rank -> [Rank -> Seq(Nat)]]
      /\ left \in [Rank -> [Rank -> Seq(Nat)]]
  BY DEF FoldInv, RoundType
<1> DEFINE words == [t \in Rank |-> Flushed(stream[r][t], packet[r], t)]
           lens  == [t \in Rank |-> [b \in DOMAIN lists[r][t] |-> Len(lists[r][t][b].tgts)]]
           pks   == [h \in Thread |-> [t \in Rank |-> Sent(packet[r][h][t])]]
<1>3. /\ pc[r] = "send" /\ todo[r] = {}
      /\ stream' = [stream EXCEPT ![r] = words]
      /\ packet' = [packet EXCEPT ![r] = pks]
      /\ lengths' = [lengths EXCEPT ![r] = lens]
      /\ left' = [left EXCEPT ![r] = lengths'[r]]
      /\ pc' = [pc EXCEPT ![r] = "count"]
      /\ UNCHANGED <<loop, area, frontier, todo, lists, heard>>
  BY <1>1 DEF FlushPackets
<1>4. RankShape(r) /\ Accounted(r)
  BY DEF DeliveryInv
<1>5. Sound(stream[r], packet[r]) /\ loop[r] = 0
  BY <1>3, <1>4 DEF RankShape
<1>6. \A t \in Rank : /\ Plain(words[t])
                      /\ \A e \in Edge : Gain(words[t], e) = Gain(stream[r][t], e) + Total(Leftover(packet[r], t, e), NumThreads)
  <2> TAKE t \in Rank
  <2>1. stream[r][t] \in Seq(WordType) /\ packet[r] \in [Thread -> [Rank -> PacketType]]
    BY <1>1
  <2>2. Plain(stream[r][t]) /\ \A h \in Thread : SoundPacket(packet[r][h][t])
    BY <1>5 DEF Sound
  <2>3. words[t] = Flushed(stream[r][t], packet[r], t)
    OBVIOUS
  <2> HIDE DEF words
  <2> QED BY <2>1, <2>2, <2>3, FlushedExact
<1>7. \A t \in Rank : Listing(lists[r][t], lens[t], lens[t])
                      /\ \A b \in 1 .. Len(lists[r][t]) : lens[t][b] = Len(lists[r][t][b].tgts) /\ Len(lists[r][t][b].tgts) \in Nat
  <2> TAKE t \in Rank
  <2> DEFINE ls == lists[r][t]
             ln == [b \in DOMAIN ls |-> Len(ls[b].tgts)]
  <2>1. ls \in Seq(ListType) /\ lens[t] = ln
    BY <1>1
  <2> HIDE DEF ls
  <2>2. DOMAIN ls = 1 .. Len(ls) /\ Len(ls) \in Nat /\ \A b \in 1 .. Len(ls) : ls[b] \in ListType
    BY <2>1
  <2>3. \A b \in 1 .. Len(ls) : Len(ls[b].tgts) \in Nat /\ ln[b] = Len(ls[b].tgts)
    BY <2>2 DEF ListType
  <2>4. Len(ln) = Len(ls)
    BY <2>2
  <2> HIDE DEF ln
  <2>5. \A b \in 1 .. Len(ls) : ln[b] \in 0 .. Len(ls[b].tgts)
    BY <2>3
  <2>6. Listing(ls, ln, ln)
    BY <2>3, <2>4, <2>5 DEF Listing, Fits
  <2> QED BY <2>1, <2>3, <2>6 DEF ls
<1>8. \A t \in Rank : \A h \in Thread : SoundPacket(pks[h][t])
  BY SoundEmpty DEF Sent
<1> HIDE DEF words, lens, pks
<1>9. /\ stream'[r] = words /\ packet'[r] = pks /\ lengths'[r] = lens /\ pc'[r] = "count"
      /\ loop' = loop /\ area' = area /\ frontier' = frontier /\ todo' = todo /\ lists' = lists /\ heard' = heard
  BY <1>1, <1>2, <1>3
<1>10. left'[r] = lens
  BY <1>2, <1>3, <1>9
<1>11. \A s \in Rank : s # r => Stays(s)
  BY <1>1, <1>2, <1>3 DEF Stays
<1>12. Sound(words, pks)
  BY <1>6, <1>8 DEF Sound
<1>13. RankShape(r)'
  BY <1>3, <1>4, <1>7, <1>9, <1>10, <1>12 DEF RankShape
<1>14. Accounted(r)'
  <2> SUFFICES ASSUME NEW t \in Rank, NEW e \in Edge
               PROVE  Gain(stream'[r][t], e) + InPackets(r, t, e)' + Listed(lists'[r][t], e) = RowsTaken(frontier'[r], todo'[r], t, e)
    BY DEF Accounted
  <2>1. InPackets(r, t, e)' = 0
    BY <1>9 DEF InPackets
  <2>2. Gain(stream[r][t], e) + Total(Leftover(packet[r], t, e), NumThreads) + Listed(lists[r][t], e) = RowsTaken(frontier[r], todo[r], t, e)
    BY <1>3, <1>4 DEF Accounted, InPackets
  <2>3. Gain(words[t], e) = Gain(stream[r][t], e) + Total(Leftover(packet[r], t, e), NumThreads)
    BY <1>6
  <2>4. Gain(words[t], e) \in Int
    BY <1>6, GainTyped
  <2>5. Gain(words[t], e) + 0 = Gain(words[t], e)
    BY <2>4
  <2> QED BY <1>9, <2>1, <2>2, <2>3, <2>5
<1>15. ASSUME NEW t \in Rank, NEW e \in Edge PROVE Sofar(r, t, e)' = Sofar(r, t, e)
  <2>1. Sofar(r, t, e) = 0
    BY <1>3 DEF Sofar
  <2>2. Sofar(r, t, e)' = 0 + Done(lists[r][t], lens[t], e) - 0
    BY <1>5, <1>9, <1>10 DEF Sofar, Streamed, OnTheWay
  <2>3. Done(lists[r][t], lens[t], e) = 0
    <3> DEFINE ls == lists[r][t]
               ln == lens[t]
               f == DoneParts(ls, ln, e)
    <3>1. Len(ls) \in Nat /\ \A b \in 1 .. Len(ls) : ln[b] = Len(ls[b].tgts) /\ Len(ls[b].tgts) \in Nat
      <4>1. ls \in Seq(ListType)
        BY <1>1
      <4> QED BY <1>7, <4>1
    <3> HIDE DEF ls, ln
    <3>2. \A b \in 1 .. Len(ls) : f[b] = 0
      <4> TAKE b \in 1 .. Len(ls)
      <4>1. Len(ls[b].tgts) - ln[b] = 0
        BY <3>1
      <4>2. Between(ls[b], 0, 0, e) = 0
        BY WithinNone DEF Between
      <4> QED BY <4>1, <4>2 DEF DoneParts
    <3> HIDE DEF f
    <3>3. Total(f, Len(ls)) = 0
      BY <3>1, <3>2, TotalZero
    <3> QED BY <3>3 DEF Done, f, ls, ln
  <2> QED BY <2>1, <2>2, <2>3
<1>16. UNCHANGED <<heard, frontier>> /\ PutType
  BY <1>9 DEF FoldInv
<1> QED BY <1>11, <1>13, <1>14, <1>15, <1>16, OneRank

\* The first pass.
LEMMA CountDelivery ==
  ASSUME FoldInv, DeliveryInv, NEW r \in Rank, Count(r), UNCHANGED foldVars
  PROVE  DeliveryInv'
<1>1. /\ pc[r] = "count" /\ pc' = [pc EXCEPT ![r] = IF loop[r] > 0 THEN "agree" ELSE "fill"]
      /\ UNCHANGED <<lengths, loop, packets, left, area, received>>
      /\ UNCHANGED <<frontier, todo, packet, stream, lists, heard>>
  BY DEF Count, foldVars
<1>2. pc \in [Rank -> PcType]
  BY DEF FoldInv, RoundType
<1>3. /\ pc'[r] \in {"agree", "fill"} /\ (pc'[r] = "agree" => loop[r] > 0)
      /\ \A s \in Rank : s # r => pc'[s] = pc[s]
  BY <1>1, <1>2
<1>4. RankShape(r) /\ Accounted(r)
  BY DEF DeliveryInv
<1>5. RankShape(r)'
  BY <1>1, <1>3, <1>4 DEF RankShape
<1>6. Accounted(r)'
  BY <1>1, <1>3, <1>4 DEF Accounted, InPackets
<1>7. \A t \in Rank, e \in Edge : Sofar(r, t, e)' = Sofar(r, t, e)
  BY <1>1, <1>3 DEF Sofar, Streamed, OnTheWay
<1>8. \A s \in Rank : s # r => Stays(s)
  BY <1>1, <1>3 DEF Stays
<1>9. UNCHANGED <<heard, frontier>> /\ PutType
  BY <1>1 DEF FoldInv
<1> QED BY <1>5, <1>6, <1>7, <1>8, <1>9, OneRank

\* The reduction.
LEMMA AgreeDelivery ==
  ASSUME FoldInv, DeliveryInv, Agree, UNCHANGED foldVars
  PROVE  DeliveryInv'
<1>1. /\ \A r \in Rank : pc[r] = "agree"
      /\ pc' = [r \in Rank |-> IF \E s \in Rank : HasData(s) THEN "fill" ELSE "done"]
      /\ UNCHANGED <<lengths, loop, packets, left, counts, area, received>>
      /\ UNCHANGED <<frontier, todo, packet, stream, lists, heard>>
  BY DEF Agree, foldVars
<1>2. ASSUME NEW r \in Rank
      PROVE  RankShape(r)' /\ Accounted(r)' /\ \A t \in Rank, e \in Edge : Sofar(r, t, e)' = Sofar(r, t, e)
  <2>1. pc[r] = "agree" /\ pc'[r] \in {"fill", "done"}
    BY <1>1
  <2>2. RankShape(r) /\ Accounted(r)
    BY DEF DeliveryInv
  <2>3. RankShape(r)'
    BY <1>1, <2>1, <2>2 DEF RankShape
  <2>4. Accounted(r)'
    BY <1>1, <2>1, <2>2 DEF Accounted, InPackets
  <2>5. \A t \in Rank, e \in Edge : Sofar(r, t, e)' = Sofar(r, t, e)
    BY <1>1, <2>1 DEF Sofar, Streamed, OnTheWay
  <2> QED BY <2>3, <2>4, <2>5
<1>3. UNCHANGED <<heard, frontier>> /\ PutType
  BY <1>1 DEF FoldInv
<1> QED BY <1>2, <1>3, SameHeard

\* The second pass: what is written is not counted as sent yet.
LEMMA FillDelivery ==
  ASSUME FoldInv, DeliveryInv, PacketsLeaveRoom, NEW r \in Rank, Fill(r), UNCHANGED foldVars
  PROVE  DeliveryInv'
<1> DEFINE f(t) == Filled(packets[r][t], left[r][t], lengths[r][t])
           out  == [t \in Rank |-> [words |-> f(t).words, pieces |-> f(t).pieces]]
           rest == [t \in Rank |-> f(t).left]
<1>1. /\ pc[r] = "fill"
      /\ area' = [area EXCEPT ![r] = out]
      /\ left' = [left EXCEPT ![r] = rest]
      /\ pc' = [pc EXCEPT ![r] = "exchange"]
      /\ UNCHANGED <<lengths, loop, counts, received>>
      /\ UNCHANGED <<frontier, todo, packet, stream, lists, heard>>
  BY DEF Fill, foldVars
<1>2. /\ pc \in [Rank -> PcType] /\ packets \in [Rank -> [Rank -> Nat]]
      /\ left \in [Rank -> [Rank -> Seq(Nat)]] /\ area = [s \in Rank |-> area[s]]
      /\ lengths \in [Rank -> [Rank -> Seq(Nat)]]
  BY DEF FoldInv, RoundType
<1>3. RankShape(r) /\ Accounted(r)
  BY DEF DeliveryInv
<1>4. lists[r] \in [Rank -> Seq(ListType)]
  BY DEF FoldInv, PutType
<1>5. \A t \in Rank : Listing(lists[r][t], lengths[r][t], left[r][t])
  BY <1>1, <1>3 DEF RankShape
<1>6. ASSUME NEW t \in Rank
      PROVE  /\ Fits(lists[r][t], f(t).left) /\ Cuttings(f(t).pieces, lists[r][t])
             /\ Len(f(t).left) = Len(lists[r][t])
             /\ \A e : Done(lists[r][t], f(t).left, e) = Done(lists[r][t], left[r][t], e) + PieceSum(f(t).pieces, lists[r][t], e)
  <2> DEFINE ls == lists[r][t]
             p  == packets[r][t]
             lf == left[r][t]
             ln == lengths[r][t]
  <2>1. ls \in Seq(ListType) /\ p \in Nat /\ lf \in Seq(Nat) /\ ln \in Seq(Nat) /\ Listing(ls, ln, lf)
    BY <1>2, <1>4, <1>5
  <2>2. (\E b \in DOMAIN lf : lf[b] > 0) => p + HeaderSize <= MaxSize
    BY DEF PacketsLeaveRoom
  <2>3. f(t) = Filled(p, lf, ln)
    OBVIOUS
  <2>4. Len(f(t).left) = Len(ln)
    BY CountedArea DEF FoldInv
  <2> HIDE DEF ls, p, lf, ln, f
  <2>5. Len(lf) = Len(ls) /\ Len(ln) = Len(ls) /\ Fits(ls, lf) /\ \A b \in 1 .. Len(ls) : ln[b] = Len(ls[b].tgts)
    BY <2>1 DEF Listing
  <2>6. (\E b \in 1 .. Len(ls) : lf[b] > 0) => p + 3 <= MaxSize
    BY <2>1, <2>2, <2>5, AreaSizes
  <2>7. /\ Fits(ls, Filled(p, lf, ln).left) /\ Cuttings(Filled(p, lf, ln).pieces, ls)
        /\ \A e : Done(ls, Filled(p, lf, ln).left, e) = Done(ls, lf, e) + PieceSum(Filled(p, lf, ln).pieces, ls, e)
    BY <2>1, <2>5, <2>6, FilledExact
  <2> QED BY <2>3, <2>4, <2>5, <2>7 DEF ls, lf
<1> HIDE DEF f
<1>7. \A t \in Rank : rest[t] = f(t).left /\ out[t].pieces = f(t).pieces
  OBVIOUS
<1> HIDE DEF out, rest
<1>8. /\ pc'[r] = "exchange" /\ left'[r] = rest /\ area'[r] = out
      /\ \A s \in Rank : s # r => pc'[s] = pc[s] /\ left'[s] = left[s] /\ area'[s] = area[s]
  BY <1>1, <1>2
<1>9. RankShape(r)'
  <2>1. \A t \in Rank : Listing(lists[r][t], lengths[r][t], rest[t])
    BY <1>5, <1>6, <1>7 DEF Listing
  <2>2. \A t \in Rank : Cuttings(out[t].pieces, lists[r][t])
    BY <1>6, <1>7
  <2> QED BY <1>1, <1>3, <1>8, <2>1, <2>2 DEF RankShape
<1>10. Accounted(r)'
  BY <1>1, <1>3, <1>8 DEF Accounted, InPackets
<1>11. ASSUME NEW t \in Rank, NEW e \in Edge PROVE Sofar(r, t, e)' = Sofar(r, t, e)
  <2> DEFINE a == Streamed(r, t, e)
             b == Done(lists[r][t], left[r][t], e)
             c == Done(lists[r][t], rest[t], e)
             d == PieceSum(out[t].pieces, lists[r][t], e)
  <2>1. Sofar(r, t, e) = a + b - 0
    BY <1>1 DEF Sofar, OnTheWay
  <2>2. Streamed(r, t, e)' = a
    BY <1>1 DEF Streamed
  <2>3. Sofar(r, t, e)' = a + c - d
    BY <1>1, <1>8, <2>2 DEF Sofar, OnTheWay
  <2>4. c = b + d
    BY <1>6, <1>7
  <2>5. d \in Int
    <3>1. Cuttings(out[t].pieces, lists[r][t])
      BY <1>6, <1>7
    <3> QED BY <3>1, PieceSumTyped
  <2>6. a \in Int /\ b \in Int
    BY <1>1, <1>3, SofarTyped DEF FoldInv, Streamed
  <2> HIDE DEF a, b, c, d
  <2> QED BY <2>1, <2>3, <2>4, <2>5, <2>6
<1>12. \A s \in Rank : s # r => Stays(s)
  BY <1>1, <1>8 DEF Stays
<1>13. UNCHANGED <<heard, frontier>> /\ PutType
  BY <1>1 DEF FoldInv
<1> QED BY <1>9, <1>10, <1>11, <1>12, <1>13, OneRank

\* The exchange: what was written is heard.
LEMMA ExchangeDelivery ==
  ASSUME FoldInv, DeliveryInv, ExchangeAndReceive
  PROVE  DeliveryInv'
<1>1. /\ \A r \in Rank : pc[r] = "exchange"
      /\ loop' = [r \in Rank |-> loop[r] + 1] /\ pc' = [r \in Rank |-> "count"]
      /\ UNCHANGED <<lengths, packets, left, counts, area>>
      /\ UNCHANGED <<frontier, todo, packet, stream, lists>>
  BY DEF ExchangeAndReceive, Exchange
<1>2. heard' = [t \in Rank |-> [e \in DOMAIN heard[t] |-> heard[t][e] + Occ(HeardOf(t), e)]]
  BY DEF ExchangeAndReceive, HeardOf, Hears, Occ
<1>3. PutType /\ HeardType /\ HeardRight /\ \A r \in Rank : RankShape(r) /\ Accounted(r)
  BY DEF FoldInv, DeliveryInv
<1>4. (Sources \X Locals)' = Sources \X Locals /\ Sources \X Locals \subseteq Edge
  <2>1. Sources \X Locals \subseteq Edge
    BY <1>3, EdgesTyped
  <2> QED BY <1>1, <2>1 DEF Sources, Locals
<1>5. \A r \in Rank, t \in Rank : /\ Plain(WordsFor(r, t))
         /\ \A e \in Edge : Gain(WordsFor(r, t), e) =
              (IF loop[r] = 0 THEN Gain(stream[r][t], e) ELSE 0) + PieceSum(area[r][t].pieces, lists[r][t], e)
  <2> TAKE r \in Rank, t \in Rank
  <2>1. Sound(stream[r], packet[r]) /\ Cuttings(area[r][t].pieces, lists[r][t])
    BY <1>1, <1>3 DEF RankShape
  <2>2. Plain(stream[r][t]) /\ stream[r][t] \in Seq(WordType)
    BY <1>3, <2>1 DEF Sound, PutType
  <2> QED BY <2>1, <2>2, AreaRead
<1>6. ASSUME NEW r \in Rank, NEW t \in Rank, NEW e \in Edge
      PROVE  /\ Sofar(r, t, e)' = Sofar(r, t, e) + Gain(WordsFor(r, t), e)
             /\ Sofar(r, t, e) \in Int
  <2> DEFINE g == Gain(stream[r][t], e)
             d == Done(lists[r][t], left[r][t], e)
             p == PieceSum(area[r][t].pieces, lists[r][t], e)
             n == loop[r]
  <2>1. n \in Nat /\ g \in Int /\ d \in Int /\ p \in Int /\ Sofar(r, t, e) \in Int
    BY <1>1, <1>3, SofarTyped DEF RankShape
  <2>2. Sofar(r, t, e) = (IF n = 0 THEN 0 ELSE g) + d - p
    BY <1>1 DEF Sofar, Streamed, OnTheWay
  <2>3. loop'[r] = n + 1 /\ pc'[r] = "count"
    BY <1>1
  <2>4. Sofar(r, t, e)' = (IF n + 1 = 0 THEN 0 ELSE g) + d - 0
    BY <1>1, <2>3 DEF Sofar, Streamed, OnTheWay
  <2>5. Gain(WordsFor(r, t), e) = (IF n = 0 THEN g ELSE 0) + p
    BY <1>5
  <2> HIDE DEF g, d, p, n
  <2> QED BY <2>1, <2>2, <2>4, <2>5
<1>7. ASSUME NEW r \in Rank PROVE RankShape(r)' /\ Accounted(r)'
  <2>1. loop'[r] = loop[r] + 1 /\ pc'[r] = "count" /\ pc[r] = "exchange"
    BY <1>1
  <2>2. RankShape(r) /\ Accounted(r)
    BY <1>3
  <2>3. RankShape(r)'
    BY <1>1, <2>1, <2>2 DEF RankShape
  <2>4. Accounted(r)'
    BY <1>1, <2>1, <2>2 DEF Accounted, InPackets
  <2> QED BY <2>3, <2>4
<1>8. ASSUME NEW t \in Rank, NEW e \in Sources \X Locals
      PROVE  heard'[t][e] = Total(SofarAll(t, e)', NumRanks) /\ heard'[t][e] \in Int
  <2> DEFINE f == SofarAll(t, e)
             g == SentTo(t, e)
             h == [k \in 1 .. NumRanks |-> Sofar(k - 1, t, e)']
  <2>1. e \in Edge /\ DOMAIN heard[t] = Sources \X Locals
    BY <1>3, <1>4 DEF HeardType
  <2>2. heard'[t][e] = heard[t][e] + Occ(HeardOf(t), e)
    BY <1>2, <2>1
  <2>3. Numbers(g, NumRanks) /\ Occ(HeardOf(t), e) = Total(g, NumRanks)
    BY <1>5, <2>1, RoundHeard
  <2>4. heard[t][e] = Total(f, NumRanks)
    BY <1>3 DEF HeardRight
  <2>5. \A k \in 1 .. NumRanks : k - 1 \in Rank
    BY Places
  <2>6. \A k \in 1 .. NumRanks : f[k] = Sofar(k - 1, t, e) /\ g[k] = Gain(WordsFor(k - 1, t), e) /\ h[k] = Sofar(k - 1, t, e)'
    BY DEF SofarAll, SentTo
  <2>7. \A k \in 1 .. NumRanks : h[k] = f[k] + g[k] /\ f[k] \in Int
    BY <1>6, <2>1, <2>5, <2>6
  <2>8. SofarAll(t, e)' = h
    BY DEF SofarAll
  <2> HIDE DEF f, g, h
  <2>9. Numbers(f, NumRanks)
    BY <2>7, Places DEF Numbers
  <2>10. Total(h, NumRanks) = Total(f, NumRanks) + Total(g, NumRanks) /\ Total(f, NumRanks) \in Int /\ Total(g, NumRanks) \in Int
    BY <2>3, <2>7, <2>9, TotalSum
  <2> QED BY <2>2, <2>3, <2>4, <2>8, <2>10
<1>9. HeardType'
  <2>1. \A t \in Rank : DOMAIN heard[t] = Sources \X Locals
    BY <1>3 DEF HeardType
  <2>2. heard' = [t \in Rank |-> [e \in Sources \X Locals |-> heard[t][e] + Occ(HeardOf(t), e)]]
    BY <1>2, <2>1
  <2>3. \A t \in Rank : \A e \in Sources \X Locals : heard[t][e] + Occ(HeardOf(t), e) \in Int
    BY <1>8, <2>2
  <2> QED BY <1>4, <2>2, <2>3 DEF HeardType
<1>10. HeardRight'
  BY <1>4, <1>8 DEF HeardRight
<1> QED BY <1>7, <1>9, <1>10 DEF DeliveryInv

\* What a level starts with.
LEMMA DeliveryInit == FoldInit => DeliveryInv
<1> SUFFICES ASSUME FoldInit PROVE DeliveryInv
  OBVIOUS
<1>1. PutType
  BY FoldInvInit DEF FoldInv
<1>2. /\ frontier \in Frontiers
      /\ todo = [r \in Rank |-> DOMAIN frontier[r]]
      /\ packet = [r \in Rank |-> [h \in Thread |-> [t \in Rank |-> Empty]]]
      /\ stream = [r \in Rank |-> [t \in Rank |-> <<>>]]
      /\ lists = [r \in Rank |-> [t \in Rank |-> <<>>]]
      /\ heard = [r \in Rank |-> [e \in Sources \X Locals |-> 0]]
      /\ pc = [r \in Rank |-> "send"] /\ loop = [r \in Rank |-> 0]
  BY DEF FoldInit
<1>3. ASSUME NEW r \in Rank PROVE RankShape(r) /\ Accounted(r)
  <2>1. pc[r] = "send" /\ loop[r] = 0 /\ todo[r] = DOMAIN frontier[r]
    BY <1>2
  <2>2. \A t \in Rank : stream[r][t] = <<>> /\ lists[r][t] = <<>> /\ \A h \in Thread : packet[r][h][t] = Empty
    BY <1>2
  <2>3. \A i \in DOMAIN frontier[r] : Sorted(frontier[r][i].tgts)
    BY <1>2, TopDownFoldAssumption DEF Sorted
  <2>4. Sound(stream[r], packet[r])
    BY <2>2, PlainEmpty, SoundEmpty DEF Sound
  <2>5. RankShape(r)
    BY <2>1, <2>3, <2>4 DEF RankShape
  <2>6. ASSUME NEW t \in Rank, NEW e \in Edge
        PROVE  Gain(stream[r][t], e) + InPackets(r, t, e) + Listed(lists[r][t], e) = RowsTaken(frontier[r], todo[r], t, e)
    <3>1. Gain(stream[r][t], e) = 0
      BY <2>2, PlainEmpty
    <3>2. Total(Leftover(packet[r], t, e), NumThreads) = 0
      <4>1. \A h \in 1 .. NumThreads : Leftover(packet[r], t, e)[h] = 0
        BY <2>2, SoundEmpty, Places DEF Leftover
      <4> QED BY <4>1, TotalZero, Places
    <3>3. Listed(lists[r][t], e) = 0
      <4>1. Len(<<>>) = 0 /\ \A b \in 1 .. 0 : Whole(<<>>, e)[b] = 0
        OBVIOUS
      <4>2. Total(Whole(<<>>, e), 0) = 0
        BY <4>1, TotalZero
      <4> QED BY <2>2, <4>1, <4>2 DEF Listed
    <3>4. RowsTaken(frontier[r], todo[r], t, e) = 0
      <4> DEFINE n == Len(frontier[r])
      <4>1. frontier[r] \in Seq(Row)
        BY <1>1 DEF PutType
      <4>2. n \in Nat /\ DOMAIN frontier[r] = 1 .. n
        BY <4>1
      <4>3. \A i \in 1 .. n : RowParts(frontier[r], todo[r], t, e)[i] = 0
        BY <2>1, <4>2 DEF RowParts
      <4> HIDE DEF n
      <4>4. Total(RowParts(frontier[r], todo[r], t, e), n) = 0
        BY <4>2, <4>3, TotalZero
      <4> QED BY <4>4 DEF RowsTaken, n
    <3> QED BY <2>1, <3>1, <3>2, <3>3, <3>4 DEF InPackets
  <2> QED BY <2>5, <2>6 DEF Accounted
<1>4. HeardType
  BY <1>2 DEF HeardType
<1>5. ASSUME NEW t \in Rank, NEW e \in Sources \X Locals PROVE heard[t][e] = Total(SofarAll(t, e), NumRanks)
  <2>1. \A k \in 1 .. NumRanks : k - 1 \in Rank
    BY Places
  <2>2. \A k \in 1 .. NumRanks : SofarAll(t, e)[k] = 0
    BY <1>2, <2>1 DEF SofarAll, Sofar
  <2>3. Total(SofarAll(t, e), NumRanks) = 0
    BY <2>2, TotalZero, Places
  <2> QED BY <1>2, <2>3
<1> QED BY <1>3, <1>4, <1>5 DEF DeliveryInv, HeardRight

\* Every step.
LEMMA DeliveryNext == FoldInv /\ DeliveryInv /\ PacketsLeaveRoom /\ [FoldNext]_allVars => DeliveryInv'
<1> SUFFICES ASSUME FoldInv, DeliveryInv, PacketsLeaveRoom, [FoldNext]_allVars PROVE DeliveryInv'
  OBVIOUS
<1>1. CASE UNCHANGED allVars
  <2>1. \A r \in Rank : Stays(r)
    BY <1>1 DEF allVars, alltoallVars, foldVars, Stays
  <2>2. \A r \in Rank : RankShape(r) /\ Accounted(r)
    BY DEF DeliveryInv
  <2>3. UNCHANGED <<heard, frontier>> /\ PutType
    BY <1>1 DEF allVars, foldVars, FoldInv
  <2> QED BY <2>1, <2>2, <2>3, StaysSame, SameHeard
<1>2. CASE \E r \in Rank : (\E h \in Thread : SendRow(r, h)) \/ FlushPackets(r)
  BY <1>2, SendRowDelivery, FlushPacketsDelivery
<1>3. CASE (Agree \/ \E r \in Rank : Count(r) \/ Fill(r)) /\ UNCHANGED foldVars
  BY <1>3, AgreeDelivery, CountDelivery, FillDelivery
<1>4. CASE ExchangeAndReceive
  BY <1>4, ExchangeDelivery
<1> QED BY <1>1, <1>2, <1>3, <1>4 DEF FoldNext

-----------------------------------------------------------------------------
\* The members of sets that have none in common.
Apart(A, n) ==
  /\ n \in Nat /\ \A k \in 1 .. n : IsFiniteSet(A[k])
  /\ \A j, k \in 1 .. n : j # k => \A x \in A[j] : x \notin A[k]
Members(A, n) == UNION {A[k] : k \in 1 .. n}
LEMMA MembersCounted ==
  ASSUME NEW A, NEW n, Apart(A, n), NEW f, \A k \in 1 .. n : f[k] = Cardinality(A[k])
  PROVE  IsFiniteSet(Members(A, n)) /\ Cardinality(Members(A, n)) = Total(f, n) /\ Numbers(f, n)
<1>1. /\ n \in Nat /\ \A k \in 1 .. n : IsFiniteSet(A[k])
      /\ \A j, k \in 1 .. n : j # k => \A x \in A[j] : x \notin A[k]
  BY DEF Apart
<1>2. \A k \in 1 .. n : f[k] \in Nat
  BY <1>1, FS_CardinalityType
<1>3. Numbers(f, n)
  BY <1>1, <1>2 DEF Numbers
<1> DEFINE S(k) == Totals(f, n)[k]
<1>4. S(0) = 0 /\ (\A k \in 1 .. n : S(k) = S(k - 1) + f[k]) /\ Total(f, n) = S(n)
  BY <1>3, TotalSteps
<1> HIDE DEF S
<1> DEFINE Good(k) == IsFiniteSet(Members(A, k)) /\ Cardinality(Members(A, k)) = S(k)
           T == {k \in 0 .. n : Good(k)}
<1>5. Good(0)
  <2>1. Members(A, 0) = {}
    BY DEF Members
  <2> QED BY <1>4, <2>1, FS_EmptySet
<1>6. ASSUME NEW k \in 1 .. n, Good(k - 1) PROVE Good(k)
  <2>1. 1 .. k = 1 .. k - 1 \cup {k} /\ \A j \in 1 .. k - 1 : j \in 1 .. n /\ j # k
    BY <1>1
  <2>2. Members(A, k) = Members(A, k - 1) \cup A[k]
    BY <2>1 DEF Members
  <2>3. \A x \in Members(A, k - 1) : x \notin A[k]
    BY <1>1, <2>1 DEF Members
  <2>4. IsFiniteSet(Members(A, k - 1)) /\ Cardinality(Members(A, k - 1)) = S(k - 1)
    BY <1>6
  <2>5. IsFiniteSet(A[k])
    BY <1>1
  <2>6. /\ IsFiniteSet(Members(A, k - 1) \cup A[k])
        /\ Cardinality(Members(A, k - 1) \cup A[k]) = Cardinality(Members(A, k - 1)) + Cardinality(A[k])
    BY <2>3, <2>4, <2>5, DisjointSum
  <2> QED BY <1>4, <2>2, <2>4, <2>6
<1> HIDE DEF Good
<1>7. 0 \in T /\ \A k \in 1 .. n : k - 1 \in T => k \in T
  BY <1>1, <1>5, <1>6
<1> HIDE DEF T
<1>8. \A k \in 0 .. n : k \in T
  BY <1>1, <1>7, UpTo
<1>9. Good(n)
  BY <1>1, <1>8 DEF T
<1> QED BY <1>3, <1>4, <1>9 DEF Good

-----------------------------------------------------------------------------
(* The edges of all rows *)

\* The edges of a row, of a rank, and of all ranks that rank t hears as e.
OfRow(r, i, t, e)  == {<<r, i, j>> : j \in {q \in 0 + 1 .. Len(frontier[r][i].tgts) : Aim(frontier[r][i])[q] = Wish(t, e)}}
OfRank(r, t, e)    == [i \in 1 .. Len(frontier[r]) |-> OfRow(r, i, t, e)]
InRank(r, t, e)    == Members(OfRank(r, t, e), Len(frontier[r]))
OfRanks(t, e)      == [k \in 1 .. NumRanks |-> InRank(k - 1, t, e)]
InRanks(t, e)      == Members(OfRanks(t, e), NumRanks)
TakenOf(t, e)      == [k \in 1 .. NumRanks |-> RowsTaken(frontier[k - 1], {}, t, e)]

LEMMA RowCounted ==
  ASSUME PutType, NEW r \in Rank, NEW i \in 1 .. Len(frontier[r]), NEW t, NEW e
  PROVE  /\ IsFiniteSet(OfRow(r, i, t, e))
         /\ Cardinality(OfRow(r, i, t, e)) = Within(Aim(frontier[r][i]), 0, Len(frontier[r][i].tgts), Wish(t, e))
<1> DEFINE n == Len(frontier[r][i].tgts)
           J == {q \in 0 + 1 .. n : Aim(frontier[r][i])[q] = Wish(t, e)}
           B == {<<r, i, j>> : j \in J}
           g == [j \in J |-> <<r, i, j>>]
<1>1. n \in Nat
  <2>1. frontier[r] \in Seq(Row)
    BY DEF PutType
  <2>2. frontier[r][i] \in Row
    BY <2>1
  <2> QED BY <2>2 DEF Row
<1>2. IsFiniteSet(J)
  <2>1. J \subseteq 0 + 1 .. n
    OBVIOUS
  <2>2. 0 + 1 \in Int /\ n \in Int
    BY <1>1
  <2>3. IsFiniteSet(0 + 1 .. n)
    BY <2>2, FS_Interval
  <2> HIDE DEF J
  <2> QED BY <2>1, <2>3, FS_Subset
<1>3. OfRow(r, i, t, e) = B /\ Within(Aim(frontier[r][i]), 0, n, Wish(t, e)) = Cardinality(J)
  BY DEF OfRow, Within
<1> HIDE DEF J, n
<1>4. g \in Injection(J, B)
  BY DEF Injection, IsInjective
<1>5. g \in Surjection(J, B)
  BY DEF Surjection
<1> HIDE DEF g, B
<1>6. ExistsBijection(J, B)
  BY <1>4, <1>5 DEF ExistsBijection, Bijection
<1>7. IsFiniteSet(B) /\ Cardinality(B) = Cardinality(J)
  BY <1>2, <1>6, FS_Bijection
<1> QED BY <1>3, <1>7 DEF n

LEMMA RankCounted ==
  ASSUME PutType, NEW r \in Rank, NEW t, NEW e
  PROVE  IsFiniteSet(InRank(r, t, e)) /\ Cardinality(InRank(r, t, e)) = RowsTaken(frontier[r], {}, t, e)
<1> DEFINE n == Len(frontier[r])
           A == OfRank(r, t, e)
           f == RowParts(frontier[r], {}, t, e)
<1>1. n \in Nat
  <2>1. frontier[r] \in Seq(Row)
    BY DEF PutType
  <2> QED BY <2>1
<1>2. \A i \in 1 .. n : A[i] = OfRow(r, i, t, e)
  BY DEF OfRank
<1>3. \A i \in 1 .. n : IsFiniteSet(A[i]) /\ f[i] = Cardinality(A[i])
  <2> TAKE i \in 1 .. n
  <2>1. f[i] = Within(Aim(frontier[r][i]), 0, Len(frontier[r][i].tgts), Wish(t, e))
    BY DEF RowParts
  <2>2. /\ IsFiniteSet(OfRow(r, i, t, e))
        /\ Cardinality(OfRow(r, i, t, e)) = Within(Aim(frontier[r][i]), 0, Len(frontier[r][i].tgts), Wish(t, e))
    <3>1. i \in 1 .. Len(frontier[r])
      OBVIOUS
    <3> HIDE DEF n, A, f
    <3> QED BY <3>1, RowCounted
  <2>3. A[i] = OfRow(r, i, t, e)
    BY <1>2
  <2> HIDE DEF A, f
  <2> QED BY <2>1, <2>2, <2>3
<1>4. \A i \in 1 .. n : \A x \in A[i] : x[2] = i
  BY <1>2 DEF OfRow
<1> HIDE DEF A, f, n
<1>5. Apart(A, n)
  BY <1>1, <1>3, <1>4 DEF Apart
<1>6. IsFiniteSet(Members(A, n)) /\ Cardinality(Members(A, n)) = Total(f, n)
  BY <1>3, <1>5, MembersCounted
<1> QED BY <1>6 DEF InRank, RowsTaken, A, f, n

LEMMA RanksCounted ==
  ASSUME PutType, NEW t, NEW e
  PROVE  Cardinality(InRanks(t, e)) = Total(TakenOf(t, e), NumRanks)
<1> DEFINE n == NumRanks
           A == OfRanks(t, e)
           f == TakenOf(t, e)
<1>1. n \in Nat /\ \A k \in 1 .. n : k - 1 \in Rank
  BY Places
<1>2. \A k \in 1 .. n : A[k] = InRank(k - 1, t, e) /\ f[k] = RowsTaken(frontier[k - 1], {}, t, e)
  BY DEF OfRanks, TakenOf
<1> HIDE DEF A, f, n
<1>3. \A k \in 1 .. n : IsFiniteSet(A[k]) /\ f[k] = Cardinality(A[k])
  BY <1>1, <1>2, RankCounted
<1>4. \A k \in 1 .. n : \A x \in A[k] : x[1] = k - 1
  <2> TAKE k \in 1 .. n
  <2> DEFINE r == k - 1
  <2>1. A[k] = InRank(r, t, e)
    BY <1>2
  <2> HIDE DEF r
  <2>2. \A x \in InRank(r, t, e) : \E i \in 1 .. Len(frontier[r]) : x \in OfRow(r, i, t, e)
    BY DEF InRank, Members, OfRank
  <2>3. \A i : \A x \in OfRow(r, i, t, e) : x[1] = r
    BY DEF OfRow
  <2> QED BY <2>1, <2>2, <2>3 DEF r
<1>5. \A j, k \in 1 .. n : j # k => \A x \in A[j] : x \notin A[k]
  <2> SUFFICES ASSUME NEW j \in 1 .. n, NEW k \in 1 .. n, NEW x \in A[j], x \in A[k] PROVE j = k
    OBVIOUS
  <2>1. j - 1 = k - 1
    BY <1>4
  <2> QED BY <1>1, <2>1
<1>6. Apart(A, n)
  BY <1>1, <1>3, <1>5 DEF Apart
<1>7. Cardinality(Members(A, n)) = Total(f, n)
  BY <1>3, <1>6, MembersCounted
<1> QED BY <1>7 DEF InRanks, A, f, n

\* These are the edges that the property counts.
LEMMA EdgesToCounted ==
  ASSUME PutType, NEW t \in Rank, NEW e \in Edge
  PROVE  EdgesTo(t, e) = InRanks(t, e)
<1> DEFINE Own(r, i) == {<<r, i, j>> : j \in {q \in DOMAIN frontier[r][i].tgts :
                                               /\ frontier[r][i].src = e[1]
                                               /\ frontier[r][i].tgts[q] = [dest |-> t, local |-> e[2]]}}
           Has(r, i, j) == Aim(frontier[r][i])[j] = Wish(t, e)
<1>1. ASSUME NEW r \in Rank PROVE DOMAIN frontier[r] = 1 .. Len(frontier[r]) /\ \A i \in DOMAIN frontier[r] : frontier[r][i] \in Row
  <2>1. frontier[r] \in Seq(Row)
    BY DEF PutType
  <2> QED BY <2>1
<1>2. ASSUME NEW r \in Rank, NEW i \in DOMAIN frontier[r] PROVE Own(r, i) = OfRow(r, i, t, e)
  <2> DEFINE row == frontier[r][i]
  <2>1. row.tgts \in Seq(Target)
    BY <1>1 DEF Row
  <2>2. DOMAIN row.tgts = 0 + 1 .. Len(row.tgts)
    BY <2>1
  <2>3. ASSUME NEW j \in DOMAIN row.tgts
        PROVE  Has(r, i, j) <=> row.src = e[1] /\ row.tgts[j] = [dest |-> t, local |-> e[2]]
    <3> DEFINE tgt == row.tgts[j]
    <3>1. tgt \in Target
      BY <2>1
    <3>2. Aim(row)[j] = <<tgt.dest, row.src, tgt.local>>
      BY DEF Aim
    <3> HIDE DEF tgt
    <3>3. tgt = [dest |-> t, local |-> e[2]] <=> tgt.dest = t /\ tgt.local = e[2]
      BY <3>1 DEF Target
    <3> HIDE DEF row
    <3> QED BY <3>2, <3>3 DEF Wish, tgt, row
  <2>4. {q \in DOMAIN row.tgts : row.src = e[1] /\ row.tgts[q] = [dest |-> t, local |-> e[2]]} =
          {q \in 0 + 1 .. Len(row.tgts) : Has(r, i, q)}
    <3> HIDE DEF row, Has
    <3> QED BY <2>2, <2>3
  <2> QED BY <2>4 DEF OfRow
<1>3. EdgesTo(t, e) = UNION {UNION {Own(r, i) : i \in DOMAIN frontier[r]} : r \in Rank}
  BY DEF EdgesTo
<1> HIDE DEF Own, Has
<1>4. \A r \in Rank : UNION {Own(r, i) : i \in DOMAIN frontier[r]} = InRank(r, t, e)
  <2> TAKE r \in Rank
  <2>1. \A i \in 1 .. Len(frontier[r]) : Own(r, i) = OfRow(r, i, t, e) /\ OfRank(r, t, e)[i] = OfRow(r, i, t, e)
    BY <1>1, <1>2 DEF OfRank
  <2> QED BY <1>1, <2>1 DEF InRank, Members
<1>5. \A k \in 1 .. NumRanks : k - 1 \in Rank /\ OfRanks(t, e)[k] = InRank(k - 1, t, e)
  BY Places DEF OfRanks
<1>6. \A r \in Rank : r + 1 \in 1 .. NumRanks /\ OfRanks(t, e)[r + 1] = InRank(r, t, e)
  <2> TAKE r \in Rank
  <2> DEFINE k == r + 1
  <2>1. k \in 1 .. NumRanks /\ k - 1 = r
    BY Places
  <2> HIDE DEF k
  <2>2. OfRanks(t, e)[k] = InRank(k - 1, t, e)
    BY <1>5, <2>1
  <2> QED BY <2>1, <2>2 DEF k
<1>7. \A x : (\E r \in Rank : x \in InRank(r, t, e)) <=> (\E k \in 1 .. NumRanks : x \in OfRanks(t, e)[k])
  BY <1>5, <1>6
<1>8. \A x : x \in EdgesTo(t, e) <=> \E r \in Rank : x \in InRank(r, t, e)
  BY <1>3, <1>4
<1>9. \A x : x \in InRanks(t, e) <=> \E k \in 1 .. NumRanks : x \in OfRanks(t, e)[k]
  BY DEF InRanks, Members
<1> QED BY <1>7, <1>8, <1>9

\* What is sent when a rank is done.
LEMMA SofarDone ==
  ASSUME FoldInv, DeliveryInv, NEW r \in Rank, pc[r] = "done", NEW t \in Rank, NEW e \in Edge
  PROVE  Sofar(r, t, e) = RowsTaken(frontier[r], {}, t, e)
<1> DEFINE ls == lists[r][t]
           lf == left[r][t]
           g  == Gain(stream[r][t], e)
<1>1. RankShape(r) /\ Accounted(r) /\ PutType
  BY DEF DeliveryInv, FoldInv
<1>2. loop[r] > 0 /\ loop[r] \in Nat /\ todo[r] = {} /\ Listing(ls, lengths[r][t], lf)
  BY <1>1 DEF RankShape
<1>3. ls \in Seq(ListType) /\ lf \in Seq(Nat)
  BY <1>1 DEF PutType, FoldInv, RoundType
<1>4. \A b \in DOMAIN lf : lf[b] = 0
  BY DEF FoldInv, EndTogether
<1>5. g \in Int
  BY <1>1, SofarTyped
<1>6. Sofar(r, t, e) = g + Done(ls, lf, e) - 0
  BY <1>2 DEF Sofar, Streamed, OnTheWay
<1>7. g + 0 + Listed(ls, e) = RowsTaken(frontier[r], {}, t, e)
  BY <1>1, <1>2 DEF Accounted, InPackets
<1> HIDE DEF ls, lf, g
<1>8. Listed(ls, e) \in Int
  BY <1>3, ListedTyped
<1>9. Done(ls, lf, e) = Listed(ls, e)
  <2>1. Len(lf) = Len(ls)
    BY <1>2 DEF Listing
  <2>2. \A b \in 1 .. Len(ls) : Len(ls[b].tgts) - lf[b] = Len(ls[b].tgts)
    <3> TAKE b \in 1 .. Len(ls)
    <3>1. ls[b] \in ListType /\ lf[b] = 0
      BY <1>3, <1>4, <2>1
    <3>2. Len(ls[b].tgts) \in Nat
      BY <3>1 DEF ListType
    <3> QED BY <3>1, <3>2
  <2>3. DoneParts(ls, lf, e) = Whole(ls, e)
    BY <2>2 DEF DoneParts, Whole
  <2> QED BY <2>3 DEF Done, Listed
<1> QED BY <1>5, <1>6, <1>7, <1>8, <1>9

LEMMA AllDelivered == FoldInv /\ DeliveryInv => EdgesDelivered
<1> SUFFICES ASSUME FoldInv, DeliveryInv, \A r \in Rank : pc[r] = "done",
                    NEW t \in Rank, NEW e \in DOMAIN heard[t]
             PROVE  heard[t][e] = Cardinality(EdgesTo(t, e))
  BY DEF EdgesDelivered
<1>1. PutType /\ e \in Sources \X Locals /\ e \in Edge
  <2>1. PutType /\ HeardType
    BY DEF FoldInv, DeliveryInv
  <2>2. e \in Sources \X Locals
    BY <2>1 DEF HeardType
  <2> QED BY <2>1, <2>2, EdgesTyped
<1>2. heard[t][e] = Total(SofarAll(t, e), NumRanks)
  BY <1>1 DEF DeliveryInv, HeardRight
<1>3. SofarAll(t, e) = TakenOf(t, e)
  <2>1. \A k \in 1 .. NumRanks : k - 1 \in Rank
    BY Places
  <2>2. \A k \in 1 .. NumRanks : Sofar(k - 1, t, e) = RowsTaken(frontier[k - 1], {}, t, e)
    BY <1>1, <2>1, SofarDone
  <2> QED BY <2>2 DEF SofarAll, TakenOf
<1> QED BY <1>1, <1>2, <1>3, EdgesToCounted, RanksCounted

\* The inductive invariant of what is on its way.
THEOREM DeliveryInvariance == FoldSpec /\ []PacketsLeaveRoom => []DeliveryInv
<1>1. FoldInit => DeliveryInv
  BY DeliveryInit
<1>2. FoldInv /\ DeliveryInv /\ PacketsLeaveRoom /\ [FoldNext]_allVars => DeliveryInv'
  BY DeliveryNext
<1> QED BY FoldInvariance, <1>1, <1>2, PTL DEF FoldSpec

\* When the fold ends, every vertex has heard of every source that a row joins
\* it to, from each row once, and of nothing else, wherever rows were split,
\* packets were full and lists were cut; as long as packets leave room for the
\* header of a list that follows them.
THEOREM EdgesAreDelivered == FoldSpec /\ []PacketsLeaveRoom => []EdgesDelivered
<1>1. FoldInv /\ DeliveryInv => EdgesDelivered
  BY AllDelivered
<1> QED BY FoldInvariance, DeliveryInvariance, <1>1, PTL

-----------------------------------------------------------------------------
(* The lists of frontier vertices *)

USE LevelAssumption, DirectionAssumption

\* Products of natural numbers grow with their factors.
LEMMA TimesMonotonic ==
  ASSUME NEW a \in Nat, NEW b \in Nat, NEW k \in Nat, a <= b
  PROVE  a * k <= b * k
  <1>1. b * k = a * k + (b - a) * k
    OBVIOUS
  <1>2. (b - a) * k >= 0
    OBVIOUS
  <1> QED BY <1>1, <1>2

\* A positive factor can be cancelled.
LEMMA TimesCancel ==
  ASSUME NEW a \in Nat, NEW b \in Nat, NEW k \in Nat \ {0}, a * k <= b * k
  PROVE  a <= b
  <1> SUFFICES ASSUME a > b PROVE FALSE
    OBVIOUS
  <1>1. a * k = b * k + (a - b) * k
    OBVIOUS
  <1>2. (a - b) * k >= 1 * k
    BY TimesMonotonic
  <1> QED BY <1>1, <1>2

\* A frontier below the alpha of the policy fits the list buffer of one rank,
\* all of it: alpha is large enough for the number of ranks.
LEMMA SmallFrontierFits ==
  ASSUME FewRanks, NEW n \in Nat, n * Alpha <= GlobalVerts
  PROVE  n <= ListCapacity
  <1>1. n * (64 * Ranks) <= n * Alpha
    BY TimesMonotonic DEF FewRanks
  <1>2. n * (64 * Ranks) <= LocalVerts * Ranks
    <2>1. n * (64 * Ranks) \in Nat /\ n * Alpha \in Nat /\ LocalVerts * Ranks \in Nat
      OBVIOUS
    <2>2. Ranks * LocalVerts = LocalVerts * Ranks
      OBVIOUS
    <2> QED BY <1>1, <2>1, <2>2
  <1>3. n * (64 * Ranks) = (64 * n) * Ranks
    OBVIOUS
  <1>4. 64 * n <= LocalVerts
    BY <1>2, <1>3, TimesCancel
  <1> QED BY <1>4 DEF ListCapacity

\* What the policy decides, by cases on the direction of the level.
LEMMA Decision ==
  ASSUME NEW d \in DirType, NEW n \in Nat, NEW prev \in Nat, NEW vis \in Nat,
         NEW sizes
  PROVE  LET next == NextDirection(d, n, prev, vis, GlobalVerts, sizes) IN
         /\ next \in DirType
         /\ ~ next.bitmap => next.forward
         /\ next.growing => d.growing
         /\ next.growing /\ next.forward =>
              d.forward /\ (n > prev => n * Alpha <= GlobalVerts)
         /\ d.growing /\ ~ next.growing =>
              /\ ~ d.forward /\ next.forward
              /\ GlobalVerts - vis < GlobalVerts \div Beta
         /\ d.forward /\ ~ d.growing => next.forward /\ ~ next.growing
         /\ ~ d.forward /\ next.forward /\ ~ next.bitmap =>
              \A part \in DOMAIN sizes : ~ sizes[part] >= ListThreshold
  <1> DEFINE next == NextDirection(d, n, prev, vis, GlobalVerts, sizes)
             toTop == ToTopDown(d, n, prev, GlobalVerts - vis, GlobalVerts)
             toBottom == ToBottomUp(d, n, prev, GlobalVerts)
             above == SomeRankAboveThreshold(sizes)
  <1>1. /\ toTop \in BOOLEAN /\ toBottom \in BOOLEAN /\ above \in BOOLEAN
        /\ d.forward \in BOOLEAN /\ d.growing \in BOOLEAN
    BY DEF ToTopDown, ToBottomUp, SomeRankAboveThreshold, StillGrowing, DirType
  <1>2. /\ next.forward = (toTop \/ (d.forward /\ ~ toBottom))
        /\ next.bitmap = (~ next.forward \/ (toTop /\ above))
        /\ next.growing = (d.growing /\ ~ toTop)
        /\ next = [forward |-> next.forward, bitmap |-> next.bitmap,
                   growing |-> next.growing]
    BY DEF NextDirection
  <1>3. toTop => ~ d.forward /\ GlobalVerts - vis < GlobalVerts \div Beta
    BY DEF ToTopDown
  <1>4. /\ toBottom => d.forward /\ d.growing
        /\ d.forward /\ d.growing /\ ~ toBottom => (n > prev => n * Alpha <= GlobalVerts)
    <2>1. n * Alpha \in Nat
      OBVIOUS
    <2> QED BY <2>1 DEF ToBottomUp, StillGrowing
  <1>5. ~ above => \A part \in DOMAIN sizes : ~ sizes[part] >= ListThreshold
    BY DEF SomeRankAboveThreshold
  <1> HIDE DEF next, toTop, toBottom, above
  <1>6. next.forward \in BOOLEAN /\ next.bitmap \in BOOLEAN /\ next.growing \in BOOLEAN
    BY <1>1, <1>2
  <1>7. next \in DirType
    BY <1>2, <1>6 DEF DirType
  <1> QED BY <1>1, <1>2, <1>3, <1>4, <1>5, <1>7 DEF next

LEMMA InitIInv == Init => IInv
  <1>1. GlobalVerts \div Beta \in Nat /\ ListCapacity \in Nat
    BY DEF ListCapacity
  <1> SUFFICES ASSUME Init PROVE IInv
    OBVIOUS
  <1>2. dir.growing /\ dir.forward /\ dir \in DirType
    BY DEF Init, FirstDirection, DirType
  <1>3. running \in BOOLEAN /\ switched \in BOOLEAN
    BY Zenon DEF Init
  <1>4. gnq = 0 /\ visited = 1 /\ list = 0 /\ level = 0
    BY DEF Init
  <1>5. TypeOK
    BY <1>2, <1>3, <1>4 DEF TypeOK
  <1>6. FrontierBelowAlpha /\ RestBelowBeta /\ VisitedInGraph
    BY <1>2, <1>4 DEF FrontierBelowAlpha, RestBelowBeta, VisitedInGraph
  <1>7. GrowingListFits /\ SwitchListFits /\ TailListBound
    BY <1>1, <1>2, <1>4 DEF GrowingListFits, SwitchListFits, TailListBound
  <1> QED BY <1>5, <1>6, <1>7 DEF IInv

LEMMA LevelIInv ==
  ASSUME FewRanks, ThresholdFits, IInv,
         NEW here \in Sizes, NEW row \in Sizes, NEW rest \in Sizes,
         NEW others \in Sizes, Level(here, row, rest, others)
  PROVE  IInv'
  <1> DEFINE n == here + row + rest
             sizes == NqSizes(here, row, others)
             next == NextDirection(dir, n, gnq, visited + n, GlobalVerts, sizes)
  <1>1. /\ here \in Nat /\ row \in Nat /\ rest \in Nat /\ others \in Nat
        /\ n \in Nat /\ here <= n /\ ListCapacity \in Nat
        /\ GlobalVerts \div Beta \in Nat
    BY DEF ListCapacity
  <1>2. /\ dir \in DirType /\ gnq \in Nat /\ visited \in Nat /\ list \in Nat
        /\ running \in BOOLEAN /\ switched \in BOOLEAN /\ level \in Nat
    BY DEF IInv, TypeOK
  <1>3. /\ gnq' = n /\ visited' = visited + n /\ level' = level + 1
        /\ visited + n <= GlobalVerts
    BY DEF Level
  <1>4. gnq * Alpha \in Nat /\ n * Alpha \in Nat
    BY <1>1, <1>2
  <1>5. CASE n = 0
    <2>1. running' = FALSE /\ UNCHANGED <<dir, list, switched>>
      BY <1>5 DEF Level
    <2> HIDE DEF n, sizes, next
    <2>2. gnq' * Alpha = 0
      BY <1>3, <1>5
    <2>3. visited' = visited
      BY <1>2, <1>3, <1>5
    <2>4. TypeOK'
      <3>1. running' \in BOOLEAN /\ switched' \in BOOLEAN
        BY <1>2, <2>1, Zenon
      <3>2. level' \in Nat /\ gnq' \in Nat /\ visited' \in Nat
        BY <1>1, <1>2, <1>3
      <3>3. dir' \in DirType /\ list' \in Nat
        BY <1>2, <2>1
      <3> QED BY <3>1, <3>2, <3>3 DEF TypeOK
    <2>5. FrontierBelowAlpha'
      BY <2>1, <2>2 DEF FrontierBelowAlpha
    <2>6. RestBelowBeta' /\ VisitedInGraph'
      BY <2>1, <2>3 DEF IInv, RestBelowBeta, VisitedInGraph
    <2>7. GrowingListFits' /\ SwitchListFits' /\ TailListBound'
      BY <2>1 DEF IInv, GrowingListFits, SwitchListFits, TailListBound
    <2> QED BY <2>4, <2>5, <2>6, <2>7 DEF IInv
  <1>6. CASE n # 0
    <2> HIDE DEF n, sizes, next
    <2>1. /\ dir' = next
          /\ list' = IF next.bitmap THEN 0 ELSE here
          /\ switched' = (dir.forward # next.forward)
          /\ running' = running
      BY <1>6 DEF Level, ListLength, n, sizes, next
    <2>2. /\ next \in DirType
          /\ ~ next.bitmap => next.forward
          /\ next.growing => dir.growing
          /\ next.growing /\ next.forward =>
               dir.forward /\ (n > gnq => n * Alpha <= GlobalVerts)
          /\ dir.growing /\ ~ next.growing =>
               /\ ~ dir.forward /\ next.forward
               /\ GlobalVerts - (visited + n) < GlobalVerts \div Beta
          /\ dir.forward /\ ~ dir.growing => next.forward /\ ~ next.growing
          /\ ~ dir.forward /\ next.forward /\ ~ next.bitmap =>
               \A part \in DOMAIN sizes : ~ sizes[part] >= ListThreshold
      BY <1>1, <1>2, Decision DEF next
    <2>3. TypeOK'
      BY <1>1, <1>2, <1>3, <2>1, <2>2 DEF TypeOK
    <2>4. next.growing /\ next.forward => n * Alpha <= GlobalVerts
      <3>1. CASE n > gnq
        BY <2>2, <3>1
      <3>2. CASE n <= gnq
        <4>1. n * Alpha <= gnq * Alpha
          BY <1>1, <1>2, <3>2, TimesMonotonic
        <4>2. next.growing /\ next.forward => gnq * Alpha <= GlobalVerts
          BY <2>2 DEF IInv, FrontierBelowAlpha
        <4> QED BY <4>1, <4>2, <1>4
      <3> QED BY <3>1, <3>2, <1>1, <1>2
    <2>5. FrontierBelowAlpha'
      BY <1>3, <2>1, <2>4 DEF FrontierBelowAlpha
    <2>6. RestBelowBeta' /\ VisitedInGraph'
      <3>1. CASE dir.growing
        BY <1>1, <1>2, <1>3, <2>1, <2>2, <3>1 DEF RestBelowBeta, VisitedInGraph
      <3>2. CASE ~ dir.growing
        BY <1>1, <1>2, <1>3, <2>1, <2>2, <3>2
           DEF IInv, RestBelowBeta, VisitedInGraph
      <3> QED BY <3>1, <3>2
    <2>7. GrowingListFits'
      <3>1. CASE next.bitmap
        BY <1>1, <2>1, <3>1 DEF GrowingListFits, ListCapacity
      <3>2. CASE ~ next.bitmap /\ next.growing
        <4>1. n <= ListCapacity
          BY <1>1, <2>2, <2>4, <3>2, SmallFrontierFits
        <4> QED BY <1>1, <2>1, <3>2, <4>1 DEF GrowingListFits, ListCapacity
      <3>3. CASE ~ next.growing
        BY <2>1, <3>3 DEF GrowingListFits
      <3> QED BY <3>1, <3>2, <3>3
    <2>8. SwitchListFits'
      <3>1. CASE next.bitmap
        BY <1>1, <2>1, <3>1 DEF SwitchListFits, ListCapacity
      <3>2. CASE ~ next.bitmap /\ ~ dir.forward
        <4>1. DOMAIN sizes = 1 .. 2 /\ sizes[1] = here + row
          BY DEF sizes, NqSizes
        <4>2. ~ sizes[1] >= ListThreshold
          BY <2>2, <3>2, <4>1
        <4> QED
          BY <1>1, <2>1, <3>2, <4>1, <4>2
             DEF SwitchListFits, ThresholdFits, ListCapacity
      <3>3. CASE ~ next.bitmap /\ dir.forward
        BY <2>1, <2>2, <3>3 DEF SwitchListFits, DirType
      <3> QED BY <3>1, <3>2, <3>3
    <2>9. TailListBound'
      <3>1. CASE dir.growing
        BY <2>1, <2>2, <3>1 DEF TailListBound
      <3>2. CASE ~ dir.growing
        <4>1. n < GlobalVerts \div Beta
          BY <1>1, <1>2, <1>3, <3>2 DEF IInv, RestBelowBeta
        <4>2. 0 < GlobalVerts \div Beta
          BY <1>1, <4>1
        <4> QED BY <1>1, <2>1, <4>1, <4>2 DEF TailListBound
      <3> QED BY <3>1, <3>2
    <2> QED BY <2>3, <2>5, <2>6, <2>7, <2>8, <2>9 DEF IInv
  <1> QED BY <1>5, <1>6

LEMMA NextIInv == FewRanks /\ ThresholdFits => (IInv /\ [Next]_vars => IInv')
  <1> SUFFICES ASSUME FewRanks, ThresholdFits, IInv, [Next]_vars PROVE IInv'
    OBVIOUS
  <1>1. CASE UNCHANGED vars
    BY <1>1 DEF vars, IInv, TypeOK, FrontierBelowAlpha, RestBelowBeta,
         VisitedInGraph, GrowingListFits, SwitchListFits, TailListBound
  <1>2. CASE Next
    BY <1>2, LevelIInv DEF Next
  <1> QED BY <1>1, <1>2

\* Every list a rank writes is as long as the assertions of the code say it
\* is, up to and including the one at the end of the bottom-up phase.
THEOREM ListsFitUntilSwitch ==
  ASSUME FewRanks, ThresholdFits
  PROVE  Spec => []EarlyListFits
  <1>1. IInv => EarlyListFits
    BY DEF IInv, EarlyListFits
  <1>2. IInv /\ [Next]_vars => IInv'
    BY NextIInv
  <1> QED BY <1>1, <1>2, InitIInv, PTL DEF Spec

\* After the bottom-up phase a list is only known to be shorter than 1 / Beta
\* of the whole graph, many times the capacity of a list buffer.
THEOREM TailListBounded ==
  ASSUME FewRanks, ThresholdFits
  PROVE  Spec => []TailListBound
  <1>1. IInv => TailListBound
    BY DEF IInv
  <1>2. IInv /\ [Next]_vars => IInv'
    BY NextIInv
  <1> QED BY <1>1, <1>2, InitIInv, PTL DEF Spec
=============================================================================
