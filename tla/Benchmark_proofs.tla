-------------------------- MODULE Benchmark_proofs --------------------------
(***************************************************************************)
(* The benchmark: the construction of the graph from every edge list on    *)
(* every grid of ranks whose local numbers have room (RanksFit), and the   *)
(* driver that searches it, for every number of roots, every sequence of   *)
(* random numbers, and however often it is killed and started again.       *)
(***************************************************************************)
EXTENDS BenchmarkDriver, Construct, FiniteSetTheorems, WellFoundedInduction, TLAPS

-----------------------------------------------------------------------------
(* Numbers, recursions and powers of two *)

\* A set of numbers has a least one.
LEMMA LeastNatural ==
  ASSUME NEW T \in SUBSET Nat, T # {}
  PROVE  \E x \in T : \A y \in T : x <= y
<1> DEFINE Less == {ss \in Nat \X Nat : ss[1] < ss[2]}
<1>1. IsWellFoundedOn(Less, Nat)
  BY NatLessThanWellFounded, Zenon DEF OpToRel
<1>2. PICK x \in T : \A y \in T : ~ (<<y, x>> \in Less)
  <2> HIDE DEF Less
  <2> QED BY <1>1, WFMin
<1>3. ASSUME NEW y \in T PROVE x <= y
  <2>1. x \in Nat /\ y \in Nat OBVIOUS
  <2>2. <<y, x>> \in Nat \X Nat BY <2>1
  <2>3. ~ (y < x) BY <1>2, <2>2
  <2> QED BY <2>1, <2>3
<1> QED BY <1>3


\* What holds of 0 and passes from each number to the next.
LEMMA UpTo ==
  ASSUME NEW n \in Nat, NEW T, 0 \in T, \A k \in 1 .. n : k - 1 \in T => k \in T
  PROVE  \A k \in 0 .. n : k \in T
<1> SUFFICES ASSUME NEW z \in 0 .. n, z \notin T PROVE FALSE
  OBVIOUS
<1> DEFINE U == {k \in 0 .. n : k \notin T}
<1>1. PICK m \in U : \A j \in U : m <= j
  <2>1. U \in SUBSET Nat /\ U # {}
    OBVIOUS
  <2> HIDE DEF U
  <2> QED BY <2>1, LeastNatural
<1>2. m \in 0 .. n /\ m \notin T /\ m # 0
  OBVIOUS
<1>3. m \in 1 .. n /\ m - 1 \in 0 .. n /\ ~ (m <= m - 1)
  BY <1>2
<1>4. m - 1 \in T
  BY <1>1, <1>3
<1> QED BY <1>2, <1>3, <1>4

\* A recursion over an interval has a solution.
Stepwise(A, n, base, F) == n \in Nat /\ base \in A /\ F \in [1 .. n -> [A -> A]]
LEMMA Recursion ==
  ASSUME NEW A, NEW n, NEW base, NEW F, Stepwise(A, n, base, F)
  PROVE  \E g \in [0 .. n -> A] : g[0] = base /\ \A k \in 1 .. n : g[k] = F[k][g[k - 1]]
<1> USE DEF Stepwise
<1> DEFINE Solves(g, m) == /\ g \in [0 .. m -> A] /\ g[0] = base
                           /\ \A k \in 1 .. m : g[k] = F[k][g[k - 1]]
           T == {m \in 0 .. n : \E g \in [0 .. m -> A] : Solves(g, m)}
<1>1. 0 \in T
  <2> DEFINE g == [k \in 0 .. 0 |-> base]
  <2>1. Solves(g, 0) /\ g \in [0 .. 0 -> A]
    OBVIOUS
  <2> HIDE DEF g, Solves
  <2> QED BY <2>1
<1>2. ASSUME NEW m \in 1 .. n, m - 1 \in T PROVE m \in T
  <2>1. m - 1 \in 0 .. n /\ m - 1 \in Nat /\ m \in Nat /\ m # 0
    OBVIOUS
  <2>2. PICK g \in [0 .. m - 1 -> A] : Solves(g, m - 1)
    BY <1>2
  <2> DEFINE h == [k \in 0 .. m |-> IF k = m THEN F[m][g[m - 1]] ELSE g[k]]
  <2>3. g[m - 1] \in A /\ F[m][g[m - 1]] \in A
    BY <2>1
  <2>4. h \in [0 .. m -> A]
    BY <2>1, <2>3
  <2>5. h[0] = base
    BY <2>1, <2>2
  <2>6. ASSUME NEW k \in 1 .. m PROVE h[k] = F[k][h[k - 1]]
    <3>1. h[k - 1] = g[k - 1]
      BY <2>1
    <3>2. CASE k = m
      <4>1. h[m] = F[m][g[m - 1]]
        BY <2>1
      <4> HIDE DEF h
      <4> QED BY <3>1, <3>2, <4>1
    <3>3. CASE k # m
      <4>1. k \in 1 .. m - 1 /\ h[k] = g[k]
        BY <2>1, <3>3
      <4> HIDE DEF h
      <4> QED BY <2>2, <3>1, <4>1
    <3> QED BY <3>2, <3>3
  <2>7. Solves(h, m)
    <3> HIDE DEF h
    <3> QED BY <2>4, <2>5, <2>6
  <2> HIDE DEF h, Solves
  <2> QED BY <2>1, <2>4, <2>7
<1>3. n \in T
  <2> HIDE DEF T
  <2>1. \A k \in 0 .. n : k \in T
    BY <1>1, <1>2, UpTo
  <2> QED BY <2>1
<1> QED BY <1>3


LEMMA DivisionMod ==
  ASSUME NEW a \in Nat, NEW c \in Nat, c > 0
  PROVE  /\ a \div c \in Nat
         /\ a = (c * (a \div c)) + (a % c)
         /\ a % c \in 0 .. c - 1
OBVIOUS

\* A quotient and a remainder are those of the number they make up.
LEMMA DivisionUnique ==
  ASSUME NEW q \in Nat, NEW c \in Nat, NEW m \in 0 .. c - 1
  PROVE  /\ c * q + m \in Nat
         /\ (c * q + m) \div c = q
         /\ (c * q + m) % c = m
<1> DEFINE a == c * q + m
           p == a \div c
           k == a % c
<1>1. c > 0 /\ a \in Nat /\ c * q \in Nat
  OBVIOUS
<1>2. p \in Nat /\ k \in 0 .. c - 1 /\ a = c * p + k
  BY <1>1, DivisionMod
<1>3. c * q + m = c * p + k
  BY <1>2
<1> HIDE DEF a, p, k
<1>4. ~ (q < p)
  <2> SUFFICES ASSUME q < p PROVE FALSE
    OBVIOUS
  <2>1. PICK t \in Nat : p = q + 1 + t
    <3>1. p - q - 1 \in Nat /\ p = q + 1 + (p - q - 1)
      BY <1>2
    <3> QED BY <3>1
  <2>2. c * p = c * q + c + c * t /\ c * t \in Nat /\ c * q \in Nat
    BY <2>1
  <2> QED BY <1>2, <1>3, <2>2
<1>5. ~ (p < q)
  <2> SUFFICES ASSUME p < q PROVE FALSE
    OBVIOUS
  <2>1. PICK t \in Nat : q = p + 1 + t
    <3>1. q - p - 1 \in Nat /\ q = p + 1 + (q - p - 1)
      BY <1>2
    <3> QED BY <3>1
  <2>2. c * q = c * p + c + c * t /\ c * t \in Nat /\ c * p \in Nat
    BY <1>2, <2>1
  <2> QED BY <1>2, <1>3, <2>2
<1>6. p = q
  BY <1>2, <1>4, <1>5
<1>7. k = m
  BY <1>2, <1>3, <1>6
<1> QED BY <1>1, <1>6, <1>7 DEF a, p, k

\* Offsets adds the lengths up.
LEMMA OffsetSteps ==
  ASSUME NEW n \in Nat, NEW len \in [0 .. n - 1 -> Nat]
  PROVE  /\ Offsets(len, n) \in [0 .. n -> Nat]
         /\ Offsets(len, n)[0] = 0
         /\ \A k \in 0 .. n - 1 : Offsets(len, n)[k + 1] = Offsets(len, n)[k] + len[k]
<1> DEFINE Op(a, k) == a + len[k - 1]
           F == [k \in 1 .. n |-> [a \in Nat |-> Op(a, k)]]
           Eq(off) == off = [ix \in 0 .. n |-> IF ix = 0 THEN 0 ELSE off[ix - 1] + len[ix - 1]]
           h == CHOOSE off : Eq(off)
<1>1. \A k \in 1 .. n : k - 1 \in 0 .. n - 1 /\ len[k - 1] \in Nat
  OBVIOUS
<1>2. \A a \in Nat, k \in 1 .. n : Op(a, k) \in Nat
  BY <1>1
<1>3. Offsets(len, n) = h
  BY DEF Offsets
<1>4. F \in [1 .. n -> [Nat -> Nat]] /\ \A k \in 1 .. n, a \in Nat : F[k][a] = Op(a, k)
  BY <1>2
<1> HIDE DEF F, Eq, h
<1>5. PICK g \in [0 .. n -> Nat] : g[0] = 0 /\ \A k \in 1 .. n : g[k] = F[k][g[k - 1]]
  <2>1. Stepwise(Nat, n, 0, F)
    BY <1>4 DEF Stepwise
  <2> QED BY <2>1, Recursion
<1>6. \A k \in 1 .. n : g[k - 1] \in Nat /\ g[k] = Op(g[k - 1], k)
  <2> TAKE k \in 1 .. n
  <2>1. g[k - 1] \in Nat
    OBVIOUS
  <2> QED BY <1>4, <1>5, <2>1
<1>7. Eq(g)
  <2>1. \A ix \in 0 .. n : g[ix] = IF ix = 0 THEN 0 ELSE g[ix - 1] + len[ix - 1]
    <3> TAKE ix \in 0 .. n
    <3>1. ix = 0 \/ ix \in 1 .. n
      OBVIOUS
    <3> QED BY <1>5, <1>6, <3>1
  <2> QED BY <2>1 DEF Eq
<1>8. Eq(h)
  BY <1>7 DEF h
<1>9. h[0] = 0 /\ \A k \in 1 .. n : h[k] = h[k - 1] + len[k - 1]
  BY <1>8 DEF Eq
<1>10. h \in [0 .. n -> Nat]
  <2> DEFINE T == {k \in 0 .. n : h[k] \in Nat}
  <2>1. 0 \in T /\ \A k \in 1 .. n : k - 1 \in T => k \in T
    BY <1>1, <1>9
  <2> HIDE DEF T
  <2>2. \A k \in 0 .. n : k \in T
    BY <2>1, UpTo
  <2>3. \A k \in 0 .. n : h[k] \in Nat
    BY <2>2 DEF T
  <2>4. h = [b \in 0 .. n |-> h[b]]
    BY <1>8 DEF Eq
  <2> QED BY <2>3, <2>4
<1>11. \A k \in 0 .. n - 1 : h[k + 1] = h[k] + len[k]
  <2> TAKE k \in 0 .. n - 1
  <2>1. k + 1 \in 1 .. n /\ (k + 1) - 1 = k
    OBVIOUS
  <2> QED BY <1>9, <2>1
<1> QED BY <1>3, <1>9, <1>10, <1>11

\* Offsets do not decrease.
LEMMA OffsetsGrow ==
  ASSUME NEW n \in Nat, NEW len \in [0 .. n - 1 -> Nat], NEW ix \in 0 .. n, NEW j \in 0 .. n, ix <= j
  PROVE  Offsets(len, n)[ix] <= Offsets(len, n)[j]
<1> DEFINE w == Offsets(len, n)
           T == {k \in 0 .. n : ix <= k => w[ix] <= w[k]}
<1>1. /\ w \in [0 .. n -> Nat]
      /\ \A k \in 0 .. n - 1 : w[k + 1] = w[k] + len[k]
  BY OffsetSteps
<1> HIDE DEF w
<1>2. 0 \in T
  BY <1>1
<1>3. ASSUME NEW k \in 1 .. n, k - 1 \in T PROVE k \in T
  <2>1. k - 1 \in 0 .. n - 1 /\ (k - 1) + 1 = k /\ k \in 0 .. n /\ k - 1 \in 0 .. n
    OBVIOUS
  <2>2. w[k] = w[k - 1] + len[k - 1] /\ len[k - 1] \in Nat /\ w[k] \in Nat /\ w[k - 1] \in Nat /\ w[ix] \in Nat
    BY <1>1, <2>1
  <2>3. ix <= k => w[ix] <= w[k]
    <3>1. CASE ix = k
      BY <2>2, <3>1
    <3>2. CASE ix # k
      BY <1>3, <2>1, <2>2, <3>2
    <3> QED BY <3>1, <3>2
  <2> QED BY <2>1, <2>3
<1>4. \A k \in 0 .. n : k \in T
  <2> HIDE DEF T
  <2> QED BY <1>2, <1>3, UpTo
<1>5. j \in T
  BY <1>4
<1> QED BY <1>5 DEF w

\* A number behind the first offset and before the last is in one area.
LEMMA AreaOf ==
  ASSUME NEW n \in Nat, NEW w \in [0 .. n -> Nat], w[0] = 0, NEW p \in Nat, p < w[n]
  PROVE  \E h \in 0 .. n - 1 : w[h] <= p /\ p < w[h + 1]
<1> DEFINE T == {k \in 0 .. n : p < w[k]}
<1>1. T \in SUBSET Nat /\ T # {}
  OBVIOUS
<1>2. PICK m \in T : \A y \in T : m <= y
  <2> HIDE DEF T
  <2> QED BY <1>1, LeastNatural
<1>3. m # 0 /\ m \in 0 .. n /\ p < w[m]
  OBVIOUS
<1>4. m - 1 \in 0 .. n /\ m - 1 \in 0 .. n - 1 /\ ~ (m <= m - 1) /\ (m - 1) + 1 = m
  BY <1>3
<1>5. ~ (p < w[m - 1]) /\ w[m - 1] \in Nat
  BY <1>2, <1>4
<1>6. w[m - 1] <= p /\ p < w[(m - 1) + 1]
  BY <1>3, <1>4, <1>5
<1> QED BY <1>4, <1>6

\* Powers of two.
Positive == Nat \ {0}
LEMMA Doublings ==
  ASSUME NEW n \in Nat
  PROVE  \E g \in [0 .. n -> Nat \ {0}] : g[0] = 1 /\ \A k \in 1 .. n : g[k] = 2 * g[k - 1]
<1> DEFINE F == [k \in 1 .. n |-> [a \in Positive |-> 2 * a]]
           base == 1
<1>1. \A a \in Positive : 2 * a \in Positive
  BY DEF Positive
<1>2. F \in [1 .. n -> [Positive -> Positive]] /\ \A k \in 1 .. n, a \in Positive : F[k][a] = 2 * a
  BY <1>1
<1>3. base \in Positive /\ base = 1
  BY DEF Positive
<1> HIDE DEF F, base
<1> DEFINE m == n
<1>4. Stepwise(Positive, m, base, F)
  BY <1>2, <1>3 DEF Stepwise
<1>5. PICK g \in [0 .. m -> Positive] : g[0] = base /\ \A k \in 1 .. m : g[k] = F[k][g[k - 1]]
  <2> HIDE DEF m
  <2> QED BY <1>4, Recursion
<1>6. \A k \in 1 .. n : g[k] = 2 * g[k - 1]
  <2> TAKE k \in 1 .. n
  <2>1. k - 1 \in 0 .. n
    OBVIOUS
  <2>2. g[k - 1] \in Positive
    BY <2>1
  <2> QED BY <1>2, <1>5, <2>2
<1> QED BY <1>3, <1>5, <1>6 DEF Positive

LEMMA PowerSteps ==
  /\ Power \in [Nat -> Nat \ {0}]
  /\ Power[0] = 1
  /\ \A b \in Nat : Power[b + 1] = 2 * Power[b]
<1> DEFINE A == Nat \ {0}
           Eq(f) == f = [b \in Nat |-> IF b = 0 THEN 1 ELSE 2 * f[b - 1]]
           Up(g, n) == g \in [0 .. n -> A] /\ g[0] = 1 /\ \A k \in 1 .. n : g[k] = 2 * g[k - 1]
           G(n) == CHOOSE g : Up(g, n)
           f0 == [n \in Nat |-> G(n)[n]]
<1>1. ASSUME NEW n \in Nat PROVE Up(G(n), n)
  <2>1. PICK g \in [0 .. n -> A] : g[0] = 1 /\ \A k \in 1 .. n : g[k] = 2 * g[k - 1]
    BY Doublings
  <2>7. Up(g, n)
    BY <2>1
  <2> HIDE DEF Up
  <2> QED BY <2>7
<1>2. ASSUME NEW n \in Nat, NEW m \in Nat, n <= m PROVE \A k \in 0 .. n : G(m)[k] = G(n)[k]
  <2> DEFINE T == {k \in 0 .. n : G(m)[k] = G(n)[k]}
             a == G(m)
             b == G(n)
  <2>1. Up(a, m) /\ Up(b, n)
    BY <1>1
  <2> HIDE DEF G, a, b
  <2>2. a[0] = 1 /\ b[0] = 1 /\ (\A k \in 1 .. m : a[k] = 2 * a[k - 1]) /\ (\A k \in 1 .. n : b[k] = 2 * b[k - 1])
    BY <2>1
  <2> HIDE DEF Up
  <2>3. 0 \in T
    BY <2>2 DEF a, b
  <2>4. ASSUME NEW k \in 1 .. n, k - 1 \in T PROVE k \in T
    <3>1. k \in 1 .. m /\ k \in 0 .. n
      BY <1>2
    <3>2. a[k - 1] = b[k - 1]
      BY <2>4 DEF a, b
    <3>3. a[k] = b[k]
      BY <2>2, <3>1, <3>2
    <3> QED BY <3>1, <3>3 DEF a, b
  <2>5. \A k \in 0 .. n : k \in T
    <3> HIDE DEF T
    <3> QED BY <2>3, <2>4, UpTo
  <2> QED BY <2>5
<1> HIDE DEF G
<1>3. f0 \in [Nat -> A] /\ f0[0] = 1 /\ \A b \in Nat : f0[b + 1] = 2 * f0[b]
  <2>1. \A n \in Nat : G(n)[n] \in A /\ f0[n] = G(n)[n]
    BY <1>1
  <2>2. f0[0] = 1
    BY <1>1
  <2>3. ASSUME NEW b \in Nat PROVE f0[b + 1] = 2 * f0[b]
    <3>1. b + 1 \in Nat /\ b + 1 \in 1 .. (b + 1) /\ (b + 1) - 1 = b /\ b \in 0 .. b /\ b <= b + 1
      OBVIOUS
    <3>2. G(b + 1)[b + 1] = 2 * G(b + 1)[b]
      BY <1>1, <3>1
    <3>3. G(b + 1)[b] = G(b)[b]
      BY <1>2, <3>1
    <3> QED BY <2>1, <3>1, <3>2, <3>3
  <2> QED BY <2>1, <2>2, <2>3
<1> HIDE DEF f0, A
<1>4. Eq(f0)
  <2>1. \A b \in Nat : f0[b] = IF b = 0 THEN 1 ELSE 2 * f0[b - 1]
    <3> TAKE b \in Nat
    <3>1. b = 0 \/ (b - 1 \in Nat /\ (b - 1) + 1 = b)
      OBVIOUS
    <3> QED BY <1>3, <3>1
  <2> QED BY <1>3, <2>1
<1> DEFINE h == CHOOSE f : Eq(f)
<1>5. Power = h
  BY DEF Power
<1> HIDE DEF Eq
<1>6. Eq(h)
  BY <1>4
<1> HIDE DEF h
<1>7. \A b \in Nat : Power[b] = IF b = 0 THEN 1 ELSE 2 * Power[b - 1]
  BY <1>5, <1>6 DEF Eq
<1>8. \A b \in Nat : Power[b + 1] = 2 * Power[b]
  <2> TAKE b \in Nat
  <2>1. b + 1 \in Nat /\ b + 1 # 0 /\ (b + 1) - 1 = b
    OBVIOUS
  <2> QED BY <1>7, <2>1
<1>9. Power[0] = 1
  BY <1>7
<1>10. ASSUME NEW n \in Nat PROVE Power[n] \in A
  <2> DEFINE T == {k \in 0 .. n : Power[k] \in A}
  <2>1. 0 \in T
    BY <1>9 DEF A
  <2>2. ASSUME NEW k \in 1 .. n, k - 1 \in T PROVE k \in T
    <3>1. k - 1 \in Nat /\ (k - 1) + 1 = k /\ k \in 0 .. n
      OBVIOUS
    <3>2. Power[k] = 2 * Power[k - 1] /\ Power[k - 1] \in A
      BY <1>8, <2>2, <3>1
    <3>3. Power[k] \in A
      BY <3>2 DEF A
    <3> QED BY <3>1, <3>3
  <2>3. \A k \in 0 .. n : k \in T
    <3> HIDE DEF T
    <3> QED BY <2>1, <2>2, UpTo
  <2> QED BY <2>3
<1>11. Power = [b \in Nat |-> Power[b]]
  BY <1>5, <1>6 DEF Eq
<1> QED BY <1>8, <1>9, <1>10, <1>11 DEF A

LEMMA PowerAbove ==
  ASSUME NEW n \in Nat
  PROVE  Power[n] > n
<1> DEFINE T == {k \in 0 .. n : Power[k] > k}
<1>1. 0 \in T
  BY PowerSteps
<1>2. ASSUME NEW k \in 1 .. n, k - 1 \in T PROVE k \in T
  <2>1. k - 1 \in Nat /\ (k - 1) + 1 = k /\ k \in 0 .. n
    OBVIOUS
  <2>2. Power[k] = 2 * Power[k - 1] /\ Power[k - 1] \in Nat /\ Power[k - 1] > k - 1
    BY <1>2, <2>1, PowerSteps
  <2>3. Power[k] > k
    BY <2>1, <2>2
  <2> QED BY <2>1, <2>3
<1>3. \A k \in 0 .. n : k \in T
  <2> HIDE DEF T
  <2> QED BY <1>1, <1>2, UpTo
<1> QED BY <1>3

LEMMA PowerOfSum ==
  ASSUME NEW a \in Nat, NEW n \in Nat
  PROVE  Power[a + n] = Power[a] * Power[n]
<1> DEFINE T == {k \in 0 .. n : Power[a + k] = Power[a] * Power[k]}
<1>1. 0 \in T
  BY PowerSteps
<1>2. ASSUME NEW k \in 1 .. n, k - 1 \in T PROVE k \in T
  <2>1. k - 1 \in Nat /\ (k - 1) + 1 = k /\ k \in 0 .. n /\ a + (k - 1) \in Nat /\ (a + (k - 1)) + 1 = a + k
    OBVIOUS
  <2>2. /\ Power[k] = 2 * Power[k - 1] /\ Power[a + k] = 2 * Power[a + (k - 1)]
        /\ Power[a + (k - 1)] = Power[a] * Power[k - 1]
    BY <1>2, <2>1, PowerSteps
  <2> DEFINE x == Power[a]
             y == Power[k - 1]
  <2>3. x \in Nat /\ y \in Nat
    BY <2>1, PowerSteps
  <2> HIDE DEF x, y
  <2>4. 2 * (x * y) = x * (2 * y)
    BY <2>3
  <2>5. Power[a + k] = Power[a] * Power[k]
    BY <2>2, <2>4 DEF x, y
  <2> QED BY <2>1, <2>5
<1>3. \A k \in 0 .. n : k \in T
  <2> HIDE DEF T
  <2> QED BY <1>1, <1>2, UpTo
<1> QED BY <1>3

\* BitsOf is the number of bits of a number.
LEMMA BitsOfExact ==
  ASSUME NEW n \in Nat
  PROVE  /\ BitsOf(n) \in Nat
         /\ n < Power[BitsOf(n)]
         /\ \A a \in Nat : a < BitsOf(n) => Power[a] <= n
<1> DEFINE T == {b \in 0 .. n : n < Power[b]}
<1>1. T \in SUBSET Nat /\ T # {}
  BY PowerAbove
<1>2. PICK m \in T : \A y \in T : m <= y
  <2> HIDE DEF T
  <2> QED BY <1>1, LeastNatural
<1>3. m \in 0 .. n /\ n < Power[m]
  OBVIOUS
<1>4. \A a \in 0 .. m - 1 : Power[a] <= n
  <2> TAKE a \in 0 .. m - 1
  <2>1. a \in 0 .. n /\ ~ (m <= a)
    BY <1>3
  <2>2. ~ (n < Power[a]) /\ Power[a] \in Nat
    BY <1>2, <2>1, PowerSteps
  <2> QED BY <2>2
<1>5. /\ BitsOf(n) \in 0 .. n /\ n < Power[BitsOf(n)]
      /\ \A a \in 0 .. BitsOf(n) - 1 : Power[a] <= n
  BY <1>3, <1>4 DEF BitsOf
<1> HIDE DEF T
<1> QED BY <1>5

-----------------------------------------------------------------------------
(* Finite sets *)

\* Sets whose members can be paired have the same size.
LEMMA SameSize ==
  ASSUME NEW S, NEW T, NEW f \in [S -> T], IsFiniteSet(S),
         \A x, y \in S : f[x] = f[y] => x = y,
         \A y \in T : \E x \in S : f[x] = y
  PROVE  IsFiniteSet(T) /\ Cardinality(T) = Cardinality(S)
<1>1. f \in Bijection(S, T)
  BY DEF Bijection, Injection, Surjection, IsInjective
<1>2. ExistsBijection(S, T)
  BY <1>1 DEF ExistsBijection
<1> QED BY <1>2, FS_Bijection

\* A finite set of natural numbers has a greatest one.
LEMMA FiniteMax ==
  ASSUME NEW S \in SUBSET Nat, IsFiniteSet(S), S # {}
  PROVE  Max(S) \in S /\ \A y \in S : y <= Max(S)
<1>1. PICK n \in Nat : ExistsBijection(1 .. n, S)
  BY FS_NatBijection
<1>2. PICK f \in [1 .. n -> S] : \A y \in S : \E k \in 1 .. n : f[k] = y
  BY <1>1 DEF ExistsBijection, Bijection, Surjection
<1> DEFINE T == {k \in 0 .. n : \E b \in Nat : \A j \in 1 .. k : f[j] <= b}
<1>3. 0 \in T
  OBVIOUS
<1>4. ASSUME NEW k \in 1 .. n, k - 1 \in T PROVE k \in T
  <2>1. PICK b \in Nat : \A j \in 1 .. k - 1 : f[j] <= b
    BY <1>4
  <2>2. f[k] \in Nat
    OBVIOUS
  <2>3. \A j \in 1 .. k : f[j] \in Nat /\ (j \in 1 .. k - 1 \/ j = k)
    <3> TAKE j \in 1 .. k
    <3>1. j \in 1 .. n
      OBVIOUS
    <3>2. f[j] \in Nat
      BY <3>1
    <3> QED BY <3>2
  <2>4. \A j \in 1 .. k : f[j] <= b + f[k]
    <3> TAKE j \in 1 .. k
    <3>1. CASE j = k
      BY <2>2, <3>1
    <3>2. CASE j \in 1 .. k - 1
      <4>1. f[j] <= b
        BY <2>1, <3>2
      <4> QED BY <2>2, <2>3, <4>1
    <3> QED BY <2>3, <3>1, <3>2
  <2>5. b + f[k] \in Nat /\ k \in 0 .. n
    BY <2>2
  <2> QED BY <2>4, <2>5
<1>5. \A k \in 0 .. n : k \in T
  <2> HIDE DEF T
  <2> QED BY <1>3, <1>4, UpTo
<1>6. PICK b \in Nat : \A y \in S : y <= b
  <2>1. n \in T
    <3> HIDE DEF T
    <3> QED BY <1>5
  <2>2. PICK b \in Nat : \A j \in 1 .. n : f[j] <= b
    BY <2>1
  <2> QED BY <1>2, <2>2
<1> HIDE DEF T
<1> DEFINE U == {b - x : x \in S}
<1>7. U \in SUBSET Nat /\ U # {}
  <2>1. \A x \in S : b - x \in Nat
    BY <1>6
  <2> QED BY <2>1
<1>8. PICK m \in U : \A y \in U : m <= y
  <2> HIDE DEF U
  <2> QED BY <1>7, LeastNatural
<1>9. PICK x \in S : m = b - x
  OBVIOUS
<1>10. \A y \in S : x >= y
  <2> TAKE y \in S
  <2>1. b - x <= b - y
    BY <1>8, <1>9
  <2> QED BY <1>6, <2>1
<1>11. Max(S) \in S /\ \A y \in S : Max(S) >= y
  BY <1>10, Zenon DEF Max
<1> QED BY <1>11

\* Ascending puts the members of a set of numbers in order.
LEMMA AscendingExact ==
  ASSUME NEW S \in SUBSET Nat, IsFiniteSet(S)
  PROVE  /\ Cardinality(S) \in Nat
         /\ Ascending(S) \in [1 .. Cardinality(S) -> S]
         /\ \A j, k \in 1 .. Cardinality(S) : j < k => Ascending(S)[j] < Ascending(S)[k]
         /\ \A k \in 1 .. Cardinality(S) : Cardinality({y \in S : y < Ascending(S)[k]}) = k - 1
         /\ \A x \in S : \E k \in 1 .. Cardinality(S) : Ascending(S)[k] = x
<1> DEFINE n == Cardinality(S)
           Below(x) == {y \in S : y < x}
           D == [x \in S |-> Cardinality(Below(x)) + 1]
           a == Ascending(S)
<1>1. n \in Nat
  BY FS_CardinalityType
<1>2. ASSUME NEW x \in Nat PROVE /\ IsFiniteSet(Below(x)) /\ Cardinality(Below(x)) \in Nat
                                 /\ Cardinality(Below(x)) <= n
                                 /\ x \in S => Cardinality(Below(x)) < n
  <2>1. Below(x) \in SUBSET S
    OBVIOUS
  <2>2. IsFiniteSet(Below(x)) /\ Cardinality(Below(x)) <= n /\ (n = Cardinality(Below(x)) => S = Below(x))
    BY <2>1, FS_Subset
  <2>3. x \notin Below(x)
    OBVIOUS
  <2>4. Cardinality(Below(x)) \in Nat
    BY <2>2, FS_CardinalityType
  <2> HIDE DEF Below, n
  <2> QED BY <1>1, <2>2, <2>3, <2>4
<1>3. ASSUME NEW x \in S, NEW y \in S, x < y PROVE Cardinality(Below(x)) < Cardinality(Below(y))
  <2>1. Below(x) \in SUBSET Below(y) /\ x \in Below(y) /\ x \notin Below(x)
    <3>1. x \in Nat /\ y \in Nat /\ \A z \in S : z \in Nat
      OBVIOUS
    <3>2. \A z \in S : z < x => z < y
      BY <1>3, <3>1
    <3>3. x \in Below(y) /\ ~ (x < x)
      BY <1>3, <3>1
    <3>4. x \notin Below(x)
      BY <3>3
    <3>5. Below(x) \in SUBSET Below(y)
      BY <3>2
    <3> QED BY <3>3, <3>4, <3>5
  <2>2. IsFiniteSet(Below(y)) /\ Cardinality(Below(y)) \in Nat /\ Cardinality(Below(x)) \in Nat
    BY <1>2
  <2> HIDE DEF Below
  <2>3. Cardinality(Below(x)) <= Cardinality(Below(y)) /\ (Cardinality(Below(y)) = Cardinality(Below(x)) => Below(y) = Below(x))
    BY <2>1, <2>2, FS_Subset
  <2> QED BY <2>1, <2>2, <2>3
<1>4. D \in [S -> 1 .. n]
  <2>1. \A x \in S : Cardinality(Below(x)) + 1 \in 1 .. n
    <3> TAKE x \in S
    <3>1. Cardinality(Below(x)) \in Nat /\ Cardinality(Below(x)) < n
      BY <1>2
    <3> HIDE DEF Below, n
    <3> QED BY <1>1, <3>1
  <2> HIDE DEF Below, n
  <2> QED BY <2>1
<1>5. \A x, y \in S : D[x] = D[y] => x = y
  <2> TAKE x, y \in S
  <2>1. D[x] = Cardinality(Below(x)) + 1 /\ D[y] = Cardinality(Below(y)) + 1
    OBVIOUS
  <2>2. Cardinality(Below(x)) \in Nat /\ Cardinality(Below(y)) \in Nat /\ x \in Nat /\ y \in Nat
    BY <1>2
  <2>3. x < y \/ y < x \/ x = y
    BY <2>2
  <2>4. x < y => Cardinality(Below(x)) < Cardinality(Below(y))
    BY <1>3
  <2>5. y < x => Cardinality(Below(y)) < Cardinality(Below(x))
    BY <1>3
  <2> HIDE DEF D, Below
  <2> QED BY <2>1, <2>2, <2>3, <2>4, <2>5
<1>6. \A k \in 1 .. n : \E x \in S : D[x] = k
  <2>1. IsFiniteSet(1 .. n) /\ Cardinality(1 .. n) = n
    <3>1. n \in Int /\ 1 \in Int
      BY <1>1
    <3> HIDE DEF n
    <3>2. IsFiniteSet(1 .. n) /\ Cardinality(1 .. n) = IF 1 > n THEN 0 ELSE n - 1 + 1
      BY <3>1, FS_Interval
    <3> QED BY <1>1, <3>2
  <2>2. D \in Injection(S, 1 .. n)
    <3> HIDE DEF D, n
    <3> QED BY <1>4, <1>5 DEF Injection, IsInjective
  <2>3. D \in Surjection(S, 1 .. n)
    <3> HIDE DEF D
    <3> QED BY <2>1, <2>2, FS_Injection
  <2> HIDE DEF D, n
  <2> QED BY <2>3 DEF Surjection
<1>7. a = [k \in 1 .. n |-> CHOOSE x \in S : Cardinality({y \in S : y < x}) = k - 1]
  BY DEF Ascending
<1>8. ASSUME NEW k \in 1 .. n PROVE a[k] \in S /\ Cardinality(Below(a[k])) = k - 1
  <2>1. PICK x \in S : D[x] = k
    BY <1>6
  <2>2. Cardinality(Below(x)) = k - 1
    <3>1. D[x] = Cardinality(Below(x)) + 1 /\ Cardinality(Below(x)) \in Nat
      BY <1>2
    <3> HIDE DEF D, Below
    <3> QED BY <2>1, <3>1
  <2>3. \E z \in S : Cardinality({y \in S : y < z}) = k - 1
    BY <2>2
  <2>4. a[k] = CHOOSE z \in S : Cardinality({y \in S : y < z}) = k - 1
    <3> HIDE DEF a, n
    <3> QED BY <1>7
  <2> HIDE DEF a
  <2> QED BY <2>3, <2>4
<1>9. a \in [1 .. n -> S]
  <2> HIDE DEF a, n
  <2> QED BY <1>7, <1>8
<1>10. ASSUME NEW j \in 1 .. n, NEW k \in 1 .. n, j < k PROVE a[j] < a[k]
  <2>1. a[j] \in S /\ a[k] \in S /\ a[j] \in Nat /\ a[k] \in Nat
    BY <1>8
  <2>2. Cardinality(Below(a[j])) = j - 1 /\ Cardinality(Below(a[k])) = k - 1
    BY <1>8
  <2>3. ~ (a[k] < a[j]) /\ ~ (a[k] = a[j])
    <3>1. a[k] < a[j] => Cardinality(Below(a[k])) < Cardinality(Below(a[j]))
      BY <1>3, <2>1
    <3> HIDE DEF a, Below, n
    <3>2. j \in Int /\ k \in Int
      BY <1>1
    <3> QED BY <1>10, <2>2, <3>1, <3>2
  <2> HIDE DEF a
  <2> QED BY <2>1, <2>3
<1>11. ASSUME NEW x \in S PROVE \E k \in 1 .. n : a[k] = x
  <2>1. D[x] \in 1 .. n
    BY <1>4
  <2>2. a[D[x]] \in S /\ Cardinality(Below(a[D[x]])) = D[x] - 1
    BY <1>8, <2>1
  <2>3. D[a[D[x]]] = (D[x] - 1) + 1
    BY <2>2
  <2>4. D[x] \in Int
    BY <2>1
  <2>5. D[a[D[x]]] = D[x]
    <3> HIDE DEF D, a
    <3> QED BY <2>3, <2>4
  <2>6. a[D[x]] = x
    <3> HIDE DEF D, a
    <3> QED BY <1>5, <2>2, <2>5
  <2> QED BY <2>1, <2>6
<1> HIDE DEF a
<1> QED BY <1>1, <1>8, <1>9, <1>10, <1>11 DEF a

-----------------------------------------------------------------------------
(* The two-dimensional layout *)

LEMMA GridSize ==
  /\ R \in Nat /\ R > 0 /\ C \in Nat /\ C > 0
  /\ Size = R * C /\ Size \in Nat /\ Size > 0
<1>1. R \in Nat /\ R > 0 /\ C \in Nat /\ C > 0
  BY ConstructAssumption
<1>2. \A a, b \in Nat : a > 0 /\ b > 0 => a * b \in Nat /\ a * b > 0
  OBVIOUS
<1> QED BY <1>1, <1>2 DEF Size

\* A rank is a row and a column.
LEMMA RankOf ==
  ASSUME NEW a \in 0 .. R - 1, NEW b \in 0 .. C - 1
  PROVE  RankAt(a, b) \in Rank /\ Row(RankAt(a, b)) = a /\ Column(RankAt(a, b)) = b
<1>1. a \in Nat /\ b \in Nat /\ b + 1 <= C
  BY GridSize
<1>2. /\ R * b + a \in Nat /\ (R * b + a) \div R = b /\ (R * b + a) % R = a
  BY <1>1, GridSize, DivisionUnique
<1>3. RankAt(a, b) = R * b + a
  BY <1>1, GridSize DEF RankAt
<1>4. R * (b + 1) <= R * C
  <2>1. PICK t \in Nat : C = (b + 1) + t
    <3>1. C - (b + 1) \in Nat /\ C = (b + 1) + (C - (b + 1))
      BY <1>1, GridSize
    <3> QED BY <3>1
  <2>2. R * C = R * (b + 1) + R * t /\ R * t \in Nat /\ R * (b + 1) \in Nat
    BY <1>1, <2>1, GridSize
  <2> QED BY <2>2
<1>5. R * (b + 1) = R * b + R /\ R * b \in Nat
  BY <1>1, GridSize
<1>6. R * b + a < R * C /\ R * C \in Nat
  BY <1>1, <1>4, <1>5, GridSize
<1>7. R * b + a \in 0 .. Size - 1
  BY <1>2, <1>6, GridSize
<1> QED BY <1>2, <1>3, <1>7 DEF Rank, Row, Column

LEMMA RankParts ==
  ASSUME NEW r \in Rank
  PROVE  Row(r) \in 0 .. R - 1 /\ Column(r) \in 0 .. C - 1 /\ r = RankAt(Row(r), Column(r))
<1> DEFINE b == r \div R
           a == r % R
<1>1. r \in Nat /\ r < Size
  BY GridSize DEF Rank
<1>2. b \in Nat /\ a \in 0 .. R - 1 /\ r = R * b + a
  BY <1>1, GridSize, DivisionMod
<1> HIDE DEF a, b
<1>3. b < C
  <2> SUFFICES ASSUME b >= C PROVE FALSE
    BY <1>2, GridSize
  <2>1. PICK t \in Nat : b = C + t
    <3>1. b - C \in Nat /\ b = C + (b - C)
      BY <1>2, GridSize
    <3> QED BY <3>1
  <2>2. R * b = R * C + R * t /\ R * t \in Nat /\ R * C \in Nat
    BY <2>1, GridSize
  <2> QED BY <1>1, <1>2, <2>2, GridSize
<1>4. R * b = b * R
  BY <1>2, GridSize
<1>5. Row(r) = a /\ Column(r) = b /\ RankAt(a, b) = b * R + a
  BY DEF Row, Column, RankAt, a, b
<1> QED BY <1>2, <1>3, <1>4, <1>5, GridSize

\* A vertex is its owner and its number there.
LEMMA VertexParts ==
  ASSUME NEW v \in Nat
  PROVE  /\ OwnerR(v) \in 0 .. R - 1 /\ OwnerC(v) \in 0 .. C - 1
         /\ Owner(v) \in Rank /\ Local(v) \in Nat
         /\ v = Size * Local(v) + Owner(v)
         /\ Owner(v) = RankAt(OwnerR(v), OwnerC(v))
         /\ Row(Owner(v)) = OwnerR(v) /\ Column(Owner(v)) = OwnerC(v)
<1> DEFINE q == v \div R
           a == v % R
           l == q \div C
           b == q % C
<1>1. q \in Nat /\ a \in 0 .. R - 1 /\ v = R * q + a
  BY GridSize, DivisionMod
<1>2. l \in Nat /\ b \in 0 .. C - 1 /\ q = C * l + b
  <2> HIDE DEF q
  <2> QED BY <1>1, GridSize, DivisionMod
<1>3. OwnerR(v) = a /\ OwnerC(v) = b
  BY DEF OwnerR, OwnerC
<1> HIDE DEF a, q, l, b
<1>4. RankAt(a, b) \in Rank /\ Row(RankAt(a, b)) = a /\ Column(RankAt(a, b)) = b
  BY <1>1, <1>2, RankOf
<1>5. v = Size * l + RankAt(a, b)
  <2>1. a \in Nat /\ b \in Nat
    BY <1>1, <1>2, GridSize
  <2>2. R * (C * l + b) = (R * C) * l + b * R
    BY <1>2, <2>1, GridSize
  <2>3. v = (R * C) * l + b * R + a
    <3>1. (R * C) * l \in Nat /\ b * R \in Nat
      BY <1>2, <2>1, GridSize
    <3> QED BY <1>1, <1>2, <2>1, <2>2, <3>1
  <2>4. (R * C) * l \in Nat /\ b * R \in Nat
    BY <1>2, <2>1, GridSize
  <2>5. Size * l = (R * C) * l
    BY GridSize
  <2> QED BY <2>1, <2>3, <2>4, <2>5 DEF RankAt
<1>6. RankAt(a, b) \in 0 .. Size - 1
  BY <1>4 DEF Rank
<1>7. (Size * l + RankAt(a, b)) \div Size = l /\ (Size * l + RankAt(a, b)) % Size = RankAt(a, b)
  <2> DEFINE m == RankAt(a, b)
  <2>1. m \in 0 .. Size - 1
    BY <1>6
  <2> HIDE DEF m
  <2>2. (Size * l + m) \div Size = l /\ (Size * l + m) % Size = m
    BY <1>2, <2>1, GridSize, DivisionUnique
  <2> QED BY <2>2 DEF m
<1>8. Owner(v) = RankAt(a, b) /\ Local(v) = l
  BY <1>5, <1>7 DEF Owner, Local
<1> QED BY <1>1, <1>2, <1>3, <1>4, <1>5, <1>8

\* A vertex is known by its owner and its number there.
LEMMA VertexAt ==
  ASSUME NEW l \in Nat, NEW r \in Rank
  PROVE  /\ Size * l + r \in Nat
         /\ Owner(Size * l + r) = r /\ Local(Size * l + r) = l
<1>1. r \in 0 .. Size - 1
  BY DEF Rank
<1>2. (Size * l + r) \div Size = l /\ (Size * l + r) % Size = r /\ Size * l + r \in Nat
  BY <1>1, GridSize, DivisionUnique
<1> QED BY <1>2 DEF Owner, Local

\* An edge is stored where the row of its source and the column of its target
\* meet.
LEMMA EdgeOwnerParts ==
  ASSUME NEW v \in Nat, NEW u \in Nat, NEW r \in Rank
  PROVE  /\ EdgeOwner(v, u) \in Rank
         /\ EdgeOwner(v, u) = r <=> OwnerR(v) = Row(r) /\ OwnerC(u) = Column(r)
<1>1. OwnerR(v) \in 0 .. R - 1 /\ OwnerC(u) \in 0 .. C - 1
  BY VertexParts
<1>2. /\ RankAt(OwnerR(v), OwnerC(u)) \in Rank
      /\ Row(RankAt(OwnerR(v), OwnerC(u))) = OwnerR(v)
      /\ Column(RankAt(OwnerR(v), OwnerC(u))) = OwnerC(u)
  BY <1>1, RankOf
<1>3. EdgeOwner(v, u) = RankAt(OwnerR(v), OwnerC(u))
  <2> DEFINE a == OwnerR(v)
             b == OwnerC(u)
  <2>1. a \in Nat /\ b \in Nat
    BY <1>1, GridSize
  <2> HIDE DEF a, b
  <2>2. a + b * R = b * R + a
    <3>1. b * R \in Nat
      BY <2>1, GridSize
    <3> QED BY <2>1, <3>1
  <2> QED BY <2>2 DEF EdgeOwner, RankAt, a, b
<1>4. r = RankAt(Row(r), Column(r))
  BY RankParts
<1> QED BY <1>2, <1>3, <1>4

\* A rank finds the owner of a vertex of its processor row.
LEMMA OwnerInRow ==
  ASSUME NEW v \in Nat, NEW r \in Rank, OwnerR(v) = Row(r)
  PROVE  Sender(r, OwnerC(v)) = Owner(v)
BY VertexParts DEF Sender

-----------------------------------------------------------------------------
(* What is sent for the edge list *)

EdgesOK == reordering \in Reorderings /\ edges \in EdgeLists(reordering)

\* The values of a function on a finite set.
LEMMA ImageFinite ==
  ASSUME NEW S, NEW f, f = [x \in S |-> f[x]], IsFiniteSet(S)
  PROVE  /\ IsFiniteSet({f[x] : x \in S})
         /\ Cardinality({f[x] : x \in S}) <= Cardinality(S)
<1> DEFINE T == {f[x] : x \in S}
<1>1. f \in [S -> T]
  OBVIOUS
<1>2. f \in Surjection(S, T)
  BY <1>1 DEF Surjection
<1> HIDE DEF T
<1>3. IsFiniteSet(T) /\ Cardinality(T) <= Cardinality(S)
  BY <1>2, FS_Surjection
<1> QED BY <1>3 DEF T

LEMMA RankFinite == IsFiniteSet(Rank) /\ Cardinality(Rank) = Size /\ Rank # {} /\ Rank \in SUBSET Nat
<1>1. 0 \in Int /\ Size - 1 \in Int
  BY GridSize
<1>2. IsFiniteSet(0 .. (Size - 1)) /\ Cardinality(0 .. (Size - 1)) = IF 0 > Size - 1 THEN 0 ELSE (Size - 1) - 0 + 1
  BY <1>1, FS_Interval
<1>3. (IF 0 > Size - 1 THEN 0 ELSE (Size - 1) - 0 + 1) = Size /\ 0 \in 0 .. (Size - 1)
  BY GridSize
<1>4. Rank = 0 .. (Size - 1) /\ Rank # {}
  BY <1>3 DEF Rank
<1>5. Rank \in SUBSET Nat
  BY GridSize DEF Rank
<1> QED BY <1>2, <1>3, <1>4, <1>5

LEMMA EdgesTyped ==
  ASSUME EdgesOK
  PROVE  /\ edges \in [Rank -> Seq(Nat \X Nat)]
         /\ \A r \in Rank : \A ix \in 1 .. Len(edges[r]) :
              edges[r][ix] \in Nat \X Nat /\ edges[r][ix][1] \in Nat /\ edges[r][ix][2] \in Nat
         /\ \A r \in Rank : Len(edges[r]) \in Nat /\ DOMAIN edges[r] = 1 .. Len(edges[r])
<1>1. edges \in [Rank -> Seq(Nat \X Nat)]
  BY EdgeListsAssumption DEF EdgesOK
<1>2. \A r \in Rank : edges[r] \in Seq(Nat \X Nat)
  BY <1>1
<1>3. \A r \in Rank : Len(edges[r]) \in Nat /\ DOMAIN edges[r] = 1 .. Len(edges[r])
  BY <1>2
<1>4. \A r \in Rank : \A ix \in 1 .. Len(edges[r]) : edges[r][ix] \in Nat \X Nat
  BY <1>2
<1> QED BY <1>1, <1>3, <1>4

\* Some number has a power of two above it that gives every rank a vertex.
LEMMA BigVertex ==
  ASSUME EdgesOK
  PROVE  \E r \in Rank : \E ix \in 1 .. Len(edges[r]), k \in {1, 2} :
           Power[BitsOf(edges[r][ix][k])] >= Size
<1>1. \E r \in Rank : \E ix \in DOMAIN edges[r], k \in {1, 2} : Power[BitsOf(edges[r][ix][k])] >= Size
  BY EdgeListsAssumption DEF EdgesOK
<1> QED BY <1>1, EdgesTyped

LEMMA LongestList ==
  ASSUME EdgesOK
  PROVE  /\ MaxEdges \in Nat /\ MaxEdges > 0
         /\ \A r \in Rank : Len(edges[r]) <= MaxEdges
<1> DEFINE f == [r \in Rank |-> Len(edges[r])]
           S == {Len(edges[r]) : r \in Rank}
<1>1. S = {f[r] : r \in Rank}
  OBVIOUS
<1>2. IsFiniteSet(S)
  <2>1. f = [r \in Rank |-> f[r]]
    OBVIOUS
  <2> HIDE DEF f, S
  <2> QED BY <1>1, <2>1, ImageFinite, RankFinite
<1>3. S \in SUBSET Nat /\ S # {}
  <2>1. \A r \in Rank : Len(edges[r]) \in Nat
    BY EdgesTyped
  <2>2. \E r \in Rank : Len(edges[r]) \in S
    BY RankFinite
  <2> QED BY <2>1, <2>2
<1>4. Max(S) \in S /\ \A y \in S : y <= Max(S)
  <2> HIDE DEF S
  <2> QED BY <1>2, <1>3, FiniteMax
<1>5. MaxEdges = Max(S)
  BY DEF MaxEdges
<1>6. \A r \in Rank : Len(edges[r]) <= MaxEdges
  BY <1>4, <1>5
<1>7. PICK r \in Rank : 1 .. Len(edges[r]) # {}
  BY BigVertex
<1>8. Len(edges[r]) \in Nat /\ Len(edges[r]) > 0
  BY <1>7, EdgesTyped
<1>9. MaxEdges \in Nat
  BY <1>3, <1>4, <1>5
<1> HIDE DEF S
<1> QED BY <1>6, <1>8, <1>9

LEMMA LoopCount ==
  ASSUME EdgesOK
  PROVE  NumLoops \in Nat /\ NumLoops > 0
<1> DEFINE a == MaxEdges + Chunk - 1
           q == a \div Chunk
           m == a % Chunk
<1>1. Chunk \in Nat /\ Chunk > 0
  BY ConstructAssumption
<1>2. a \in Nat /\ a >= Chunk
  BY <1>1, LongestList
<1>3. NumLoops = q
  BY DEF NumLoops
<1> HIDE DEF a
<1>4. q \in Nat /\ a = Chunk * q + m /\ m \in 0 .. Chunk - 1
  BY <1>1, <1>2, DivisionMod
<1> HIDE DEF q, m
<1>5. q # 0
  <2> SUFFICES ASSUME q = 0 PROVE FALSE
    OBVIOUS
  <2>1. Chunk * q = 0
    BY <1>1
  <2> QED BY <1>1, <1>2, <1>4, <2>1
<1> QED BY <1>3, <1>4, <1>5

\* The chunk of an edge is read in some iteration.
LEMMA ChunkRead ==
  ASSUME EdgesOK, NEW ix \in 1 .. MaxEdges
  PROVE  (ix - 1) \div Chunk \in Nat /\ (ix - 1) \div Chunk < NumLoops
<1> DEFINE n == MaxEdges
           q == (ix - 1) \div Chunk
           k == (ix - 1) % Chunk
           p == (n + Chunk - 1) \div Chunk
           m == (n + Chunk - 1) % Chunk
<1>1. Chunk \in Nat /\ Chunk > 0 /\ n \in Nat /\ n > 0
  BY ConstructAssumption, LongestList
<1>2. ix \in Nat /\ ix >= 1 /\ ix <= n /\ ix - 1 \in Nat /\ n + Chunk - 1 \in Nat
  BY <1>1
<1>3. q \in Nat /\ ix - 1 = Chunk * q + k /\ k \in 0 .. Chunk - 1
  BY <1>1, <1>2, DivisionMod
<1>4. p \in Nat /\ n + Chunk - 1 = Chunk * p + m /\ m \in 0 .. Chunk - 1
  BY <1>1, <1>2, DivisionMod
<1>5. NumLoops = p
  BY DEF NumLoops
<1> HIDE DEF n, q, k, p, m
<1>6. q < p
  <2> SUFFICES ASSUME ~ (q < p) PROVE FALSE
    OBVIOUS
  <2>1. PICK t \in Nat : q = p + t
    <3>1. q - p \in Nat /\ q = p + (q - p)
      BY <1>3, <1>4
    <3> QED BY <3>1
  <2>2. Chunk * q = Chunk * p + Chunk * t /\ Chunk * t \in Nat /\ Chunk * p \in Nat
    BY <1>1, <1>4, <2>1
  <2> QED BY <1>1, <1>2, <1>3, <1>4, <2>2
<1> QED BY <1>3, <1>5, <1>6 DEF q

LEMMA SendsTyped ==
  ASSUME EdgesOK, NEW x \in Sends
  PROVE  /\ x[1] \in Rank /\ x[2] \in 1 .. MaxEdges /\ x[2] \in 1 .. Len(edges[x[1]])
         /\ x[3] \in {1, 2} /\ x = <<x[1], x[2], x[3]>>
         /\ From(x) \in Nat /\ To(x) \in Nat /\ From(x) # To(x)
         /\ (x[2] - 1) \div Chunk \in Nat /\ (x[2] - 1) \div Chunk < NumLoops
<1>1. /\ x \in Rank \X (1 .. MaxEdges) \X {1, 2} /\ x[2] <= Len(edges[x[1]])
      /\ From(x) # To(x)
  BY DEF Sends
<1>2. x[1] \in Rank /\ x[2] \in 1 .. MaxEdges /\ x[3] \in {1, 2} /\ x = <<x[1], x[2], x[3]>>
  BY <1>1
<1>3. x[2] \in 1 .. Len(edges[x[1]])
  BY <1>1, <1>2, EdgesTyped, LongestList
<1>4. 3 - x[3] \in {1, 2}
  BY <1>2
<1>5. From(x) \in Nat /\ To(x) \in Nat
  BY <1>2, <1>3, <1>4, EdgesTyped DEF From, To
<1> QED BY <1>1, <1>2, <1>3, <1>5, ChunkRead

\* The ends of the edges of the list.
Ends == {x \in Rank \X (1 .. MaxEdges) \X {1, 2} : x[2] <= Len(edges[x[1]])}
LEMMA EndsFinite ==
  ASSUME EdgesOK
  PROVE  /\ IsFiniteSet(Ends) /\ IsFiniteSet(Sends) /\ Sends \in SUBSET Ends
         /\ \A x \in Ends : From(x) \in Nat
         /\ Vertexes = {From(x) : x \in Ends}
<1>1. IsFiniteSet(1 .. MaxEdges)
  <2>1. 1 \in Int /\ MaxEdges \in Int
    BY LongestList
  <2> QED BY <2>1, FS_Interval
<1>2. IsFiniteSet({1, 2})
  <2>1. 1 .. 2 = {1, 2} /\ 1 \in Int /\ 2 \in Int
    OBVIOUS
  <2>2. IsFiniteSet(1 .. 2)
    BY <2>1, FS_Interval
  <2> QED BY <2>1, <2>2
<1> DEFINE P == (Rank \X (1 .. MaxEdges)) \X {1, 2}
           F == [y \in P |-> <<y[1][1], y[1][2], y[2]>>]
           T == {F[y] : y \in P}
<1>3. IsFiniteSet(P)
  <2>1. IsFiniteSet(Rank \X (1 .. MaxEdges))
    BY <1>1, RankFinite, FS_Product
  <2> QED BY <1>2, <2>1, FS_Product
<1>4. IsFiniteSet(T)
  <2>1. F = [y \in P |-> F[y]]
    OBVIOUS
  <2> HIDE DEF F, P
  <2> QED BY <1>3, <2>1, ImageFinite
<1>5. ASSUME NEW x \in Ends
      PROVE  x[1] \in Rank /\ x[2] \in 1 .. MaxEdges /\ x[2] <= Len(edges[x[1]]) /\ x[3] \in {1, 2} /\ x = <<x[1], x[2], x[3]>>
  BY DEF Ends
<1>6. Ends \in SUBSET T
  <2> SUFFICES ASSUME NEW x \in Ends PROVE x \in T
    OBVIOUS
  <2>1. x[1] \in Rank /\ x[2] \in 1 .. MaxEdges /\ x[3] \in {1, 2} /\ x = <<x[1], x[2], x[3]>>
    BY <1>5
  <2> DEFINE y == <<<<x[1], x[2]>>, x[3]>>
  <2>2. y \in P /\ F[y] = x
    BY <2>1
  <2> HIDE DEF y, F, P
  <2> QED BY <2>2
<1>7. IsFiniteSet(Ends)
  <2> HIDE DEF T
  <2> QED BY <1>4, <1>6, FS_Subset
<1>8. Sends \in SUBSET Ends
  BY DEF Sends, Ends
<1>9. IsFiniteSet(Sends)
  BY <1>7, <1>8, FS_Subset
<1>10. ASSUME NEW x \in Ends PROVE From(x) \in Nat /\ From(x) \in Vertexes
  <2>1. x[1] \in Rank /\ x[2] \in 1 .. Len(edges[x[1]]) /\ x[3] \in {1, 2}
    BY <1>5, EdgesTyped, LongestList
  <2>2. From(x) \in Nat
    BY <2>1, EdgesTyped DEF From
  <2>3. x[2] \in DOMAIN edges[x[1]]
    BY <2>1, EdgesTyped
  <2>4. From(x) \in {edges[x[1]][ix][k] : ix \in DOMAIN edges[x[1]], k \in {1, 2}}
    BY <2>1, <2>3 DEF From
  <2> QED BY <2>1, <2>2, <2>4 DEF Vertexes
<1>11. ASSUME NEW v \in Vertexes PROVE \E x \in Ends : From(x) = v
  <2>1. PICK r \in Rank : \E ix \in DOMAIN edges[r], k \in {1, 2} : v = edges[r][ix][k]
    BY DEF Vertexes
  <2>2. PICK ix \in DOMAIN edges[r], k \in {1, 2} : v = edges[r][ix][k]
    BY <2>1
  <2> DEFINE x == <<r, ix, k>>
  <2>3. ix \in 1 .. Len(edges[r]) /\ ix \in 1 .. MaxEdges
    BY EdgesTyped, LongestList
  <2>4. x \in Rank \X (1 .. MaxEdges) \X {1, 2} /\ x[1] = r /\ x[2] = ix /\ x[3] = k
    BY <2>3
  <2> HIDE DEF x
  <2>5. x \in Ends
    BY <2>3, <2>4, EdgesTyped DEF Ends
  <2>6. From(x) = v
    BY <2>2, <2>4 DEF From
  <2> QED BY <2>5, <2>6
<1> QED BY <1>7, <1>8, <1>9, <1>10, <1>11

\* Both directions are sent.
Mirror(x) == <<x[1], x[2], 3 - x[3]>>
LEMMA MirrorSent ==
  ASSUME EdgesOK, NEW x \in Sends
  PROVE  Mirror(x) \in Sends /\ From(Mirror(x)) = To(x) /\ To(Mirror(x)) = From(x)
<1>1. /\ x[1] \in Rank /\ x[2] \in 1 .. MaxEdges /\ x[2] \in 1 .. Len(edges[x[1]])
      /\ x[3] \in {1, 2} /\ From(x) # To(x)
  BY SendsTyped
<1>2. /\ Mirror(x)[1] = x[1] /\ Mirror(x)[2] = x[2] /\ Mirror(x)[3] = 3 - x[3]
      /\ 3 - x[3] \in {1, 2} /\ 3 - (3 - x[3]) = x[3]
  BY <1>1 DEF Mirror
<1>3. From(Mirror(x)) = To(x) /\ To(Mirror(x)) = From(x)
  BY <1>2 DEF From, To
<1>4. Mirror(x) \in Rank \X (1 .. MaxEdges) \X {1, 2}
  BY <1>1, <1>2 DEF Mirror
<1>5. Mirror(x)[2] <= Len(edges[Mirror(x)[1]])
  BY <1>1, <1>2, EdgesTyped
<1> QED BY <1>1, <1>3, <1>4, <1>5 DEF Sends

-----------------------------------------------------------------------------
(* The local numbers fit *)

\* A higher power of two is larger, by a factor.
LEMMA PowerFactor ==
  ASSUME NEW a \in Nat, NEW b \in Nat, a <= b
  PROVE  \E t \in Nat : t > 0 /\ Power[b] = Power[a] * t /\ Power[a] <= Power[b]
<1> DEFINE n == b - a
           t == Power[n]
<1>1. n \in Nat /\ b = a + n
  OBVIOUS
<1> HIDE DEF n
<1>2. Power[b] = Power[a] * t /\ t \in Nat /\ t > 0 /\ Power[a] \in Nat
  <2>1. Power[a + n] = Power[a] * Power[n]
    BY <1>1, PowerOfSum
  <2>2. Power[n] \in Nat /\ Power[n] > 0 /\ Power[a] \in Nat
    BY <1>1, PowerSteps
  <2> QED BY <1>1, <2>1, <2>2
<1> HIDE DEF t
<1>3. Power[a] <= Power[a] * t
  <2> DEFINE x == Power[a]
  <2>1. x \in Nat
    BY <1>2
  <2> HIDE DEF x
  <2>2. PICK z \in Nat : t = z + 1
    <3>1. t - 1 \in Nat /\ t = (t - 1) + 1
      BY <1>2
    <3> QED BY <3>1
  <2>3. x * t = x * z + x /\ x * z \in Nat
    BY <2>1, <2>2
  <2>4. x <= x * t
    BY <2>1, <2>3
  <2> QED BY <2>4 DEF x
<1> QED BY <1>2, <1>3

\* A larger number has no fewer bits.
LEMMA BitsGrow ==
  ASSUME NEW a \in Nat, NEW b \in Nat, a <= b
  PROVE  Power[BitsOf(a)] <= Power[BitsOf(b)]
<1> DEFINE k == BitsOf(a)
           l == BitsOf(b)
<1>1. k \in Nat /\ l \in Nat /\ b < Power[l] /\ Power[l] \in Nat /\ (l < k => Power[l] <= a)
  BY BitsOfExact, PowerSteps
<1> HIDE DEF k, l
<1>2. k <= l
  BY <1>1
<1> QED BY <1>1, <1>2, PowerFactor DEF k, l

LEMMA RoundUpExact ==
  ASSUME NEW n \in Nat, NEW u \in Nat, u > 0
  PROVE  /\ RoundUp(n, u) \in Nat /\ RoundUp(n, u) >= n
         /\ \E q \in Nat : RoundUp(n, u) = u * q
<1> DEFINE a == n + u - 1
           q == a \div u
           m == a % u
<1>1. a \in Nat
  OBVIOUS
<1>2. RoundUp(n, u) = q * u
  BY DEF RoundUp
<1> HIDE DEF a
<1>3. q \in Nat /\ a = u * q + m /\ m \in 0 .. u - 1
  BY <1>1, DivisionMod
<1> HIDE DEF q, m
<1>4. q * u = u * q /\ u * q \in Nat
  BY <1>3
<1>5. u * q >= n
  BY <1>3, <1>4 DEF a
<1> QED BY <1>2, <1>3, <1>4, <1>5

\* A factor of a product is not greater than the product is.
LEMMA FactorsFit ==
  ASSUME NEW q \in Nat, NEW c \in Nat, NEW p \in Nat, q < p
  PROVE  c * q + c <= c * p /\ c * q \in Nat /\ c * p \in Nat
<1>1. PICK t \in Nat : p = q + 1 + t
  <2>1. p - q - 1 \in Nat /\ p = q + 1 + (p - q - 1)
    OBVIOUS
  <2> QED BY <2>1
<1>2. c * p = c * q + c + c * t /\ c * t \in Nat /\ c * q \in Nat /\ c * p \in Nat
  BY <1>1
<1> QED BY <1>2

LEMMA LocalNumbersFit ==
  ASSUME RanksFit, NEW top \in Nat, Power[BitsOf(top)] >= Size, NEW v \in 0 .. top
  PROVE  OrigLocalVerts(top) \in Nat /\ OrigLocalVerts(top) > 0 /\ Local(v) < OrigLocalVerts(top)
<1> DEFINE s == BitsOf(top)
           p == Power[s]
           m == p \div Size
           k == p % Size
           u == RoundUp(m, Unit)
           b == BitsOf(u - 1)
           n == Power[b]
           l == Local(v)
<1>1. p \in Nat /\ s \in Nat /\ top < p /\ p >= Size
  BY BitsOfExact, PowerSteps
<1>2. n = OrigLocalVerts(top)
  BY DEF OrigLocalVerts
<1>3. Unit \in Nat /\ Unit > 0 /\ Size \in Nat /\ Size > 0
  BY ConstructAssumption, GridSize
<1> HIDE DEF p
<1>4. m \in Nat /\ p = Size * m + k /\ k \in 0 .. Size - 1
  BY <1>1, <1>3, DivisionMod
<1> HIDE DEF m, k
<1>5. m > 0
  <2> SUFFICES ASSUME m = 0 PROVE FALSE
    BY <1>4
  <2>1. Size * m = 0
    BY <1>3
  <2> QED BY <1>1, <1>3, <1>4, <2>1
<1>6. u \in Nat /\ u >= m /\ \E q \in Nat : u = Unit * q
  BY <1>3, <1>4, RoundUpExact
<1> HIDE DEF u
<1>7. u - 1 \in Nat
  BY <1>4, <1>5, <1>6
<1>8. b \in Nat /\ n \in Nat /\ n > u - 1
  BY <1>7, BitsOfExact, PowerSteps
<1> HIDE DEF b, n
<1>9. n >= m /\ n > 0 /\ n >= u
  BY <1>4, <1>5, <1>6, <1>7, <1>8
<1>10. l \in Nat /\ v = Size * l + Owner(v) /\ Owner(v) \in 0 .. Size - 1 /\ v < p /\ v \in Nat
  <2>1. v \in Nat /\ v < p
    BY <1>1
  <2> QED BY <2>1, VertexParts DEF Rank
<1> HIDE DEF l, s
<1>11. l <= m
  <2> SUFFICES ASSUME m < l PROVE FALSE
    BY <1>4, <1>10
  <2>1. Size * m + Size <= Size * l /\ Size * l \in Nat /\ Size * m \in Nat
    BY <1>3, <1>4, <1>10, FactorsFit
  <2> QED BY <1>3, <1>4, <1>10, <2>1
<1>12. ASSUME n = m PROVE k = 0
  <2>1. u = m
    BY <1>6, <1>8, <1>9, <1>12
  \* p is a multiple of n
  <2>2. b <= s
    <3> SUFFICES ASSUME s < b PROVE FALSE
      BY <1>1, <1>8
    <3>1. Power[s + 1] <= n
      BY <1>1, <1>8, PowerFactor DEF n
    <3>2. Power[s + 1] = 2 * p
      BY <1>1, PowerSteps DEF p
    <3>3. Size * m >= m
      <4>1. PICK z \in Nat : Size = 1 + z
        <5>1. Size - 1 \in Nat /\ Size = 1 + (Size - 1)
          BY <1>3
        <5> QED BY <5>1
      <4>2. Size * m = m + z * m /\ z * m \in Nat
        BY <1>4, <4>1
      <4> QED BY <1>4, <4>2
    <3>4. Size * m \in Nat
      BY <1>3, <1>4
    <3> QED BY <1>1, <1>4, <1>5, <1>12, <3>1, <3>2, <3>3, <3>4
  <2>3. PICK t \in Nat : t > 0 /\ p = n * t
    BY <1>1, <1>8, <2>2, PowerFactor DEF p, n
  <2>4. m * t = Size * m + k
    BY <1>4, <1>12, <2>3
  <2>5. t >= Size
    <3> SUFFICES ASSUME t < Size PROVE FALSE
      BY <1>3
    <3>1. m * t + m <= m * Size /\ m * t \in Nat
      BY <1>3, <1>4, FactorsFit
    <3>2. m * Size = Size * m
      BY <1>3, <1>4
    <3>3. Size * m \in Nat
      BY <1>3, <1>4
    <3> QED BY <1>3, <1>4, <1>5, <2>4, <3>1, <3>2, <3>3
  <2>6. CASE Size <= Unit
    <3>1. m >= Unit
      <4>1. PICK q \in Nat : u = Unit * q
        BY <1>6
      <4>2. q # 0
        <5> SUFFICES ASSUME q = 0 PROVE FALSE
          OBVIOUS
        <5>1. Unit * q = 0
          BY <1>3
        <5> QED BY <1>5, <2>1, <4>1, <5>1
      <4>3. Unit * 0 + Unit <= Unit * q
        BY <1>3, <4>2, FactorsFit
      <4> QED BY <1>3, <2>1, <4>1, <4>3
    <3>2. t = Size
      <4> SUFFICES ASSUME Size < t PROVE FALSE
        BY <1>3, <2>3, <2>5
      <4>1. m * Size + m <= m * t /\ m * Size \in Nat
        BY <1>3, <1>4, <2>3, FactorsFit
      <4>2. m * Size = Size * m
        BY <1>3, <1>4
      <4> QED BY <1>3, <1>4, <2>4, <2>6, <3>1, <4>1, <4>2
    <3>3. m * Size = Size * m /\ Size * m \in Nat
      BY <1>3, <1>4
    <3> QED BY <1>4, <2>4, <3>2, <3>3
  <2>7. CASE \E j \in 0 .. Size : Size = Power[j]
    <3>1. PICK j \in Nat : Size = Power[j]
      BY <1>3, <2>7
    <3>2. j <= s
      <4> SUFFICES ASSUME s < j PROVE FALSE
        BY <1>1
      <4>1. Power[s + 1] <= Size
        BY <1>1, <3>1, PowerFactor
      <4>2. Power[s + 1] = 2 * p
        BY <1>1, PowerSteps DEF p
      <4> QED BY <1>1, <1>3, <4>1, <4>2
    <3>3. PICK z \in Nat : p = Size * z
      BY <1>1, <3>1, <3>2, PowerFactor DEF p
    <3>4. (Size * z + 0) % Size = 0
      <4> DEFINE d == 0
      <4>1. d \in 0 .. Size - 1
        BY <1>3
      <4> HIDE DEF d
      <4>2. (Size * z + d) % Size = d
        BY <1>3, <4>1, DivisionUnique
      <4> QED BY <4>2 DEF d
    <3>5. Size * z + 0 = p
      BY <1>1, <3>3
    <3>6. k = p % Size
      BY DEF k
    <3> QED BY <3>4, <3>5, <3>6
  <2> QED BY <2>6, <2>7 DEF RanksFit
<1>13. ASSUME n = m PROVE l < m
  <2> SUFFICES ASSUME l = m PROVE FALSE
    BY <1>4, <1>10, <1>11
  <2>1. Size * m \in Nat /\ k = 0
    BY <1>3, <1>4, <1>12, <1>13
  <2> QED BY <1>3, <1>4, <1>10, <2>1
<1>14. l < n
  BY <1>4, <1>8, <1>9, <1>10, <1>11, <1>13
<1> QED BY <1>2, <1>8, <1>9, <1>14 DEF l

\* What searchMaxVertex chooses.
LEMMA NumOrigEnough ==
  ASSUME RanksFit, EdgesOK
  PROVE  /\ OrigLocalVerts(Max(Vertexes)) \in Nat /\ OrigLocalVerts(Max(Vertexes)) > 0
         /\ \A x \in Sends : Local(From(x)) < OrigLocalVerts(Max(Vertexes))
<1> DEFINE top == Max(Vertexes)
           f == [x \in Ends |-> From(x)]
<1>1. Vertexes \in SUBSET Nat /\ IsFiniteSet(Vertexes)
  <2>1. f = [x \in Ends |-> f[x]] /\ \A x \in Ends : f[x] = From(x)
    OBVIOUS
  <2> HIDE DEF f
  <2>2. IsFiniteSet({f[x] : x \in Ends})
    BY <2>1, EndsFinite, ImageFinite
  <2>3. {f[x] : x \in Ends} = Vertexes
    BY <2>1, EndsFinite
  <2>4. Vertexes \in SUBSET Nat
    BY EndsFinite
  <2> QED BY <2>2, <2>3, <2>4
<1>2. PICK r \in Rank : \E ix \in 1 .. Len(edges[r]), k \in {1, 2} : Power[BitsOf(edges[r][ix][k])] >= Size
  BY BigVertex
<1>3. PICK ix \in 1 .. Len(edges[r]), k \in {1, 2} : Power[BitsOf(edges[r][ix][k])] >= Size
  BY <1>2
<1>4. edges[r][ix][k] \in Vertexes
  <2>1. ix \in DOMAIN edges[r]
    BY EdgesTyped
  <2> QED BY <2>1 DEF Vertexes
<1>5. top \in Vertexes /\ \A y \in Vertexes : y <= top
  BY <1>1, <1>4, FiniteMax
<1>6. top \in Nat
  BY <1>1, <1>5
<1> HIDE DEF top
<1>7. Power[BitsOf(top)] >= Size
  <2> DEFINE a == edges[r][ix][k]
  <2>1. a \in Nat /\ a <= top
    BY <1>1, <1>4, <1>5
  <2>2. Power[BitsOf(a)] >= Size
    BY <1>3
  <2> HIDE DEF a
  <2>3. Power[BitsOf(a)] <= Power[BitsOf(top)] /\ Power[BitsOf(a)] \in Nat /\ Power[BitsOf(top)] \in Nat
    BY <1>6, <2>1, BitsGrow, BitsOfExact, PowerSteps
  <2> QED BY <2>2, <2>3, GridSize
<1>8. \A x \in Sends : From(x) \in 0 .. top
  <2> TAKE x \in Sends
  <2>1. From(x) \in Nat /\ From(x) \in Vertexes
    BY EndsFinite
  <2> QED BY <1>5, <1>6, <2>1
<1>9. top \in 0 .. top
  BY <1>6
<1>10. \A w \in 0 .. top : OrigLocalVerts(top) \in Nat /\ OrigLocalVerts(top) > 0 /\ Local(w) < OrigLocalVerts(top)
  BY <1>6, <1>7, LocalNumbersFit
<1> QED BY <1>8, <1>9, <1>10 DEF top

-----------------------------------------------------------------------------
(* The order of the collective operations *)

Places == {"max", "scan", "layout", "store", "sources", "targets", "bits", "sum", "done"}
Converting == {"sources", "targets"}  \* within an iteration of the second pass
Between == {"store", "bits"}          \* between two of them or after the last

\* Where two ranks can be at the same time, with how many chunks done.
Abreast(p, k, q, l) ==
  /\ p = "max" => q = "max" /\ k = 0
  /\ p = "scan" => q = "scan" /\ k = l /\ k <= NumLoops
  /\ p = "layout" => q = "layout" \/ (q = "store" /\ l = 0)
  /\ p = "store" => k <= NumLoops
  /\ p \in {"bits", "sum", "done"} => k = NumLoops
  /\ p \in Between => \/ q = "layout" /\ p = "store"
                      \/ q \in Between /\ l = k
                      \/ q \in Converting /\ k = l + 1
                      \/ q = "sum" /\ p = "bits"
  /\ p \in Converting => k < NumLoops /\ q \in Converting \cup Between /\ (q \in Converting => l = k)
  /\ p = "sum" => q \in {"bits", "sum"}
  /\ p = "done" => q = "done"

Shaped == DOMAIN array = Rank /\ DOMAIN isolated = Rank /\ DOMAIN rowStarts = Rank
PhaseOK ==
  /\ EdgesOK /\ Shaped
  /\ place \in [Rank -> Places] /\ loop \in [Rank -> Nat]
  /\ \A r, s \in Rank : Abreast(place[r], loop[r], place[s], loop[s])

LEMMA ListSame ==
  ASSUME edges' = edges, reordering' = reordering
  PROVE  /\ EdgesOK' = EdgesOK /\ Sends' = Sends /\ NumLoops' = NumLoops /\ Vertexes' = Vertexes
         /\ \A x : From(x)' = From(x) /\ To(x)' = To(x)
BY DEF EdgesOK, Sends, NumLoops, MaxEdges, From, To, Vertexes

\* The edge list stays what it is.
LEMMA EdgesStay ==
  ASSUME [BuildNext]_buildVars
  PROVE  edges' = edges /\ reordering' = reordering
BY DEF BuildNext, buildVars, SearchMaxVertex, ScanEdges, ChooseOrder, GatherLayout, ScatterEdges,
       ConvertSources, ConvertTargetsAndAdd, FormRows, ReduceBits, SumVertices, Built

\* A group of ranks moves from one place to another, the others stay.
Moves(G, p, q, l) ==
  /\ \A r \in G : place[r] = p
  /\ place' = [r \in Rank |-> IF r \in G THEN q ELSE place[r]]
  /\ loop' = [r \in Rank |-> IF r \in G THEN l[r] ELSE loop[r]]

LEMMA ShapeStep ==
  ASSUME Shaped, [BuildNext]_buildVars
  PROVE  Shaped'
<1> USE DEF Shaped
<1>1. CASE SearchMaxVertex
  BY <1>1 DEF SearchMaxVertex, csrVars
<1>2. CASE ScanEdges
  BY <1>2 DEF ScanEdges, csrVars
<1>3. CASE ChooseOrder
  BY <1>3 DEF ChooseOrder, csrVars
<1>4. ASSUME NEW g \in Rank, GatherLayout(g) PROVE Shaped'
  <2>1. isolated' = isolated /\ rowStarts' = rowStarts
    BY <1>4 DEF GatherLayout, csrVars
  <2>2. DOMAIN array' = Rank
    BY <1>4 DEF GatherLayout, Within
  <2> QED BY <2>1, <2>2
<1>5. CASE ScatterEdges
  BY <1>5 DEF ScatterEdges, csrVars
<1>6. ASSUME NEW g \in Rank, ConvertSources(g) PROVE Shaped'
  BY <1>6 DEF ConvertSources, csrVars
<1>7. ASSUME NEW g \in Rank, ConvertTargetsAndAdd(g) PROVE Shaped'
  <2>1. isolated' = isolated /\ rowStarts' = rowStarts
    BY <1>7 DEF ConvertTargetsAndAdd, csrVars
  <2>2. DOMAIN array' = Rank
    BY <1>7 DEF ConvertTargetsAndAdd, Within
  <2> QED BY <2>1, <2>2
<1>8. ASSUME NEW g \in Rank, FormRows(g) PROVE Shaped'
  <2>1. PICK x, y, z : /\ isolated' = [isolated EXCEPT ![g] = x] /\ array' = [array EXCEPT ![g] = y]
                       /\ rowStarts' = [rowStarts EXCEPT ![g] = z]
    BY <1>8 DEF FormRows
  <2> QED BY <2>1
<1>9. ASSUME NEW g \in Rank, ReduceBits(g) PROVE Shaped'
  BY <1>9 DEF ReduceBits, csrVars
<1>10. CASE SumVertices
  BY <1>10 DEF SumVertices, csrVars
<1>11. CASE UNCHANGED buildVars
  BY <1>11 DEF buildVars, csrVars
<1>12. Built => UNCHANGED buildVars
  BY DEF Built
<1> QED BY <1>1, <1>2, <1>3, <1>4, <1>5, <1>6, <1>7, <1>8, <1>9, <1>10, <1>11, <1>12 DEF BuildNext

LEMMA PhaseInit == BuildInit => PhaseOK
<1> SUFFICES ASSUME BuildInit PROVE PhaseOK
  OBVIOUS
<1>1. place = [r \in Rank |-> "max"] /\ loop = [r \in Rank |-> 0] /\ EdgesOK
  BY DEF BuildInit, EdgesOK
<1>2. place \in [Rank -> Places] /\ loop \in [Rank -> Nat]
  BY <1>1 DEF Places
<1>3. \A r, s \in Rank : Abreast(place[r], loop[r], place[s], loop[s])
  BY <1>1 DEF Abreast, Between, Converting
<1>4. Shaped
  BY DEF BuildInit, Shaped
<1> QED BY <1>1, <1>2, <1>3, <1>4 DEF PhaseOK

LEMMA PhaseStep ==
  ASSUME PhaseOK, [BuildNext]_buildVars
  PROVE  PhaseOK'
<1>1. /\ EdgesOK /\ EdgesOK' /\ NumLoops' = NumLoops /\ NumLoops \in Nat /\ NumLoops > 0
      /\ place \in [Rank -> Places] /\ loop \in [Rank -> Nat] /\ Shaped'
      /\ \A r, s \in Rank : Abreast(place[r], loop[r], place[s], loop[s])
  BY EdgesStay, ListSame, LoopCount, ShapeStep DEF PhaseOK
<1> DEFINE n == NumLoops
           Goal == /\ place' \in [Rank -> Places] /\ loop' \in [Rank -> Nat]
                   /\ \A r, s \in Rank : Abreast(place'[r], loop'[r], place'[s], loop'[s])
<1>2. Goal => PhaseOK'
  BY <1>1 DEF PhaseOK, Abreast
<1> USE DEF Abreast, Converting, Between, Places
<1>3. CASE SearchMaxVertex
  <2>1. place' = [r \in Rank |-> "scan"] /\ loop' = loop /\ \A r \in Rank : place[r] = "max"
    BY <1>3 DEF SearchMaxVertex, AllAt
  <2>2. \A r \in Rank : loop[r] = 0
    BY <1>1, <2>1
  <2> QED BY <1>1, <1>2, <2>1, <2>2
<1>4. CASE ScanEdges
  <2>1. /\ place' = place /\ loop' = [r \in Rank |-> loop[r] + 1]
        /\ \A r \in Rank : place[r] = "scan" /\ loop[r] < NumLoops
    BY <1>4 DEF ScanEdges, AllAt
  <2> QED BY <1>1, <1>2, <2>1
<1>5. CASE ChooseOrder
  <2>1. /\ place' = [r \in Rank |-> "layout"] /\ loop' = loop
        /\ \A r \in Rank : place[r] = "scan" /\ loop[r] = NumLoops
    BY <1>5 DEF ChooseOrder, AllAt
  <2> QED BY <1>1, <1>2, <2>1
<1>6. ASSUME NEW g \in Rank, GatherLayout(g) PROVE Goal
  <2> DEFINE G == Across(g)
  <2>1. /\ \A r \in G : place[r] = "layout"
        /\ place' = [r \in Rank |-> IF r \in G THEN "store" ELSE place[r]]
        /\ loop' = [r \in Rank |-> IF r \in G THEN 0 ELSE loop[r]]
        /\ g \in G
    BY <1>6 DEF GatherLayout, AllAt, Within, Across
  <2> HIDE DEF G
  <2>2. \A r \in Rank : place[r] = "layout" \/ (place[r] = "store" /\ loop[r] = 0)
    BY <1>1, <2>1
  <2>3. place' \in [Rank -> Places] /\ loop' \in [Rank -> Nat]
    BY <1>1, <2>1
  <2>4. \A r \in Rank : place'[r] \in {"layout", "store"} /\ (place'[r] = "store" => loop'[r] = 0)
    BY <2>1, <2>2
  <2> QED BY <1>1, <2>3, <2>4
<1>7. CASE ScatterEdges
  <2>1. /\ place' = [r \in Rank |-> "sources"] /\ loop' = loop
        /\ \A r \in Rank : place[r] = "store" /\ loop[r] < NumLoops
    BY <1>7 DEF ScatterEdges, AllAt
  <2> QED BY <1>1, <1>2, <2>1
<1>8. ASSUME NEW g \in Rank, ConvertSources(g) PROVE Goal
  <2> DEFINE G == Across(g)
  <2>1. /\ \A r \in G : place[r] = "sources"
        /\ place' = [r \in Rank |-> IF r \in G THEN "targets" ELSE place[r]]
        /\ loop' = loop
    BY <1>8 DEF ConvertSources, AllAt, Within
  <2> HIDE DEF G
  <2>2. \A r \in Rank : place'[r] = place[r] \/ (place[r] = "sources" /\ place'[r] = "targets")
    BY <1>1, <2>1
  <2>3. place' \in [Rank -> Places] /\ loop' \in [Rank -> Nat]
    BY <1>1, <2>1
  <2> QED BY <1>1, <2>1, <2>2, <2>3
<1>9. ASSUME NEW g \in Rank, ConvertTargetsAndAdd(g) PROVE Goal
  <2> DEFINE G == Along(g)
  <2>1. /\ \A r \in G : place[r] = "targets"
        /\ place' = [r \in Rank |-> IF r \in G THEN "store" ELSE place[r]]
        /\ loop' = [r \in Rank |-> IF r \in G THEN loop[r] + 1 ELSE loop[r]]
        /\ g \in G
    BY <1>9 DEF ConvertTargetsAndAdd, AllAt, Within, Along
  <2> HIDE DEF G
  <2>2. \A r \in Rank : \/ place'[r] = place[r] /\ loop'[r] = loop[r]
                        \/ place[r] = "targets" /\ place'[r] = "store" /\ loop'[r] = loop[r] + 1
    BY <1>1, <2>1
  <2>3. place' \in [Rank -> Places] /\ loop' \in [Rank -> Nat]
    BY <1>1, <2>1
  <2>4. PICK h \in Rank : place[h] = "targets"
    BY <2>1
  <2>5. /\ loop[h] \in Nat /\ loop[h] < NumLoops
        /\ \A r \in Rank : place[r] \in Converting \cup Between /\ (place[r] \in Converting => loop[r] = loop[h])
                           /\ (place[r] \in Between => loop[r] = loop[h] + 1)
    BY <1>1, <2>4
  <2>6. \A r \in Rank : /\ place'[r] \in Converting \cup Between
                        /\ (place'[r] \in Converting => loop'[r] = loop[h])
                        /\ (place'[r] \in Between => loop'[r] = loop[h] + 1)
                        /\ (place'[r] = "bits" => loop'[r] = NumLoops)
    BY <1>1, <2>2, <2>5
  <2> QED BY <1>1, <2>3, <2>5, <2>6
<1>10. ASSUME NEW g \in Rank, FormRows(g) PROVE Goal
  <2>1. /\ place[g] = "store" /\ loop[g] = NumLoops
        /\ place' = [place EXCEPT ![g] = "bits"] /\ loop' = loop
    BY <1>10 DEF FormRows
  <2>2. place' \in [Rank -> Places] /\ loop' \in [Rank -> Nat]
    BY <1>1, <2>1
  <2>3. place'[g] = "bits" /\ \A r \in Rank : r # g => place'[r] = place[r]
    BY <1>1, <2>1
  <2>4. \A r \in Rank : place[r] \in Converting \cup Between
    BY <1>1, <2>1
  <2> QED BY <1>1, <2>1, <2>2, <2>3, <2>4
<1>11. ASSUME NEW g \in Rank, ReduceBits(g) PROVE Goal
  <2> DEFINE G == Across(g)
  <2>1. /\ \A r \in G : place[r] = "bits"
        /\ \A r \in Rank : place[r] \in {"bits", "sum"}
        /\ place' = [r \in Rank |-> IF r \in G THEN "sum" ELSE place[r]]
        /\ loop' = loop
    BY <1>11 DEF ReduceBits, AllAt, Within
  <2> HIDE DEF G
  <2>2. \A r \in Rank : place'[r] \in {"bits", "sum"} /\ loop'[r] = NumLoops
    BY <1>1, <2>1
  <2>3. place' \in [Rank -> Places] /\ loop' \in [Rank -> Nat]
    BY <1>1, <2>1
  <2> QED BY <1>1, <2>1, <2>2, <2>3
<1>12. CASE SumVertices
  <2>1. /\ place' = [r \in Rank |-> "done"] /\ loop' = loop
        /\ \A r \in Rank : place[r] = "sum"
    BY <1>12 DEF SumVertices, AllAt
  <2> QED BY <1>1, <1>2, <2>1
<1>13. CASE UNCHANGED buildVars
  <2>1. place' = place /\ loop' = loop
    BY <1>13 DEF buildVars
  <2> QED BY <1>1, <1>2, <2>1
<1>14. Built => UNCHANGED buildVars
  BY DEF Built
<1> HIDE DEF Goal
<1> QED BY <1>2, <1>3, <1>4, <1>5, <1>6, <1>7, <1>8, <1>9, <1>10, <1>11, <1>12, <1>13, <1>14 DEF BuildNext

-----------------------------------------------------------------------------
(* The first pass *)

Read(x) == (x[2] - 1) \div Chunk       \* the iteration that sends x
Owned(r, n) == {x \in Sends : Owner(From(x)) = r /\ Read(x) < n}
First == {"max", "scan"}
Scanned(r) == IF place[r] \in First THEN loop[r] ELSE NumLoops

CountOK ==
  /\ rows = [r \in Rank |-> {DegreeEntry(x) : x \in Owned(r, Scanned(r))}]
  /\ \A r \in Rank : place[r] # "max" =>
       numOrig \in Nat /\ numOrig > 0 /\ \A x \in Sends : Local(From(x)) < numOrig

LEMMA EntriesSame ==
  ASSUME edges' = edges, reordering' = reordering
  PROVE  /\ \A r, n : Owned(r, n)' = Owned(r, n)
         /\ \A x : DegreeEntry(x)' = DegreeEntry(x)
<1>1. Sends' = Sends /\ \A x : From(x)' = From(x) /\ To(x)' = To(x)
  BY ListSame
<1>2. \A r, n : Owned(r, n)' = Owned(r, n)
  BY <1>1 DEF Owned, From, Read
<1>3. \A x : DegreeEntry(x)' = DegreeEntry(x)
  BY <1>1 DEF DegreeEntry, From, To
<1> QED BY <1>2, <1>3

\* After the first pass the ranks stay behind it.
LEMMA LaterSteps ==
  ASSUME PhaseOK, [BuildNext]_buildVars
  PROVE  \/ SearchMaxVertex \/ ScanEdges \/ ChooseOrder
         \/ /\ rows' = rows /\ numOrig' = numOrig /\ numLocal' = numLocal /\ vertexes' = vertexes
            /\ \A r \in Rank : \/ place'[r] = place[r] /\ loop'[r] = loop[r]
                               \/ place[r] \notin First /\ place'[r] \notin First
<1> DEFINE Same == rows' = rows /\ numOrig' = numOrig /\ numLocal' = numLocal /\ vertexes' = vertexes
           Later == \A r \in Rank : \/ place'[r] = place[r] /\ loop'[r] = loop[r]
                                    \/ place[r] \notin First /\ place'[r] \notin First
<1>1. place \in [Rank -> Places] /\ loop \in [Rank -> Nat]
  BY DEF PhaseOK
<1> USE DEF First
<1>2. ASSUME NEW g \in Rank, GatherLayout(g) PROVE Same /\ Later
  BY <1>2 DEF GatherLayout, degreeVars, Within, AllAt
<1>3. CASE ScatterEdges
  BY <1>3 DEF ScatterEdges, degreeVars, layoutVars, AllAt
<1>4. ASSUME NEW g \in Rank, ConvertSources(g) PROVE Same /\ Later
  BY <1>4 DEF ConvertSources, degreeVars, layoutVars, Within, AllAt
<1>5. ASSUME NEW g \in Rank, ConvertTargetsAndAdd(g) PROVE Same /\ Later
  BY <1>5 DEF ConvertTargetsAndAdd, degreeVars, layoutVars, Within, AllAt
<1>6. ASSUME NEW g \in Rank, FormRows(g) PROVE Same /\ Later
  <2>1. Same /\ loop' = loop /\ place' = [place EXCEPT ![g] = "bits"] /\ place[g] = "store"
    BY <1>6 DEF FormRows, degreeVars, layoutVars
  <2> QED BY <1>1, <2>1
<1>7. ASSUME NEW g \in Rank, ReduceBits(g) PROVE Same /\ Later
  BY <1>7 DEF ReduceBits, degreeVars, layoutVars, Within, AllAt
<1>8. CASE SumVertices
  BY <1>8 DEF SumVertices, degreeVars, layoutVars, AllAt
<1>9. CASE UNCHANGED buildVars
  BY <1>9 DEF buildVars, degreeVars, layoutVars
<1>10. Built => UNCHANGED buildVars
  BY DEF Built
<1> HIDE DEF Same, Later
<1> QED BY <1>2, <1>3, <1>4, <1>5, <1>6, <1>7, <1>8, <1>9, <1>10 DEF BuildNext, Same, Later

LEMMA CountInit ==
  ASSUME PhaseOK, BuildInit
  PROVE  CountOK
<1>1. /\ place = [r \in Rank |-> "max"] /\ loop = [r \in Rank |-> 0]
      /\ rows = [r \in Rank |-> {}]
  BY DEF BuildInit
<1>2. ASSUME NEW r \in Rank PROVE {DegreeEntry(x) : x \in Owned(r, Scanned(r))} = {}
  <2>1. Scanned(r) = 0
    BY <1>1 DEF Scanned, First
  <2>2. ASSUME NEW x \in Sends PROVE ~ (Read(x) < 0)
    <3>1. Read(x) \in Nat
      BY SendsTyped DEF Read, PhaseOK
    <3> QED BY <3>1
  <2>3. Owned(r, 0) = {}
    BY <2>2 DEF Owned
  <2> QED BY <2>1, <2>3
<1>3. rows = [r \in Rank |-> {DegreeEntry(x) : x \in Owned(r, Scanned(r))}]
  BY <1>1, <1>2
<1> QED BY <1>1, <1>3 DEF CountOK

LEMMA CountStep ==
  ASSUME RanksFit, PhaseOK, CountOK, [BuildNext]_buildVars
  PROVE  CountOK'
<1>1. /\ EdgesOK /\ NumLoops \in Nat /\ NumLoops > 0
      /\ place \in [Rank -> Places] /\ loop \in [Rank -> Nat]
      /\ \A r, s \in Rank : Abreast(place[r], loop[r], place[s], loop[s])
  BY LoopCount DEF PhaseOK
<1>2. /\ Sends' = Sends /\ NumLoops' = NumLoops
      /\ (\A x : From(x)' = From(x) /\ DegreeEntry(x)' = DegreeEntry(x))
      /\ \A r, n : Owned(r, n)' = Owned(r, n)
  BY EdgesStay, ListSame, EntriesSame
<1> DEFINE Rows == rows' = [r \in Rank |-> {DegreeEntry(x) : x \in Owned(r, Scanned(r)')}]
           Orig == \A r \in Rank : place'[r] # "max" =>
                     numOrig' \in Nat /\ numOrig' > 0 /\ \A x \in Sends : Local(From(x)) < numOrig'
<1>3. Rows /\ Orig => CountOK'
  <2>1. SUFFICES ASSUME Rows, Orig PROVE CountOK'
    OBVIOUS
  <2>2. (\A r \in Rank : place[r] # "max" =>
           numOrig \in Nat /\ numOrig > 0 /\ \A x \in Sends : Local(From(x)) < numOrig)'
    BY <1>2, <2>1 DEF Local, From
  <2>3. (rows = [r \in Rank |-> {DegreeEntry(x) : x \in Owned(r, Scanned(r))}])'
    <3>1. \A r \in Rank : {DegreeEntry(x) : x \in Owned(r, Scanned(r)')} = {DegreeEntry(x)' : x \in Owned(r, Scanned(r)')}
      BY <1>2
    <3>2. \A r \in Rank : {DegreeEntry(x)' : x \in Owned(r, Scanned(r)')} = {DegreeEntry(x)' : x \in (Owned(r, Scanned(r)))'}
      BY <1>2 DEF Owned, From, Read
    <3> QED BY <2>1, <3>1, <3>2
  <2> QED BY <2>2, <2>3 DEF CountOK
<1>4. CASE SearchMaxVertex
  <2>1. /\ \A r \in Rank : place[r] = "max"
        /\ place' = [r \in Rank |-> "scan"] /\ loop' = loop /\ rows' = rows
        /\ numOrig' = OrigLocalVerts(Max(Vertexes))
    BY <1>4 DEF SearchMaxVertex, AllAt
  <2>2. \A r \in Rank : Scanned(r)' = Scanned(r)
    BY <2>1 DEF Scanned, First
  <2>3. Rows
    BY <2>1, <2>2 DEF CountOK
  <2>4. Orig
    BY <1>1, <2>1, NumOrigEnough
  <2> QED BY <1>3, <2>3, <2>4
<1>5. CASE ScanEdges
  <2>1. /\ \A r \in Rank : place[r] = "scan" /\ loop[r] < NumLoops
        /\ place' = place /\ loop' = [r \in Rank |-> loop[r] + 1] /\ numOrig' = numOrig
        /\ rows' = [r \in Rank |-> rows[r] \cup {DegreeEntry(x) : x \in {x \in SentNow : Owner(From(x)) = r}}]
    BY <1>5 DEF ScanEdges, AllAt
  <2>2. ASSUME NEW r \in Rank
        PROVE  rows[r] \cup {DegreeEntry(x) : x \in {x \in SentNow : Owner(From(x)) = r}}
                 = {DegreeEntry(x) : x \in Owned(r, Scanned(r)')}
    <3>1. Scanned(r) = loop[r] /\ Scanned(r)' = loop[r] + 1
      BY <2>1 DEF Scanned, First
    <3>2. rows[r] = {DegreeEntry(x) : x \in Owned(r, loop[r])}
      BY <3>1 DEF CountOK
    <3>3. ASSUME NEW x \in Sends PROVE Read(x) < loop[r] + 1 <=> Read(x) < loop[r] \/ Read(x) = loop[x[1]]
      <4>1. Read(x) \in Nat /\ x[1] \in Rank
        BY <1>1, SendsTyped DEF Read
      <4>2. loop[x[1]] = loop[r] /\ loop[r] \in Nat
        BY <1>1, <2>1, <4>1 DEF Abreast
      <4> QED BY <4>1, <4>2
    <3>4. Owned(r, loop[r] + 1) = Owned(r, loop[r]) \cup {x \in SentNow : Owner(From(x)) = r}
      BY <3>3 DEF Owned, SentNow, Read
    <3> QED BY <3>1, <3>2, <3>4
  <2>3. Rows
    BY <2>1, <2>2
  <2>4. Orig
    BY <2>1 DEF CountOK
  <2> QED BY <1>3, <2>3, <2>4
<1>6. CASE ChooseOrder
  <2>1. /\ \A r \in Rank : place[r] = "scan" /\ loop[r] = NumLoops
        /\ place' = [r \in Rank |-> "layout"] /\ loop' = loop /\ rows' = rows /\ numOrig' = numOrig
    BY <1>6 DEF ChooseOrder, AllAt, degreeVars
  <2>2. \A r \in Rank : Scanned(r)' = Scanned(r)
    BY <1>2, <2>1 DEF Scanned, First
  <2>3. Rows
    BY <2>1, <2>2 DEF CountOK
  <2>4. Orig
    BY <2>1 DEF CountOK
  <2> QED BY <1>3, <2>3, <2>4
<1>7. CASE /\ rows' = rows /\ numOrig' = numOrig
           /\ \A r \in Rank : \/ place'[r] = place[r] /\ loop'[r] = loop[r]
                              \/ place[r] \notin First /\ place'[r] \notin First
  <2>1. \A r \in Rank : Scanned(r)' = Scanned(r)
    BY <1>2, <1>7 DEF Scanned, First
  <2>2. Rows
    BY <1>7, <2>1 DEF CountOK
  <2>3. Orig
    BY <1>7 DEF CountOK, First
  <2> QED BY <1>3, <2>2, <2>3
<1> QED BY <1>4, <1>5, <1>6, <1>7, LaterSteps

-----------------------------------------------------------------------------
(* The order of the vertices *)

\* What the ranks have chosen: all their vertices, in some order, of which the
\* vertices with an edge are among the first numLocal.
OrderOK ==
  \A r \in Rank : place[r] \notin First =>
    /\ vertexes[r] \in [Locals -> Locals]
    /\ \A ix, j \in Locals : vertexes[r][ix] = vertexes[r][j] => ix = j
    /\ \E n \in Nat : numLocal = Part * n
    /\ \A ix \in Locals : \A e \in rows[r] : e.v = vertexes[r][ix] => ix < numLocal

LEMMA RowsFinite ==
  ASSUME PhaseOK, CountOK, NEW r \in Rank
  PROVE  IsFiniteSet(rows[r])
<1> DEFINE S == Owned(r, Scanned(r))
           f == [x \in S |-> DegreeEntry(x)]
<1>1. S \in SUBSET Sends /\ IsFiniteSet(Sends)
  BY EndsFinite DEF Owned, PhaseOK
<1>2. IsFiniteSet(S)
  <2> HIDE DEF S
  <2> QED BY <1>1, FS_Subset
<1>3. rows[r] = {f[x] : x \in S}
  BY DEF CountOK
<1>4. f = [x \in S |-> f[x]]
  OBVIOUS
<1> HIDE DEF f, S
<1>5. IsFiniteSet({f[x] : x \in S})
  BY <1>2, <1>4, ImageFinite
<1> QED BY <1>3, <1>5

LEMMA LocalsFinite ==
  ASSUME numOrig \in Nat
  PROVE  IsFiniteSet(Locals) /\ Cardinality(Locals) = numOrig
<1>1. 0 \in Int /\ numOrig - 1 \in Int
  OBVIOUS
<1>2. /\ IsFiniteSet(0 .. (numOrig - 1))
      /\ Cardinality(0 .. (numOrig - 1)) = IF 0 > numOrig - 1 THEN 0 ELSE (numOrig - 1) - 0 + 1
  BY <1>1, FS_Interval
<1> QED BY <1>2 DEF Locals

\* The vertices in use are counted in units, at least up to the last with an
\* edge.
LEMMA UsedEnough ==
  ASSUME PhaseOK, CountOK, NEW r \in Rank, numOrig \in Nat, NEW f \in [Locals -> Locals]
  PROVE  /\ UsedLocals(r, f) \in Nat
         /\ \E n \in Nat : UsedLocals(r, f) = Part * n
         /\ \A ix \in Locals : \A e \in rows[r] : e.v = f[ix] => ix < UsedLocals(r, f)
<1> DEFINE used == {ix \in Locals : Degree(r)[f[ix]] # 0}
           below == {ix \in Locals : \E j \in used : ix <= j}
           n == Cardinality(below)
<1>1. IsFiniteSet(below) /\ n \in Nat
  <2>1. below \in SUBSET Locals
    OBVIOUS
  <2> HIDE DEF below
  <2> QED BY <2>1, LocalsFinite, FS_Subset, FS_CardinalityType
<1>2. UsedLocals(r, f) = RoundUp(n, Unit)
  BY DEF UsedLocals
<1>3. Unit \in Nat /\ Unit > 0 /\ Part \in Nat /\ Part > 0 /\ Unit % Part = 0
  BY ConstructAssumption
<1>4. ASSUME NEW ix \in Locals, NEW e \in rows[r], e.v = f[ix] PROVE ix < n
  <2> DEFINE v == f[ix]
             S == {x \in rows[r] : x.v = v}
  <2>1. v \in Locals /\ ix \in Nat
    BY DEF Locals
  <2>2. IsFiniteSet(S) /\ e \in S
    <3>1. S \in SUBSET rows[r] /\ e \in S
      BY <1>4
    <3> HIDE DEF S
    <3> QED BY <3>1, RowsFinite, FS_Subset
  <2>3. Cardinality(S) # 0
    <3> HIDE DEF S
    <3> QED BY <2>2, FS_EmptySet
  <2>4. Degree(r)[v] = Cardinality(S)
    <3> HIDE DEF v
    <3> QED BY <2>1 DEF Degree
  <2>5. ix \in used
    BY <2>3, <2>4
  <2>6. 0 .. ix \in SUBSET below
    <3>1. \A j \in 0 .. ix : j \in Locals /\ j <= ix
      BY <2>1 DEF Locals
    <3> HIDE DEF used
    <3> QED BY <2>5, <3>1
  <2>7. IsFiniteSet(0 .. ix) /\ Cardinality(0 .. ix) = ix + 1
    <3>1. 0 \in Int /\ ix \in Int
      BY <2>1
    <3>2. IsFiniteSet(0 .. ix) /\ Cardinality(0 .. ix) = IF 0 > ix THEN 0 ELSE ix - 0 + 1
      BY <3>1, FS_Interval
    <3> QED BY <2>1, <3>2
  <2>8. ix + 1 <= n
    <3> HIDE DEF below
    <3>1. Cardinality(0 .. ix) <= Cardinality(below)
      BY <1>1, <2>6, FS_Subset
    <3> QED BY <2>7, <3>1
  <2> HIDE DEF below
  <2> QED BY <1>1, <2>1, <2>8
<1> HIDE DEF n
<1>5. RoundUp(n, Unit) \in Nat /\ RoundUp(n, Unit) >= n /\ \E q \in Nat : RoundUp(n, Unit) = Unit * q
  BY <1>1, <1>3, RoundUpExact
<1>6. PICK q \in Nat : RoundUp(n, Unit) = Unit * q
  BY <1>5
<1>7. \E k \in Nat : Unit = Part * k
  <2> DEFINE k == Unit \div Part
             m == Unit % Part
  <2>1. k \in Nat /\ Unit = Part * k + m /\ m = 0
    BY <1>3, DivisionMod
  <2> HIDE DEF k, m
  <2>2. Part * k \in Nat
    BY <1>3, <2>1
  <2> QED BY <2>1, <2>2
<1>8. PICK k \in Nat : Unit = Part * k
  BY <1>7
<1>9. (Part * k) * q = Part * (k * q) /\ k * q \in Nat
  BY <1>3
<1>10. \A ix \in Locals : ix \in Nat
  BY DEF Locals
<1>11. \A ix \in Locals : \A e \in rows[r] : e.v = f[ix] => ix < RoundUp(n, Unit)
  BY <1>1, <1>4, <1>5, <1>10
<1> QED BY <1>2, <1>5, <1>6, <1>8, <1>9, <1>11

LEMMA OrderInit ==
  ASSUME BuildInit
  PROVE  OrderOK
BY DEF BuildInit, OrderOK, First

LEMMA OrderStep ==
  ASSUME PhaseOK, CountOK, OrderOK, [BuildNext]_buildVars
  PROVE  OrderOK'
<1>1. place \in [Rank -> Places] /\ EdgesOK
  BY DEF PhaseOK
<1>2. CASE SearchMaxVertex
  <2>1. place' = [r \in Rank |-> "scan"]
    BY <1>2 DEF SearchMaxVertex
  <2> QED BY <2>1 DEF OrderOK, First
<1>3. CASE ScanEdges
  <2>1. place' = place /\ \A r \in Rank : place[r] = "scan"
    BY <1>3 DEF ScanEdges, AllAt
  <2> QED BY <2>1 DEF OrderOK, First
<1>4. CASE ChooseOrder
  <2> DEFINE S == {UsedLocals(r, vertexes'[r]) : r \in Rank}
             f == [r \in Rank |-> UsedLocals(r, vertexes'[r])]
  <2>1. /\ \A r \in Rank : place[r] = "scan"
        /\ rows' = rows /\ numOrig' = numOrig
        /\ vertexes' \in {g \in [Rank -> UNION {Orders(r) : r \in Rank}] : \A r \in Rank : g[r] \in Orders(r)}
        /\ numLocal' = Max(S)
    BY <1>4 DEF ChooseOrder, AllAt, degreeVars
  <2>2. ASSUME NEW r \in Rank
        PROVE  /\ vertexes'[r] \in [Locals -> Locals]
               /\ \A ix, j \in Locals : vertexes'[r][ix] = vertexes'[r][j] => ix = j
    <3>1. vertexes'[r] \in Orders(r)
      BY <2>1
    <3> QED BY <3>1 DEF Orders, IsOrder
  <2>3. numOrig \in Nat
    <3>1. \A r \in Rank : place[r] # "max" /\ r \in Rank
      BY <2>1
    <3> QED BY <3>1, RankFinite DEF CountOK
  <2>4. ASSUME NEW r \in Rank
        PROVE  /\ f[r] \in Nat /\ \E n \in Nat : f[r] = Part * n
               /\ \A ix \in Locals : \A e \in rows[r] : e.v = vertexes'[r][ix] => ix < f[r]
    BY <2>2, <2>3, UsedEnough
  <2>5. S = {f[r] : r \in Rank} /\ f = [r \in Rank |-> f[r]]
    OBVIOUS
  <2> HIDE DEF f, S
  <2>6. IsFiniteSet(S) /\ S \in SUBSET Nat /\ S # {}
    <3>1. IsFiniteSet(S)
      BY <2>5, RankFinite, ImageFinite
    <3>2. S \in SUBSET Nat
      BY <2>4, <2>5
    <3>3. S # {}
      BY <2>5, RankFinite
    <3> QED BY <3>1, <3>2, <3>3
  <2>7. numLocal' \in S /\ \A y \in S : y <= numLocal'
    BY <2>1, <2>6, FiniteMax
  <2>8. numLocal' \in Nat /\ \E n \in Nat : numLocal' = Part * n
    BY <2>4, <2>5, <2>6, <2>7
  <2>9. ASSUME NEW r \in Rank, NEW ix \in Locals, NEW e \in rows[r], e.v = vertexes'[r][ix] PROVE ix < numLocal'
    <3>1. ix < f[r] /\ f[r] \in Nat /\ f[r] <= numLocal'
      BY <2>4, <2>5, <2>7, <2>9
    <3>2. ix \in Nat
      BY DEF Locals
    <3> QED BY <2>8, <3>1, <3>2
  <2>10. Locals' = Locals
    BY <2>1 DEF Locals
  <2>11. ASSUME NEW r \in Rank
        PROVE  /\ vertexes'[r] \in [Locals' -> Locals']
               /\ \A ix, j \in Locals' : vertexes'[r][ix] = vertexes'[r][j] => ix = j
               /\ \E n \in Nat : numLocal' = Part * n
               /\ \A ix \in Locals' : \A e \in rows'[r] : e.v = vertexes'[r][ix] => ix < numLocal'
    <3>1. \A ix \in Locals' : \A e \in rows'[r] : e.v = vertexes'[r][ix] => ix < numLocal'
      BY <2>1, <2>9, <2>10
    <3> QED BY <2>2, <2>8, <2>10, <3>1
  <2> QED BY <2>11 DEF OrderOK
<1>5. CASE /\ rows' = rows /\ numOrig' = numOrig /\ numLocal' = numLocal /\ vertexes' = vertexes
           /\ \A r \in Rank : \/ place'[r] = place[r] /\ loop'[r] = loop[r]
                              \/ place[r] \notin First /\ place'[r] \notin First
  <2>1. Locals' = Locals
    BY <1>5 DEF Locals
  <2>2. \A r \in Rank : place'[r] \notin First => place[r] \notin First
    BY <1>5
  <2> QED BY <1>5, <2>1, <2>2 DEF OrderOK
<1> QED BY <1>2, <1>3, <1>4, <1>5, LaterSteps

\* Every local number has a place in the order of its rank.
LEMMA ReorderedExact ==
  ASSUME PhaseOK, CountOK, OrderOK, NEW r \in Rank, place[r] \notin First
  PROVE  /\ \A v \in Locals : Reordered(r, v) \in Locals /\ vertexes[r][Reordered(r, v)] = v
         /\ \A ix \in Locals : vertexes[r][ix] \in Locals /\ Reordered(r, vertexes[r][ix]) = ix
         /\ \A v, u \in Locals : Reordered(r, v) = Reordered(r, u) => v = u
         /\ \A e \in rows[r] : e.v \in Locals /\ Reordered(r, e.v) < numLocal
<1> DEFINE f == vertexes[r]
<1>1. f \in [Locals -> Locals] /\ \A ix, j \in Locals : f[ix] = f[j] => ix = j
  BY DEF OrderOK
<1>2. numOrig \in Nat /\ \A x \in Sends : Local(From(x)) < numOrig
  BY DEF CountOK, First
<1>3. f \in Injection(Locals, Locals)
  <2> HIDE DEF f
  <2> QED BY <1>1 DEF Injection, IsInjective
<1>4. f \in Surjection(Locals, Locals)
  <2> HIDE DEF f
  <2> QED BY <1>2, <1>3, LocalsFinite, FS_Injection
<1>5. ASSUME NEW v \in Locals PROVE Reordered(r, v) \in Locals /\ vertexes[r][Reordered(r, v)] = v
  <2>1. \E ix \in Locals : vertexes[r][ix] = v
    BY <1>4 DEF Surjection
  <2> QED BY <2>1 DEF Reordered
<1>6. ASSUME NEW ix \in Locals PROVE vertexes[r][ix] \in Locals /\ Reordered(r, vertexes[r][ix]) = ix
  <2>1. vertexes[r][ix] \in Locals
    BY <1>1
  <2>2. Reordered(r, vertexes[r][ix]) \in Locals /\ vertexes[r][Reordered(r, vertexes[r][ix])] = vertexes[r][ix]
    BY <1>5, <2>1
  <2> QED BY <1>1, <2>1, <2>2
<1>7. ASSUME NEW e \in rows[r] PROVE e.v \in Locals /\ Reordered(r, e.v) < numLocal
  <2>1. PICK x \in Owned(r, Scanned(r)) : e = DegreeEntry(x)
    BY DEF CountOK
  <2>2. x \in Sends /\ e.v = Local(From(x))
    BY <2>1 DEF Owned, DegreeEntry
  <2>3. Local(From(x)) \in Nat /\ Local(From(x)) < numOrig
    BY <1>2, <2>2, SendsTyped, VertexParts DEF PhaseOK
  <2>4. e.v \in Locals
    BY <1>2, <2>2, <2>3 DEF Locals
  <2>5. Reordered(r, e.v) \in Locals /\ vertexes[r][Reordered(r, e.v)] = e.v
    BY <1>5, <2>4
  <2> QED BY <2>4, <2>5 DEF OrderOK
<1> QED BY <1>5, <1>6, <1>7

-----------------------------------------------------------------------------
(* The layout *)

Early == {"max", "scan", "layout"}

\* What the ranks have got from the ranks of their processor row.
LayoutOK ==
  \A r \in Rank : place[r] \notin Early =>
    counted[r] = WideStarts(r) /\ bitmap[r] = SetRows(r) /\ orig[r] = Names(r)

LEMMA LayoutSame ==
  ASSUME rows' = rows, numOrig' = numOrig, numLocal' = numLocal, vertexes' = vertexes
  PROVE  /\ Locals' = Locals /\ NumWide' = NumWide /\ WideRows' = WideRows
         /\ \A r : WideStarts(r)' = WideStarts(r) /\ SetRows(r)' = SetRows(r) /\ Names(r)' = Names(r)
         /\ \A r, v : Reordered(r, v)' = Reordered(r, v)
<1>1. Locals' = Locals /\ NumWide' = NumWide /\ WideRows' = WideRows
  BY DEF Locals, NumWide, WideRows
<1>2. \A r, v : Reordered(r, v)' = Reordered(r, v)
  BY <1>1 DEF Reordered
<1>3. \A r : WideStarts(r)' = WideStarts(r)
  BY <1>1, <1>2 DEF WideStarts, Lengths, RowLength, NumWide, WideRows, Reordered, Locals
<1>4. \A r : SetRows(r)' = SetRows(r)
  BY <1>1, <1>2 DEF SetRows, RowsFor, Reordered, Locals
<1>5. \A r : Names(r)' = Names(r)
  BY <1>1, <1>2 DEF Names, NamesFor, RowsFor, Reordered, Locals
<1> QED BY <1>1, <1>2, <1>3, <1>4, <1>5

\* Once the ranks have an order, what they build on it stays.
LEMMA OrderStays ==
  ASSUME PhaseOK, [BuildNext]_buildVars, NEW r \in Rank, place[r] \notin First
  PROVE  rows' = rows /\ numOrig' = numOrig /\ numLocal' = numLocal /\ vertexes' = vertexes
<1>1. \A q \in Rank : place[q] \notin First
  BY DEF PhaseOK, Abreast, First, Converting, Between, Places
<1>2. ~ SearchMaxVertex /\ ~ ScanEdges /\ ~ ChooseOrder
  BY RankFinite, <1>1 DEF SearchMaxVertex, ScanEdges, ChooseOrder, AllAt, First
<1> QED BY <1>2, LaterSteps

\* Each rank gets its layout once.
LEMMA LayoutStays ==
  ASSUME PhaseOK, [BuildNext]_buildVars, NEW r \in Rank
  PROVE  \/ place[r] \in Early /\ place'[r] \in Early
         \/ /\ place[r] = "layout" /\ place'[r] = "store" /\ loop'[r] = 0
            /\ counted'[r] = WideStarts(r) /\ bitmap'[r] = SetRows(r) /\ orig'[r] = Names(r)
            /\ wide'[r] = WideStarts(r) /\ recv'[r] = recv[r]
            /\ array'[r] = [p \in 0 .. WideStarts(r)[NumWide] - 1 |-> NoEdge]
         \/ /\ place[r] \notin Early /\ place'[r] \notin Early
            /\ counted'[r] = counted[r] /\ bitmap'[r] = bitmap[r] /\ orig'[r] = orig[r]
<1> DEFINE A == place[r] \in Early /\ place'[r] \in Early
           B == /\ place[r] = "layout" /\ place'[r] = "store" /\ loop'[r] = 0
                /\ counted'[r] = WideStarts(r) /\ bitmap'[r] = SetRows(r) /\ orig'[r] = Names(r)
                /\ wide'[r] = WideStarts(r) /\ recv'[r] = recv[r]
                /\ array'[r] = [p \in 0 .. WideStarts(r)[NumWide] - 1 |-> NoEdge]
           S == counted'[r] = counted[r] /\ bitmap'[r] = bitmap[r] /\ orig'[r] = orig[r]
           D == place[r] \notin Early /\ place'[r] \notin Early
<1>1. place \in [Rank -> Places]
  BY DEF PhaseOK
<1> USE DEF Early
<1>2. ASSUME SearchMaxVertex PROVE A
  BY <1>2 DEF SearchMaxVertex, AllAt
<1>3. ASSUME ScanEdges PROVE A
  BY <1>3 DEF ScanEdges, AllAt
<1>4. ASSUME ChooseOrder PROVE A
  BY <1>4 DEF ChooseOrder, AllAt
<1>5. ASSUME NEW g \in Rank, GatherLayout(g) PROVE A \/ B \/ (D /\ S)
  <2>1. CASE r \in Across(g)
    <3>1. place[r] = "layout" /\ place'[r] = "store" /\ loop'[r] = 0 /\ recv' = recv
      BY <1>5, <2>1 DEF GatherLayout, AllAt, Within
    <3>2. /\ counted'[r] = WideStarts(r) /\ bitmap'[r] = SetRows(r) /\ orig'[r] = Names(r)
          /\ wide'[r] = WideStarts(r)
      BY <1>5, <2>1 DEF GatherLayout, Within
    <3>3. array'[r] = [p \in 0 .. WideStarts(r)[NumWide] - 1 |-> NoEdge]
      BY <1>5, <2>1 DEF GatherLayout, Within
    <3> QED BY <3>1, <3>2, <3>3
  <2>2. CASE r \notin Across(g)
    <3>1. place'[r] = place[r] /\ S
      BY <1>5, <2>2 DEF GatherLayout, AllAt, Within
    <3> QED BY <3>1
  <2> QED BY <2>1, <2>2
<1>6. ASSUME ScatterEdges PROVE (A \/ D) /\ S
  BY <1>6 DEF ScatterEdges, layoutVars, AllAt
<1>7. ASSUME NEW g \in Rank, ConvertSources(g) PROVE (A \/ D) /\ S
  BY <1>7 DEF ConvertSources, layoutVars, Within, AllAt
<1>8. ASSUME NEW g \in Rank, ConvertTargetsAndAdd(g) PROVE (A \/ D) /\ S
  BY <1>8 DEF ConvertTargetsAndAdd, layoutVars, Within, AllAt
<1>9. ASSUME NEW g \in Rank, FormRows(g) PROVE (A \/ D) /\ S
  <2>1. S /\ place' = [place EXCEPT ![g] = "bits"] /\ place[g] = "store"
    BY <1>9 DEF FormRows, layoutVars
  <2> QED BY <1>1, <2>1
<1>10. ASSUME NEW g \in Rank, ReduceBits(g) PROVE (A \/ D) /\ S
  BY <1>10 DEF ReduceBits, layoutVars, Within, AllAt
<1>11. ASSUME SumVertices PROVE (A \/ D) /\ S
  BY <1>11 DEF SumVertices, layoutVars, AllAt
<1>12. ASSUME UNCHANGED buildVars PROVE (A \/ D) /\ S
  BY <1>12 DEF buildVars, layoutVars
<1>13. Built => UNCHANGED buildVars
  BY DEF Built
<1> HIDE DEF A, B, S, D
<1>14. (A /\ S) \/ (D /\ S) => A \/ B \/ (D /\ S)
  OBVIOUS
<1>15. A \/ B \/ (D /\ S)
  BY <1>2, <1>3, <1>4, <1>5, <1>6, <1>7, <1>8, <1>9, <1>10, <1>11, <1>12, <1>13 DEF BuildNext
<1> QED BY <1>15 DEF A, B, S, D

LEMMA LayoutInit ==
  ASSUME BuildInit
  PROVE  LayoutOK
BY DEF BuildInit, LayoutOK, Early

LEMMA LayoutStep ==
  ASSUME PhaseOK, LayoutOK, [BuildNext]_buildVars
  PROVE  LayoutOK'
<1> SUFFICES ASSUME NEW r \in Rank, place'[r] \notin Early
             PROVE  counted'[r] = WideStarts(r)' /\ bitmap'[r] = SetRows(r)' /\ orig'[r] = Names(r)'
  BY DEF LayoutOK
<1>1. place[r] \notin First
  BY LayoutStays DEF Early, First
<1>2. WideStarts(r)' = WideStarts(r) /\ SetRows(r)' = SetRows(r) /\ Names(r)' = Names(r)
  BY <1>1, OrderStays, LayoutSame
<1> QED BY <1>2, LayoutStays DEF LayoutOK

-----------------------------------------------------------------------------
(* The second pass *)

Filling == {"store", "sources", "targets"}

\* What is received for the edges that the list sends, before and after the
\* sources got their new numbers.
Number(v) == Reordered(Owner(v), Local(v))
Received(x)  == [id |-> x, c |-> OwnerC(From(x)), src |-> Local(From(x)),
                 r |-> OwnerR(To(x)), orig |-> Local(To(x))]
Converted(x) == [id |-> x, c |-> OwnerC(From(x)), src |-> Number(From(x)),
                 r |-> OwnerR(To(x)), orig |-> Local(To(x))]
SourceRowOf(x) == OwnerC(From(x)) * numLocal + Number(From(x))
RowOf(x)       == SourceRowOf(x) \div Part
Arriving(r, n) == {x \in Sends : Read(x) = n /\ EdgeOwner(From(x), To(x)) = r}
Kept(r, n)     == {x \in Sends : Read(x) < n /\ EdgeOwner(From(x), To(x)) = r}
InRow(r, n, h) == {x \in Kept(r, n) : RowOf(x) = h}

\* How a step fills the rows of a rank.
LEMMA FillSteps ==
  ASSUME PhaseOK, [BuildNext]_buildVars, NEW r \in Rank
  PROVE  \/ place'[r] \notin Filling
         \/ place[r] = "layout" /\ place'[r] = "store"
         \/ /\ place[r] = "store" /\ place'[r] = "sources"
            /\ loop'[r] = loop[r] /\ counted'[r] = counted[r] /\ wide'[r] = wide[r] /\ array'[r] = array[r]
            /\ recv'[r] = {Received(x) : x \in {x \in SentNow : EdgeOwner(From(x), To(x)) = r}}
            /\ \A s \in Rank : loop[s] = loop[r]
         \/ /\ place[r] = "sources" /\ place'[r] = "targets"
            /\ loop'[r] = loop[r] /\ counted'[r] = counted[r] /\ wide'[r] = wide[r] /\ array'[r] = array[r]
            /\ recv'[r] = {[e EXCEPT !.src = Reordered(Sender(r, e.c), e.src)] : e \in recv[r]}
         \/ /\ place[r] = "targets" /\ place'[r] = "store"
            /\ loop'[r] = loop[r] + 1 /\ counted'[r] = counted[r]
            /\ wide'[r] = Advanced(r) /\ array'[r] = Stored(r) /\ recv'[r] = {}
         \/ /\ place'[r] = place[r] /\ loop'[r] = loop[r] /\ counted'[r] = counted[r]
            /\ wide'[r] = wide[r] /\ array'[r] = array[r] /\ recv'[r] = recv[r]
<1> DEFINE Out == place'[r] \notin Filling
           L == place[r] = "layout" /\ place'[r] = "store"
           S == /\ place[r] = "store" /\ place'[r] = "sources"
                /\ loop'[r] = loop[r] /\ counted'[r] = counted[r] /\ wide'[r] = wide[r] /\ array'[r] = array[r]
                /\ recv'[r] = {Received(x) : x \in {x \in SentNow : EdgeOwner(From(x), To(x)) = r}}
                /\ \A s \in Rank : loop[s] = loop[r]
           T == /\ place[r] = "sources" /\ place'[r] = "targets"
                /\ loop'[r] = loop[r] /\ counted'[r] = counted[r] /\ wide'[r] = wide[r] /\ array'[r] = array[r]
                /\ recv'[r] = {[e EXCEPT !.src = Reordered(Sender(r, e.c), e.src)] : e \in recv[r]}
           A == /\ place[r] = "targets" /\ place'[r] = "store"
                /\ loop'[r] = loop[r] + 1 /\ counted'[r] = counted[r]
                /\ wide'[r] = Advanced(r) /\ array'[r] = Stored(r) /\ recv'[r] = {}
           U == /\ place'[r] = place[r] /\ loop'[r] = loop[r] /\ counted'[r] = counted[r]
                /\ wide'[r] = wide[r] /\ array'[r] = array[r] /\ recv'[r] = recv[r]
<1>1. /\ place \in [Rank -> Places] /\ loop \in [Rank -> Nat]
      /\ \A p, q \in Rank : Abreast(place[p], loop[p], place[q], loop[q])
  BY DEF PhaseOK
<1> USE DEF Filling
<1>2. ASSUME SearchMaxVertex PROVE Out
  BY <1>2 DEF SearchMaxVertex, AllAt
<1>3. ASSUME ScanEdges PROVE Out
  BY <1>3 DEF ScanEdges, AllAt
<1>4. ASSUME ChooseOrder PROVE Out
  BY <1>4 DEF ChooseOrder, AllAt
<1>5. ASSUME NEW g \in Rank, GatherLayout(g) PROVE L \/ U
  <2>1. CASE r \in Across(g)
    BY <1>5, <2>1 DEF GatherLayout, AllAt, Within
  <2>2. CASE r \notin Across(g)
    <3>1. place'[r] = place[r] /\ loop'[r] = loop[r] /\ recv' = recv
      BY <1>1, <1>5, <2>2 DEF GatherLayout, Within
    <3>2. wide'[r] = wide[r] /\ array'[r] = array[r] /\ counted'[r] = counted[r]
      BY <1>5, <2>2 DEF GatherLayout, Within
    <3> QED BY <3>1, <3>2
  <2> QED BY <2>1, <2>2
<1>6. ASSUME ScatterEdges PROVE S
  <2>1. /\ place[r] = "store" /\ place'[r] = "sources" /\ loop' = loop /\ counted' = counted
        /\ wide' = wide /\ array' = array /\ \A s \in Rank : place[s] = "store"
    BY <1>6 DEF ScatterEdges, layoutVars, AllAt
  <2>2. recv'[r] = {Received(x) : x \in {x \in SentNow : EdgeOwner(From(x), To(x)) = r}}
    BY <1>6 DEF ScatterEdges, Received
  <2>3. \A s \in Rank : loop[s] = loop[r]
    BY <1>1, <2>1 DEF Abreast, Between, Converting
  <2> QED BY <2>1, <2>2, <2>3
<1>7. ASSUME NEW g \in Rank, ConvertSources(g) PROVE T \/ U
  <2>1. loop' = loop /\ counted' = counted /\ wide' = wide /\ array' = array
    BY <1>7 DEF ConvertSources, layoutVars
  <2>2. CASE r \in Across(g)
    <3>1. place[r] = "sources" /\ place'[r] = "targets"
      BY <1>7, <2>2 DEF ConvertSources, AllAt, Within
    <3>2. recv'[r] = {[e EXCEPT !.src = Reordered(Sender(r, e.c), e.src)] : e \in recv[r]}
      BY <1>7, <2>2 DEF ConvertSources, Within
    <3> QED BY <2>1, <3>1, <3>2
  <2>3. CASE r \notin Across(g)
    <3>1. place'[r] = place[r] /\ recv'[r] = recv[r]
      BY <1>7, <2>3 DEF ConvertSources, Within
    <3> QED BY <2>1, <3>1
  <2> QED BY <2>2, <2>3
<1>8. ASSUME NEW g \in Rank, ConvertTargetsAndAdd(g) PROVE A \/ U
  <2>1. counted' = counted
    BY <1>8 DEF ConvertTargetsAndAdd, layoutVars
  <2>2. CASE r \in Along(g)
    <3>1. place[r] = "targets" /\ place'[r] = "store" /\ loop'[r] = loop[r] + 1
      BY <1>8, <2>2 DEF ConvertTargetsAndAdd, AllAt, Within
    <3>2. wide'[r] = Advanced(r) /\ array'[r] = Stored(r) /\ recv'[r] = {}
      BY <1>8, <2>2 DEF ConvertTargetsAndAdd, Within
    <3> QED BY <2>1, <3>1, <3>2
  <2>3. CASE r \notin Along(g)
    <3>1. place'[r] = place[r] /\ recv'[r] = recv[r] /\ loop'[r] = loop[r]
      BY <1>8, <2>3 DEF ConvertTargetsAndAdd, Within
    <3>2. wide'[r] = wide[r] /\ array'[r] = array[r]
      BY <1>8, <2>3 DEF ConvertTargetsAndAdd, Within
    <3> QED BY <2>1, <3>1, <3>2
  <2> QED BY <2>2, <2>3
<1>9. ASSUME NEW g \in Rank, FormRows(g) PROVE Out \/ U
  <2>1. /\ place' = [place EXCEPT ![g] = "bits"] /\ loop' = loop /\ counted' = counted
        /\ wide' = wide /\ recv' = recv
    BY <1>9 DEF FormRows, layoutVars
  <2>2. CASE r = g
    BY <1>1, <2>1, <2>2
  <2>3. CASE r # g
    <3>1. place'[r] = place[r]
      BY <1>1, <2>1, <2>3
    <3>2. \E z : array' = [array EXCEPT ![g] = z]
      BY <1>9 DEF FormRows
    <3>3. r \in DOMAIN array
      BY DEF PhaseOK, Shaped
    <3>4. array'[r] = array[r]
      BY <2>3, <3>2, <3>3
    <3> QED BY <2>1, <3>1, <3>4
  <2> QED BY <2>2, <2>3
<1>10. ASSUME NEW g \in Rank, ReduceBits(g) PROVE Out
  <2>1. place[r] \in {"bits", "sum"} /\ (place'[r] = place[r] \/ place'[r] = "sum")
    BY <1>10 DEF ReduceBits, layoutVars, Within, AllAt
  <2> QED BY <2>1
<1>11. ASSUME SumVertices PROVE Out
  BY <1>11 DEF SumVertices, AllAt
<1>12. ASSUME UNCHANGED buildVars PROVE U
  BY <1>12 DEF buildVars, layoutVars
<1>13. Built => UNCHANGED buildVars
  BY DEF Built
<1> HIDE DEF Out, L, S, T, A, U
<1>14. Out \/ L \/ S \/ T \/ A \/ U
  BY <1>2, <1>3, <1>4, <1>5, <1>6, <1>7, <1>8, <1>9, <1>10, <1>11, <1>12, <1>13 DEF BuildNext
<1> QED BY <1>14 DEF Out, L, S, T, A, U

-----------------------------------------------------------------------------
(* The wide rows *)

\* A wide row is a processor column and a number of its own.
LEMMA WideRowParts ==
  ASSUME NEW c \in 0 .. C - 1, NEW w \in Nat, NEW n \in Nat, n < Part * w
  PROVE  /\ c * (Part * w) + n \in Nat
         /\ n \div Part \in 0 .. w - 1
         /\ (c * (Part * w) + n) % Part = n % Part
         /\ (c * (Part * w) + n) \div Part = w * c + n \div Part
         /\ w * c + n \div Part \in 0 .. w * C - 1
         /\ (w * c + n \div Part) \div w = c
         /\ (w * c + n \div Part) % w = n \div Part
<1> DEFINE q == n \div Part
           m == n % Part
<1>1. Part \in Nat /\ Part > 0 /\ C \in Nat /\ C > 0 /\ c \in Nat /\ c < C
  BY ConstructAssumption
<1>2. q \in Nat /\ n = Part * q + m /\ m \in 0 .. Part - 1
  BY <1>1, DivisionMod
<1> HIDE DEF q, m
<1>3. q < w
  <2> SUFFICES ASSUME w <= q PROVE FALSE
    BY <1>2
  <2>1. CASE w = q
    <3>1. Part * w = Part * q /\ Part * q \in Nat
      BY <1>1, <1>2, <2>1
    <3> QED BY <1>2, <3>1
  <2>2. CASE w < q
    <3>1. Part * w + Part <= Part * q /\ Part * q \in Nat /\ Part * w \in Nat
      BY <1>1, <1>2, <2>2, FactorsFit
    <3> QED BY <1>1, <1>2, <3>1
  <2> QED BY <1>2, <2>1, <2>2
<1> DEFINE k == w * c + q
<1>4. k \in Nat /\ w * c \in Nat
  BY <1>1, <1>2
<1>5. c * (Part * w) + n = Part * k + m
  <2>1. c * (Part * w) = Part * (w * c)
    BY <1>1
  <2>2. Part * (w * c + q) = Part * (w * c) + Part * q
    <3> DEFINE z == w * c
    <3>1. z \in Nat
      BY <1>4
    <3> HIDE DEF z
    <3>2. Part * (z + q) = Part * z + Part * q
      BY <1>1, <1>2, <3>1
    <3> QED BY <3>2 DEF z
  <2>3. Part * (w * c) \in Nat /\ Part * q \in Nat
    BY <1>1, <1>2, <1>4
  <2> QED BY <1>2, <2>1, <2>2, <2>3
<1>6. (Part * k + m) \div Part = k /\ (Part * k + m) % Part = m /\ Part * k + m \in Nat
  <2> HIDE DEF k
  <2> QED BY <1>1, <1>2, <1>4, DivisionUnique
<1>7. q \in 0 .. w - 1
  BY <1>2, <1>3
<1>8. (w * c + q) \div w = c /\ (w * c + q) % w = q
  BY <1>1, <1>7, DivisionUnique
<1>9. w * c + q \in 0 .. w * C - 1
  <2>1. w * c + w <= w * C /\ w * C \in Nat
    BY <1>1, FactorsFit
  <2> QED BY <1>2, <1>3, <1>4, <2>1
<1> QED BY <1>5, <1>6, <1>7, <1>8, <1>9 DEF q, m, k

Ordered == PhaseOK /\ CountOK /\ OrderOK /\ \A r \in Rank : place[r] \notin First

LEMMA Widths ==
  ASSUME Ordered
  PROVE  /\ numLocal \in Nat /\ WideRows \in Nat /\ NumWide \in Nat /\ numOrig \in Nat
         /\ numLocal = Part * WideRows /\ NumWide = WideRows * C
<1>1. Part \in Nat /\ Part > 0
  BY ConstructAssumption
<1>2. PICK n \in Nat : numLocal = Part * n
  BY RankFinite DEF Ordered, OrderOK
<1> DEFINE m == 0
<1>3. m \in 0 .. Part - 1
  BY <1>1
<1> HIDE DEF m
<1>4. (Part * n + m) \div Part = n
  BY <1>1, <1>3, DivisionUnique
<1>5. Part * n + m = numLocal /\ numLocal \in Nat
  BY <1>1, <1>2 DEF m
<1>6. WideRows = n
  BY <1>4, <1>5 DEF WideRows
<1>7. NumWide = n * C /\ n * C \in Nat
  BY <1>6, GridSize DEF NumWide
<1>8. numOrig \in Nat
  BY RankFinite DEF Ordered, CountOK, First
<1> QED BY <1>2, <1>5, <1>6, <1>7, <1>8

\* What the owner of a vertex knows of its edges after the first pass.
LEMMA RowsOf ==
  ASSUME Ordered, NEW s \in Rank
  PROVE  /\ rows[s] = {DegreeEntry(x) : x \in {x \in Sends : Owner(From(x)) = s}}
         /\ \A x \in Sends : Owner(From(x)) = s => DegreeEntry(x) \in rows[s]
<1>1. Scanned(s) = NumLoops
  BY DEF Scanned, Ordered
<1>2. Owned(s, NumLoops) = {x \in Sends : Owner(From(x)) = s}
  BY SendsTyped DEF Owned, Read, Ordered, PhaseOK
<1>3. rows[s] = {DegreeEntry(x) : x \in {x \in Sends : Owner(From(x)) = s}}
  BY <1>1, <1>2 DEF Ordered, CountOK
<1> QED BY <1>3

\* The new number of an end of an edge, and its wide row.
LEMMA NumberParts ==
  ASSUME Ordered, NEW x \in Sends
  PROVE  /\ Local(From(x)) \in Locals /\ Local(To(x)) \in Locals
         /\ Number(From(x)) \in Nat /\ Number(From(x)) < numLocal /\ Number(From(x)) \in Locals
         /\ Number(To(x)) \in Nat /\ Number(To(x)) < numLocal /\ Number(To(x)) \in Locals
<1> SUFFICES ASSUME NEW y \in Sends
             PROVE  /\ Local(From(y)) \in Locals
                    /\ Number(From(y)) \in Nat /\ Number(From(y)) < numLocal /\ Number(From(y)) \in Locals
  <2>1. EdgesOK
    BY DEF Ordered, PhaseOK
  <2> QED BY <2>1, MirrorSent
<1> DEFINE s == Owner(From(y))
<1>1. From(y) \in Nat /\ s \in Rank /\ Local(From(y)) \in Nat
  BY SendsTyped, VertexParts DEF Ordered, PhaseOK
<1>2. DegreeEntry(y) \in rows[s] /\ DegreeEntry(y).v = Local(From(y))
  BY <1>1, RowsOf DEF DegreeEntry
<1>3. Local(From(y)) \in Locals /\ Reordered(s, Local(From(y))) < numLocal
  BY <1>1, <1>2, ReorderedExact DEF Ordered
<1>4. Reordered(s, Local(From(y))) \in Locals
  BY <1>1, <1>3, ReorderedExact DEF Ordered
<1>5. Number(From(y)) = Reordered(s, Local(From(y)))
  BY DEF Number
<1> QED BY <1>3, <1>4, <1>5 DEF Locals

LEMMA WideRowOf ==
  ASSUME Ordered, NEW x \in Sends
  PROVE  /\ OwnerC(From(x)) \in 0 .. C - 1
         /\ SourceRowOf(x) \in Nat
         /\ SourceRowOf(x) % Part = Number(From(x)) % Part
         /\ RowOf(x) = WideRows * OwnerC(From(x)) + Number(From(x)) \div Part
         /\ RowOf(x) \in 0 .. NumWide - 1
         /\ RowOf(x) \div WideRows = OwnerC(From(x))
         /\ RowOf(x) % WideRows = Number(From(x)) \div Part
<1> DEFINE c == OwnerC(From(x))
           n == Number(From(x))
           w == WideRows
<1>1. c \in 0 .. C - 1
  BY SendsTyped, VertexParts DEF Ordered, PhaseOK
<1>2. n \in Nat /\ w \in Nat /\ n < Part * w /\ numLocal = Part * w /\ NumWide = w * C
  BY NumberParts, Widths
<1>3. SourceRowOf(x) = c * (Part * w) + n
  BY <1>2 DEF SourceRowOf
<1>4. RowOf(x) = (c * (Part * w) + n) \div Part
  BY <1>3 DEF RowOf
<1> HIDE DEF c, n, w
<1>5. /\ c * (Part * w) + n \in Nat
      /\ (c * (Part * w) + n) % Part = n % Part
      /\ (c * (Part * w) + n) \div Part = w * c + n \div Part
      /\ w * c + n \div Part \in 0 .. w * C - 1
      /\ (w * c + n \div Part) \div w = c
      /\ (w * c + n \div Part) % w = n \div Part
  BY <1>1, <1>2, WideRowParts
<1> QED BY <1>1, <1>2, <1>3, <1>4, <1>5 DEF c, n, w

\* The first pass counts for every wide row the edges that the second stores.
LEMMA RowLengthExact ==
  ASSUME Ordered, NEW r \in Rank, NEW h \in 0 .. NumWide - 1
  PROVE  /\ IsFiniteSet(InRow(r, NumLoops, h))
         /\ Lengths(r)[h] = Cardinality(InRow(r, NumLoops, h))
<1> DEFINE c == h \div WideRows
           p == h % WideRows
           s == Sender(r, c)
           I == InRow(r, NumLoops, h)
           E == {e \in rows[s] : e.c = Column(r) /\ Reordered(s, e.v) \div Part = p}
           f == [x \in I |-> DegreeEntry(x)]
<1>1. /\ EdgesOK /\ WideRows \in Nat /\ WideRows > 0 /\ NumWide = WideRows * C /\ C \in Nat
      /\ h \in Nat /\ h < WideRows * C
  <2>1. EdgesOK /\ WideRows \in Nat /\ NumWide = WideRows * C /\ C \in Nat /\ NumWide \in Nat /\ NumWide > 0
    BY Widths, GridSize DEF Ordered, PhaseOK
  <2>2. WideRows # 0
    <3> SUFFICES ASSUME WideRows = 0 PROVE FALSE
      OBVIOUS
    <3>1. 0 * C = 0
      BY <2>1
    <3> QED BY <2>1, <3>1
  <2> QED BY <2>1, <2>2
<1>2. c \in Nat /\ p \in 0 .. WideRows - 1 /\ h = WideRows * c + p
  BY <1>1, DivisionMod
<1> HIDE DEF c, p
<1>3. c \in 0 .. C - 1
  <2> SUFFICES ASSUME C <= c PROVE FALSE
    BY <1>1, <1>2
  <2>1. WideRows * C <= WideRows * c
    <3>1. CASE C = c
      BY <1>1, <1>2, <3>1
    <3>2. CASE C < c
      <4>1. WideRows * C + WideRows <= WideRows * c /\ WideRows * C \in Nat /\ WideRows * c \in Nat
        BY <1>1, <1>2, <3>2, FactorsFit
      <4> QED BY <1>1, <4>1
    <3> QED BY <1>1, <1>2, <3>1, <3>2
  <2>2. WideRows * c \in Nat /\ WideRows * C \in Nat
    BY <1>1, <1>2
  <2> QED BY <1>1, <1>2, <2>1, <2>2
<1>4. s \in Rank /\ Row(s) = Row(r) /\ Column(s) = c
  <2>1. Row(r) \in 0 .. R - 1
    BY RankParts
  <2> QED BY <1>3, <2>1, RankOf DEF Sender
<1>5. Lengths(r)[h] = Cardinality(E)
  BY <1>1, <1>2 DEF Lengths, RowLength, c, p
<1>6. ASSUME NEW x \in Sends
      PROVE  x \in I <=> Owner(From(x)) = s /\ OwnerC(To(x)) = Column(r) /\ Reordered(s, Local(From(x))) \div Part = p
  <2>1. /\ From(x) \in Nat /\ To(x) \in Nat /\ Read(x) < NumLoops
    BY SendsTyped, <1>1 DEF Read
  <2>2. EdgeOwner(From(x), To(x)) = r <=> OwnerR(From(x)) = Row(r) /\ OwnerC(To(x)) = Column(r)
    BY <2>1, EdgeOwnerParts
  <2>3. Owner(From(x)) = s <=> OwnerR(From(x)) = Row(r) /\ OwnerC(From(x)) = c
    <3>1. Owner(From(x)) \in Rank /\ Row(Owner(From(x))) = OwnerR(From(x)) /\ Column(Owner(From(x))) = OwnerC(From(x))
      BY <2>1, VertexParts
    <3>2. Owner(From(x)) = RankAt(Row(Owner(From(x))), Column(Owner(From(x)))) /\ s = RankAt(Row(s), Column(s))
      BY <1>4, <3>1, RankParts
    <3> HIDE DEF s
    <3> QED BY <1>4, <3>1, <3>2
  <2>4. RowOf(x) \div WideRows = OwnerC(From(x)) /\ RowOf(x) % WideRows = Number(From(x)) \div Part
        /\ RowOf(x) = WideRows * OwnerC(From(x)) + Number(From(x)) \div Part
    BY WideRowOf
  <2>5. RowOf(x) = h <=> OwnerC(From(x)) = c /\ Number(From(x)) \div Part = p
    BY <1>2, <2>4 DEF c, p
  <2>6. x \in I <=> EdgeOwner(From(x), To(x)) = r /\ RowOf(x) = h
    BY <2>1 DEF InRow, Kept
  <2>7. Owner(From(x)) = s => Number(From(x)) = Reordered(s, Local(From(x)))
    BY DEF Number
  <2> HIDE DEF I, s
  <2> QED BY <2>2, <2>3, <2>5, <2>6, <2>7
<1>7. I \in SUBSET Sends
  BY DEF InRow, Kept
<1>8. IsFiniteSet(I)
  <2> HIDE DEF I
  <2> QED BY <1>1, <1>7, EndsFinite, FS_Subset
<1> HIDE DEF s, I
<1>9. \A x : DegreeEntry(x).id = x /\ DegreeEntry(x).v = Local(From(x)) /\ DegreeEntry(x).c = OwnerC(To(x))
  BY DEF DegreeEntry
<1>10. ASSUME NEW x \in I PROVE f[x] \in E /\ f[x].id = x
  <2>1. x \in Sends /\ Owner(From(x)) = s /\ OwnerC(To(x)) = Column(r) /\ Reordered(s, Local(From(x))) \div Part = p
    BY <1>6, <1>7
  <2>2. DegreeEntry(x) \in rows[s]
    BY <1>4, <2>1, RowsOf
  <2> QED BY <1>9, <2>1, <2>2
<1>11. ASSUME NEW e \in E PROVE \E x \in I : f[x] = e
  <2>1. PICK x \in Sends : Owner(From(x)) = s /\ e = DegreeEntry(x)
    BY <1>4, RowsOf
  <2>2. x \in I
    BY <1>6, <1>9, <2>1
  <2> QED BY <2>1, <2>2
<1>12. Cardinality(E) = Cardinality(I)
  <2>1. f \in [I -> E]
    BY <1>10
  <2>2. \A x, y \in I : f[x] = f[y] => x = y
    <3> TAKE x, y \in I
    <3>1. f[x].id = x /\ f[y].id = y
      BY <1>10
    <3> HIDE DEF f
    <3> QED BY <3>1
  <2> HIDE DEF f, E
  <2> QED BY <1>8, <1>11, <2>1, <2>2, SameSize
<1> QED BY <1>5, <1>8, <1>12 DEF I

Coming(r, n, h) == {x \in Arriving(r, n) : RowOf(x) = h}

\* The places of the received edges and the ends of the wide rows.
FillOK ==
  \A r \in Rank :
    /\ place[r] = "sources" => recv[r] = {Received(x) : x \in Arriving(r, loop[r])}
    /\ place[r] = "targets" => recv[r] = {Converted(x) : x \in Arriving(r, loop[r])}
    /\ place[r] \in Filling =>
         wide[r] = [h \in 0 .. NumWide |-> counted[r][h] + Cardinality(InRow(r, loop[r], h))]

\* One iteration fills a wide row with the edges that it brings.
LEMMA RowGrows ==
  ASSUME EdgesOK, NEW r \in Rank, NEW n \in Nat, NEW h
  PROVE  /\ IsFiniteSet(Coming(r, n, h)) /\ IsFiniteSet(InRow(r, n, h)) /\ IsFiniteSet(InRow(r, n + 1, h))
         /\ InRow(r, n + 1, h) = InRow(r, n, h) \cup Coming(r, n, h)
         /\ InRow(r, n, h) \cap Coming(r, n, h) = {}
         /\ Cardinality(Coming(r, n, h)) \in Nat /\ Cardinality(InRow(r, n, h)) \in Nat
         /\ Cardinality(InRow(r, n + 1, h)) = Cardinality(InRow(r, n, h)) + Cardinality(Coming(r, n, h))
<1> DEFINE A == Coming(r, n, h)
           I == InRow(r, n, h)
           J == InRow(r, n + 1, h)
<1>1. A \in SUBSET Sends /\ I \in SUBSET Sends
  BY DEF Arriving, InRow, Kept, Coming
<1>2. IsFiniteSet(A) /\ IsFiniteSet(I)
  <2> HIDE DEF A, I
  <2> QED BY <1>1, EndsFinite, FS_Subset
<1>3. ASSUME NEW x \in Sends PROVE x \in J <=> x \in I \/ x \in A
  <2>1. Read(x) \in Nat
    BY SendsTyped DEF Read
  <2>2. Read(x) < n + 1 <=> Read(x) < n \/ Read(x) = n
    BY <2>1
  <2> QED BY <2>2 DEF InRow, Kept, Arriving, Coming
<1>4. J = I \cup A
  <2>1. J \in SUBSET Sends
    BY DEF InRow, Kept
  <2> HIDE DEF A, I, J
  <2> QED BY <1>1, <1>3, <2>1
<1>5. I \cap A = {}
  <2> SUFFICES ASSUME NEW x \in I, x \in A PROVE FALSE
    OBVIOUS
  <2>1. Read(x) \in Nat
    BY <1>1, SendsTyped DEF Read
  <2>2. Read(x) < n /\ Read(x) = n
    BY DEF InRow, Kept, Arriving, Coming
  <2> QED BY <2>1, <2>2
<1>6. Cardinality(A) \in Nat /\ Cardinality(I) \in Nat
  <2> HIDE DEF A, I
  <2> QED BY <1>2, FS_CardinalityType
<1>7. IsFiniteSet(J) /\ Cardinality(J) = Cardinality(I) + Cardinality(A)
  <2> HIDE DEF A, I, J
  <2>1. IsFiniteSet(I \cup A) /\ Cardinality(I \cup A) = Cardinality(I) + Cardinality(A) - Cardinality(I \cap A)
    BY <1>2, FS_Union
  <2>2. Cardinality(I \cap A) = 0
    BY <1>5, FS_EmptySet
  <2> QED BY <1>4, <1>6, <2>1, <2>2
<1> QED BY <1>2, <1>4, <1>5, <1>6, <1>7

\* The received edges of a wide row are those that the list sends there.
LEMMA RowReceived ==
  ASSUME EdgesOK, NEW r \in Rank, NEW n \in Nat, NEW h,
         recv[r] = {Converted(x) : x \in Arriving(r, n)}
  PROVE  /\ IsFiniteSet({e \in recv[r] : High(e) = h})
         /\ Cardinality({e \in recv[r] : High(e) = h}) = Cardinality(Coming(r, n, h))
<1> DEFINE A == Coming(r, n, h)
           E == {e \in recv[r] : High(e) = h}
           f == [x \in A |-> Converted(x)]
<1>1. \A x : Converted(x).id = x /\ High(Converted(x)) = RowOf(x)
  BY DEF Converted, High, SourceRow, RowOf, SourceRowOf
<1>2. f \in [A -> E]
  BY <1>1 DEF Coming
<1>3. \A x, y \in A : f[x] = f[y] => x = y
  <2> TAKE x, y \in A
  <2>1. f[x].id = x /\ f[y].id = y
    BY <1>1
  <2> HIDE DEF f
  <2> QED BY <2>1
<1>4. \A e \in E : \E x \in A : f[x] = e
  BY <1>1 DEF Coming
<1>5. IsFiniteSet(A)
  BY RowGrows
<1> HIDE DEF A, E, f
<1>6. IsFiniteSet(E) /\ Cardinality(E) = Cardinality(A)
  BY <1>2, <1>3, <1>4, <1>5, SameSize
<1> QED BY <1>6 DEF A, E

\* Nothing of this changes with a step that does not change the order.
LEMMA NumbersSame ==
  ASSUME edges' = edges, reordering' = reordering,
         rows' = rows, numOrig' = numOrig, numLocal' = numLocal, vertexes' = vertexes
  PROVE  /\ NumWide' = NumWide
         /\ \A r, n : Arriving(r, n)' = Arriving(r, n) /\ Kept(r, n)' = Kept(r, n)
         /\ \A r, n, h : InRow(r, n, h)' = InRow(r, n, h) /\ Coming(r, n, h)' = Coming(r, n, h)
         /\ \A x : Received(x)' = Received(x) /\ Converted(x)' = Converted(x)
         /\ \A v : Number(v)' = Number(v)
         /\ \A x : SourceRowOf(x)' = SourceRowOf(x)
<1>1. Sends' = Sends /\ \A x : From(x)' = From(x) /\ To(x)' = To(x)
  BY ListSame
<1>2. Locals' = Locals /\ NumWide' = NumWide /\ \A r, v : Reordered(r, v)' = Reordered(r, v)
  BY LayoutSame
<1>3. \A v : Number(v)' = Number(v)
  BY <1>2 DEF Number, Reordered, Locals
<1>4. \A r, n : Arriving(r, n)' = Arriving(r, n) /\ Kept(r, n)' = Kept(r, n)
  BY <1>1 DEF Arriving, Kept, From, To, Read
<1>5. \A x : SourceRowOf(x)' = SourceRowOf(x)
  BY <1>1, <1>2 DEF SourceRowOf, Number, Reordered, Locals, From
<1>6. \A x : Received(x)' = Received(x) /\ Converted(x)' = Converted(x)
  BY <1>1, <1>2 DEF Received, Converted, Number, Reordered, Locals, From, To
<1>7. \A r, n, h : InRow(r, n, h)' = InRow(r, n, h) /\ Coming(r, n, h)' = Coming(r, n, h)
  BY <1>1, <1>2 DEF InRow, Coming, Arriving, RowOf, SourceRowOf, Number, Reordered, Locals, From, To, Kept, Read
<1> QED BY <1>2, <1>3, <1>4, <1>5, <1>6, <1>7

LEMMA FillInit ==
  ASSUME BuildInit
  PROVE  FillOK
BY DEF BuildInit, FillOK, Filling

LEMMA AllOrdered ==
  ASSUME PhaseOK, CountOK, OrderOK, NEW r \in Rank, place[r] \notin First
  PROVE  Ordered
BY DEF Ordered, PhaseOK, Abreast, First, Converting, Between, Places

\* A wide row has room for all edges that belong there.
LEMMA WideStartsExact ==
  ASSUME Ordered, NEW r \in Rank
  PROVE  /\ WideStarts(r) \in [0 .. NumWide -> Nat] /\ WideStarts(r)[0] = 0
         /\ \A h \in 0 .. NumWide - 1 :
              WideStarts(r)[h + 1] = WideStarts(r)[h] + Cardinality(InRow(r, NumLoops, h))
<1> DEFINE len == Lengths(r)
           n == NumWide
<1>1. \A h \in 0 .. n - 1 : len[h] = Cardinality(InRow(r, NumLoops, h)) /\ len[h] \in Nat
  BY RowLengthExact, FS_CardinalityType
<1>2. len = [h \in 0 .. n - 1 |-> len[h]]
  BY DEF Lengths
<1>3. n \in Nat /\ WideStarts(r) = Offsets(len, n)
  BY Widths DEF WideStarts
<1> HIDE DEF n, len
<1>4. len \in [0 .. n - 1 -> Nat]
  BY <1>1, <1>2
<1>5. /\ Offsets(len, n) \in [0 .. n -> Nat] /\ Offsets(len, n)[0] = 0
      /\ \A k \in 0 .. n - 1 : Offsets(len, n)[k + 1] = Offsets(len, n)[k] + len[k]
  BY <1>3, <1>4, OffsetSteps
<1> QED BY <1>1, <1>3, <1>5 DEF n

\* A source of the edges of a rank is converted by its owner.
LEMMA SourceConverted ==
  ASSUME EdgesOK, NEW r \in Rank, NEW n, NEW x \in Arriving(r, n)
  PROVE  [Received(x) EXCEPT !.src = Reordered(Sender(r, Received(x).c), Received(x).src)] = Converted(x)
<1>1. x \in Sends /\ EdgeOwner(From(x), To(x)) = r
  BY DEF Arriving
<1>2. From(x) \in Nat /\ To(x) \in Nat
  BY <1>1, SendsTyped
<1>3. Sender(r, OwnerC(From(x))) = Owner(From(x))
  BY <1>1, <1>2, EdgeOwnerParts, OwnerInRow
<1>4. Received(x).c = OwnerC(From(x)) /\ Received(x).src = Local(From(x))
  BY DEF Received
<1> QED BY <1>3, <1>4 DEF Received, Converted, Number

LEMMA FillStep ==
  ASSUME PhaseOK, CountOK, OrderOK, LayoutOK, FillOK, [BuildNext]_buildVars
  PROVE  FillOK'
<1> SUFFICES ASSUME NEW r \in Rank
             PROVE  (/\ place[r] = "sources" => recv[r] = {Received(x) : x \in Arriving(r, loop[r])}
                     /\ place[r] = "targets" => recv[r] = {Converted(x) : x \in Arriving(r, loop[r])}
                     /\ place[r] \in Filling =>
                          wide[r] = [h \in 0 .. NumWide |-> counted[r][h] + Cardinality(InRow(r, loop[r], h))])'
  BY DEF FillOK
<1> DEFINE Goal == /\ place'[r] = "sources" => recv'[r] = {Received(x) : x \in Arriving(r, loop'[r])}
                   /\ place'[r] = "targets" => recv'[r] = {Converted(x) : x \in Arriving(r, loop'[r])}
                   /\ place'[r] \in Filling =>
                        wide'[r] = [h \in 0 .. NumWide |-> counted'[r][h] + Cardinality(InRow(r, loop'[r], h))]
<1>1. place'[r] \notin Filling => Goal
  BY DEF Filling
<1>2. SUFFICES ASSUME place'[r] \in Filling PROVE Goal /\ place[r] \notin First
  <2>1. CASE place'[r] \in Filling
    <3>1. Goal /\ place[r] \notin First
      BY <1>2, <2>1
    <3>2. rows' = rows /\ numOrig' = numOrig /\ numLocal' = numLocal /\ vertexes' = vertexes
      BY <3>1, OrderStays
    <3>3. /\ NumWide' = NumWide
          /\ \A q, n : Arriving(q, n)' = Arriving(q, n)
          /\ \A q, n, h : InRow(q, n, h)' = InRow(q, n, h)
          /\ \A x : Received(x)' = Received(x) /\ Converted(x)' = Converted(x)
      BY <3>2, EdgesStay, NumbersSame
    <3> DEFINE A == Arriving(r, loop'[r])
    <3>4. (Arriving(r, loop[r]))' = A
      <4>1. edges' = edges /\ Sends' = Sends
        BY EdgesStay, ListSame
      <4> QED BY <4>1 DEF Arriving, Read, From, To
    <3>5. (\A h : InRow(r, loop[r], h)' = InRow(r, loop'[r], h))
      <4>1. edges' = edges /\ \A x : RowOf(x)' = RowOf(x)
        BY <3>2, EdgesStay, NumbersSame DEF RowOf
      <4>2. Sends' = Sends
        BY EdgesStay, ListSame
      <4> QED BY <4>1, <4>2 DEF InRow, Kept, Read, From, To
    <3>6. {Received(x)' : x \in A} = {Received(x) : x \in A} /\ {Converted(x)' : x \in A} = {Converted(x) : x \in A}
      BY <3>3
    <3> HIDE DEF A
    <3>7. place'[r] = "sources" => recv'[r] = {Received(x)' : x \in (Arriving(r, loop[r]))'}
      BY <3>1, <3>4, <3>6 DEF A
    <3>8. place'[r] = "targets" => recv'[r] = {Converted(x)' : x \in (Arriving(r, loop[r]))'}
      BY <3>1, <3>4, <3>6 DEF A
    <3>9. wide'[r] = [h \in 0 .. NumWide' |-> counted'[r][h] + Cardinality(InRow(r, loop[r], h)')]
      BY <2>1, <3>1, <3>3, <3>5
    <3> QED BY <3>7, <3>8, <3>9
  <2>2. CASE place'[r] \notin Filling
    BY <2>2 DEF Filling
  <2> QED BY <2>1, <2>2
<1> HIDE DEF Goal
<1>3. EdgesOK /\ loop[r] \in Nat
  BY DEF PhaseOK
<1>4. CASE place[r] = "layout" /\ place'[r] = "store"
  <2>1. loop'[r] = 0 /\ counted'[r] = WideStarts(r) /\ wide'[r] = WideStarts(r)
    BY <1>4, LayoutStays DEF Early
  <2>2. place[r] \notin First
    BY <1>4 DEF First
  <2>3. WideStarts(r) \in [0 .. NumWide -> Nat]
    BY <2>2, AllOrdered, WideStartsExact
  <2>4. \A h : Cardinality(InRow(r, 0, h)) = 0
    <3> TAKE h
    <3>1. \A x \in Sends : ~ (Read(x) < 0)
      BY <1>3, SendsTyped DEF Read
    <3>2. InRow(r, 0, h) = {}
      BY <3>1 DEF InRow, Kept
    <3> QED BY <3>2, FS_EmptySet
  <2>5. wide'[r] = [h \in 0 .. NumWide |-> counted'[r][h] + Cardinality(InRow(r, loop'[r], h))]
    <3>1. \A h \in 0 .. NumWide : WideStarts(r)[h] = WideStarts(r)[h] + Cardinality(InRow(r, 0, h))
      <4> TAKE h \in 0 .. NumWide
      <4>1. WideStarts(r)[h] \in Nat
        BY <2>3
      <4> QED BY <2>4, <4>1
    <3>2. WideStarts(r) = [h \in 0 .. NumWide |-> WideStarts(r)[h]]
      BY <2>3
    <3>3. WideStarts(r) = [h \in 0 .. NumWide |-> WideStarts(r)[h] + Cardinality(InRow(r, 0, h))]
      BY <3>1, <3>2
    <3> QED BY <2>1, <3>3
  <2> QED BY <1>4, <2>2, <2>5 DEF Goal
<1>5. CASE /\ place[r] = "store" /\ place'[r] = "sources"
           /\ loop'[r] = loop[r] /\ counted'[r] = counted[r] /\ wide'[r] = wide[r]
           /\ recv'[r] = {Received(x) : x \in {x \in SentNow : EdgeOwner(From(x), To(x)) = r}}
           /\ \A s \in Rank : loop[s] = loop[r]
  <2>1. {x \in SentNow : EdgeOwner(From(x), To(x)) = r} = Arriving(r, loop[r])
    <3>1. \A x \in Sends : loop[x[1]] = loop[r]
      BY <1>3, <1>5, SendsTyped
    <3> QED BY <3>1 DEF SentNow, Arriving, Read
  <2> QED BY <1>5, <2>1 DEF Goal, FillOK, First, Filling
<1>6. CASE /\ place[r] = "sources" /\ place'[r] = "targets"
           /\ loop'[r] = loop[r] /\ counted'[r] = counted[r] /\ wide'[r] = wide[r]
           /\ recv'[r] = {[e EXCEPT !.src = Reordered(Sender(r, e.c), e.src)] : e \in recv[r]}
  <2> DEFINE A == Arriving(r, loop[r])
             Op(e) == [e EXCEPT !.src = Reordered(Sender(r, e.c), e.src)]
  <2>1. recv[r] = {Received(x) : x \in A}
    BY <1>6 DEF FillOK
  <2>2. \A x \in A : Op(Received(x)) = Converted(x)
    BY <1>3, SourceConverted
  <2>3. recv'[r] = {Op(e) : e \in recv[r]}
    BY <1>6
  <2> HIDE DEF A, Op
  <2>4. recv'[r] = {Op(Received(x)) : x \in A}
    BY <2>1, <2>3
  <2>5. recv'[r] = {Converted(x) : x \in A}
    BY <2>2, <2>4
  <2> QED BY <1>6, <2>5 DEF Goal, FillOK, First, Filling, A
<1>7. CASE /\ place[r] = "targets" /\ place'[r] = "store"
           /\ loop'[r] = loop[r] + 1 /\ counted'[r] = counted[r] /\ wide'[r] = Advanced(r)
  <2>1. recv[r] = {Converted(x) : x \in Arriving(r, loop[r])}
    BY <1>7 DEF FillOK
  <2>2. wide[r] = [h \in 0 .. NumWide |-> counted[r][h] + Cardinality(InRow(r, loop[r], h))]
    BY <1>7 DEF FillOK, Filling
  <2>3. place[r] \notin First
    BY <1>7 DEF First
  <2>4. counted[r] \in [0 .. NumWide -> Nat]
    <3>1. counted[r] = WideStarts(r)
      BY <1>7 DEF LayoutOK, Early
    <3> QED BY <2>3, <3>1, AllOrdered, WideStartsExact
  <2>5. ASSUME NEW h \in 0 .. NumWide
        PROVE  wide[r][h] + Cardinality({e \in recv[r] : High(e) = h})
                 = counted[r][h] + Cardinality(InRow(r, loop[r] + 1, h))
    <3>1. Cardinality({e \in recv[r] : High(e) = h}) = Cardinality(Coming(r, loop[r], h))
      BY <1>3, <2>1, RowReceived
    <3>2. /\ Cardinality(Coming(r, loop[r], h)) \in Nat /\ Cardinality(InRow(r, loop[r], h)) \in Nat
          /\ Cardinality(InRow(r, loop[r] + 1, h)) = Cardinality(InRow(r, loop[r], h)) + Cardinality(Coming(r, loop[r], h))
      BY <1>3, RowGrows
    <3>3. wide[r][h] = counted[r][h] + Cardinality(InRow(r, loop[r], h)) /\ counted[r][h] \in Nat
      BY <2>2, <2>4
    <3> QED BY <3>1, <3>2, <3>3
  <2>6. wide'[r] = [h \in 0 .. NumWide |-> counted[r][h] + Cardinality(InRow(r, loop[r] + 1, h))]
    BY <1>7, <2>5 DEF Advanced
  <2> QED BY <1>7, <2>3, <2>6 DEF Goal
<1>8. CASE /\ place'[r] = place[r] /\ loop'[r] = loop[r] /\ counted'[r] = counted[r]
           /\ wide'[r] = wide[r] /\ recv'[r] = recv[r]
  <2>1. place[r] \notin First
    BY <1>2, <1>8 DEF First, Filling
  <2> QED BY <1>8, <2>1 DEF Goal, FillOK
<1> QED BY <1>2, <1>4, <1>5, <1>6, <1>7, <1>8, FillSteps

BuildOK == PhaseOK /\ CountOK /\ OrderOK /\ LayoutOK /\ FillOK

LEMMA CountsAgreeIn ==
  ASSUME BuildOK
  PROVE  CountsAgree
<1> USE DEF BuildOK
<1> SUFFICES ASSUME NEW r \in Rank, place[r] \in Filling, NEW h \in 0 .. NumWide - 1
             PROVE  /\ wide[r][h] <= counted[r][h + 1]
                    /\ place[r] = "store" /\ loop[r] = NumLoops => wide[r][h] = counted[r][h + 1]
  BY DEF CountsAgree, Filling
<1> DEFINE I == InRow(r, loop[r], h)
           J == InRow(r, NumLoops, h)
<1>1. Ordered /\ EdgesOK /\ loop[r] \in Nat /\ NumWide \in Nat
  BY AllOrdered, Widths DEF Filling, First, PhaseOK
<1>2. wide[r] = [k \in 0 .. NumWide |-> counted[r][k] + Cardinality(InRow(r, loop[r], k))]
  BY DEF FillOK
<1>3. counted[r] = WideStarts(r)
  BY DEF LayoutOK, Filling, Early
<1>4. /\ counted[r] \in [0 .. NumWide -> Nat]
      /\ counted[r][h + 1] = counted[r][h] + Cardinality(J)
  BY <1>1, <1>3, WideStartsExact
<1>5. I \in SUBSET J
  <2>1. \A x \in Sends : Read(x) < NumLoops
    BY <1>1, SendsTyped DEF Read
  <2> QED BY <2>1 DEF InRow, Kept
<1>6. h \in 0 .. NumWide
  BY <1>1
<1>7. wide[r][h] = counted[r][h] + Cardinality(I)
  BY <1>2, <1>6
<1>8. IsFiniteSet(J)
  BY <1>1, RowLengthExact
<1> HIDE DEF I, J
<1>9. Cardinality(I) <= Cardinality(J) /\ Cardinality(I) \in Nat /\ Cardinality(J) \in Nat
  <2>1. IsFiniteSet(I)
    BY <1>5, <1>8, FS_Subset
  <2> QED BY <1>5, <1>8, <2>1, FS_Subset, FS_CardinalityType
<1>10. loop[r] = NumLoops => I = J
  BY DEF I, J
<1>11. counted[r][h] \in Nat
  BY <1>4, <1>6
<1>12. wide[r][h] <= counted[r][h + 1]
  BY <1>4, <1>7, <1>9, <1>11
<1>13. loop[r] = NumLoops => wide[r][h] = counted[r][h + 1]
  BY <1>4, <1>7, <1>10
<1> QED BY <1>12, <1>13

-----------------------------------------------------------------------------
(* The bitmaps of the rows *)

\* The rows that a rank has are those of its edges.
LEMMA SetRowsExact ==
  ASSUME Ordered, NEW r \in Rank
  PROVE  SetRows(r) = {SourceRowOf(x) : x \in Kept(r, NumLoops)}
<1>1. EdgesOK
  BY DEF Ordered, PhaseOK
<1>2. ASSUME NEW x \in Kept(r, NumLoops) PROVE SourceRowOf(x) \in SetRows(r)
  <2> DEFINE c == OwnerC(From(x))
             s == Sender(r, c)
  <2>1. x \in Sends /\ EdgeOwner(From(x), To(x)) = r
    BY DEF Kept
  <2>2. /\ From(x) \in Nat /\ To(x) \in Nat
        /\ OwnerR(From(x)) = Row(r) /\ OwnerC(To(x)) = Column(r)
    BY <1>1, <2>1, SendsTyped, EdgeOwnerParts
  <2>3. s = Owner(From(x)) /\ s \in Rank /\ c \in 0 .. C - 1
    BY <2>2, OwnerInRow, VertexParts
  <2>4. DegreeEntry(x) \in rows[s] /\ DegreeEntry(x).c = Column(r) /\ DegreeEntry(x).v = Local(From(x))
    BY <2>1, <2>2, <2>3, RowsOf DEF DegreeEntry
  <2>5. Number(From(x)) = Reordered(s, Local(From(x)))
    BY <2>3 DEF Number
  <2>6. Number(From(x)) \in RowsFor(s, Column(r))
    BY <2>4, <2>5 DEF RowsFor
  <2>7. SourceRowOf(x) = c * numLocal + Number(From(x))
    BY DEF SourceRowOf
  <2> HIDE DEF c
  <2> QED BY <2>3, <2>6, <2>7 DEF SetRows
<1>3. ASSUME NEW b \in SetRows(r) PROVE \E x \in Kept(r, NumLoops) : b = SourceRowOf(x)
  <2>1. PICK c \in 0 .. C - 1 : b \in {c * numLocal + ix : ix \in RowsFor(Sender(r, c), Column(r))}
    BY DEF SetRows
  <2>2. PICK ix \in RowsFor(Sender(r, c), Column(r)) : b = c * numLocal + ix
    BY <2>1
  <2> DEFINE s == Sender(r, c)
  <2>3. s \in Rank /\ Row(s) = Row(r) /\ Column(s) = c
    <3>1. Row(r) \in 0 .. R - 1
      BY RankParts
    <3> QED BY <3>1, RankOf DEF Sender
  <2>4. PICK e \in rows[s] : e.c = Column(r) /\ ix = Reordered(s, e.v)
    BY <2>2 DEF RowsFor
  <2> HIDE DEF s
  <2>5. PICK x \in Sends : Owner(From(x)) = s /\ e = DegreeEntry(x)
    BY <2>3, RowsOf
  <2>6. e.v = Local(From(x)) /\ OwnerC(To(x)) = Column(r)
    BY <2>4, <2>5 DEF DegreeEntry
  <2>7. From(x) \in Nat /\ To(x) \in Nat /\ Read(x) < NumLoops
    BY <1>1, SendsTyped DEF Read
  <2>8. OwnerR(From(x)) = Row(r) /\ OwnerC(From(x)) = c
    BY <2>3, <2>5, <2>7, VertexParts
  <2>9. x \in Kept(r, NumLoops)
    BY <2>6, <2>7, <2>8, EdgeOwnerParts DEF Kept
  <2>10. ix = Number(From(x))
    BY <2>4, <2>5, <2>6 DEF Number
  <2> QED BY <2>2, <2>8, <2>9, <2>10 DEF SourceRowOf
<1> QED BY <1>2, <1>3

\* A source row is a column and a number.
LEMMA SourceRowParts ==
  ASSUME Ordered, NEW x \in Sends, NEW c \in Nat, NEW ix \in 0 .. numLocal - 1
  PROVE  /\ SourceRowOf(x) \div numLocal = OwnerC(From(x))
         /\ SourceRowOf(x) % numLocal = Number(From(x))
         /\ (SourceRowOf(x) = c * numLocal + ix <=> c = OwnerC(From(x)) /\ ix = Number(From(x)))
<1> DEFINE n == Number(From(x))
           d == OwnerC(From(x))
<1>1. n \in Nat /\ n < numLocal /\ numLocal \in Nat
  BY NumberParts, Widths
<1>2. d \in Nat
  BY WideRowOf, GridSize
<1>3. SourceRowOf(x) = d * numLocal + n
  BY DEF SourceRowOf
<1> HIDE DEF n, d
<1>4. n \in 0 .. numLocal - 1
  BY <1>1
<1>5. (numLocal * d + n) \div numLocal = d /\ (numLocal * d + n) % numLocal = n
  BY <1>1, <1>2, <1>4, DivisionUnique
<1>6. (numLocal * c + ix) \div numLocal = c /\ (numLocal * c + ix) % numLocal = ix
  BY <1>1, DivisionUnique
<1>7. d * numLocal = numLocal * d /\ c * numLocal = numLocal * c
  BY <1>1, <1>2
<1> QED BY <1>3, <1>5, <1>6, <1>7 DEF n, d

\* The vertices with an edge, and their new numbers at a rank.
FirstEnds == {From(x) : x \in Sends}
NumbersAt(r) == {Number(From(x)) : x \in {x \in Sends : Owner(From(x)) = r}}

LEMMA BitsExact ==
  ASSUME Ordered, NEW r \in Rank, \A s \in Rank : bitmap[s] = SetRows(s)
  PROVE  Bits(r) = NumbersAt(r)
<1>1. EdgesOK /\ numLocal \in Nat
  BY Widths DEF Ordered, PhaseOK
<1>2. Column(r) \in Nat
  BY RankParts, GridSize
<1>3. ASSUME NEW ix \in Bits(r) PROVE ix \in NumbersAt(r)
  <2>1. ix \in 0 .. numLocal - 1
    BY DEF Bits
  <2>2. PICK s \in Across(r) : Column(r) * numLocal + ix \in bitmap[s]
    BY DEF Bits
  <2>3. s \in Rank /\ Row(s) = Row(r)
    BY DEF Across
  <2>4. PICK x \in Kept(s, NumLoops) : Column(r) * numLocal + ix = SourceRowOf(x)
    BY <2>2, <2>3, SetRowsExact
  <2>5. x \in Sends /\ EdgeOwner(From(x), To(x)) = s
    BY DEF Kept
  <2>6. From(x) \in Nat /\ To(x) \in Nat
    BY <1>1, <2>5, SendsTyped
  <2>7. Column(r) = OwnerC(From(x)) /\ ix = Number(From(x))
    BY <1>2, <2>1, <2>4, <2>5, SourceRowParts
  <2>8. OwnerR(From(x)) = Row(s)
    BY <2>3, <2>5, <2>6, EdgeOwnerParts
  <2>9. Owner(From(x)) = RankAt(Row(r), Column(r)) /\ r = RankAt(Row(r), Column(r))
    BY <2>3, <2>6, <2>7, <2>8, VertexParts, RankParts
  <2> QED BY <2>5, <2>7, <2>9 DEF NumbersAt
<1>4. ASSUME NEW ix \in NumbersAt(r) PROVE ix \in Bits(r)
  <2>1. PICK x \in Sends : Owner(From(x)) = r /\ ix = Number(From(x))
    BY DEF NumbersAt
  <2> DEFINE s == EdgeOwner(From(x), To(x))
  <2>2. From(x) \in Nat /\ To(x) \in Nat /\ Read(x) < NumLoops
    BY <1>1, SendsTyped DEF Read
  <2>3. ix \in 0 .. numLocal - 1
    BY <1>1, <2>1, NumberParts
  <2>4. Row(r) = OwnerR(From(x)) /\ Column(r) = OwnerC(From(x))
    BY <2>1, <2>2, VertexParts
  <2>5. SourceRowOf(x) = Column(r) * numLocal + ix
    BY <2>1, <2>4 DEF SourceRowOf
  <2>6. s \in Rank
    BY <2>2, EdgeOwnerParts
  <2>7. x \in Kept(s, NumLoops)
    BY <2>2 DEF Kept
  <2>8. Row(s) = OwnerR(From(x))
    <3> DEFINE q == s
    <3>1. q \in Rank /\ EdgeOwner(From(x), To(x)) = q
      BY <2>6
    <3> HIDE DEF q
    <3>2. OwnerR(From(x)) = Row(q)
      BY <2>2, <3>1, EdgeOwnerParts
    <3> QED BY <3>2 DEF q
  <2> HIDE DEF s
  <2>9. s \in Across(r)
    BY <2>4, <2>6, <2>8 DEF Across
  <2>10. SourceRowOf(x) \in bitmap[s]
    BY <2>6, <2>7, SetRowsExact
  <2> QED BY <2>3, <2>5, <2>9, <2>10 DEF Bits
<1> QED BY <1>3, <1>4

\* What the owners know of their vertices, and the sum over the ranks.
BitsOK ==
  \A r \in Rank :
    /\ place[r] \in {"sum", "done"} => hasEdge[r] = NumbersAt(r)
    /\ place[r] = "done" => numGlobal = Cardinality(FirstEnds)

\* Vertices of one owner have different new numbers.
LEMMA NumbersDiffer ==
  ASSUME Ordered, NEW x \in Sends, NEW y \in Sends,
         Owner(From(x)) = Owner(From(y)), Number(From(x)) = Number(From(y))
  PROVE  From(x) = From(y)
<1> DEFINE s == Owner(From(x))
<1>1. From(x) \in Nat /\ From(y) \in Nat
  BY SendsTyped DEF Ordered, PhaseOK
<1>2. /\ s \in Rank /\ From(x) = Size * Local(From(x)) + s
      /\ From(y) = Size * Local(From(y)) + s
  BY <1>1, VertexParts
<1>3. Local(From(x)) \in Locals /\ Local(From(y)) \in Locals
  BY NumberParts
<1>4. Reordered(s, Local(From(x))) = Reordered(s, Local(From(y)))
  BY DEF Number
<1>5. Local(From(x)) = Local(From(y))
  BY <1>2, <1>3, <1>4, ReorderedExact DEF Ordered
<1> QED BY <1>2, <1>5

\* The ranks count every vertex with an edge once.
LEMMA SumExact ==
  ASSUME Ordered, NEW len \in [0 .. Size - 1 -> Nat],
         \A r \in Rank : len[r] = Cardinality(NumbersAt(r))
  PROVE  Offsets(len, Size)[Size] = Cardinality(FirstEnds)
<1> DEFINE Before(k) == {v \in FirstEnds : Owner(v) < k}
           At(r) == {v \in FirstEnds : Owner(v) = r}
           w == Offsets(len, Size)
           T == {k \in 0 .. Size : w[k] = Cardinality(Before(k))}
<1>1. EdgesOK /\ Size \in Nat /\ Rank = 0 .. Size - 1
  BY GridSize DEF Ordered, PhaseOK, Rank
<1>2. IsFiniteSet(FirstEnds) /\ \A v \in FirstEnds : v \in Nat /\ Owner(v) \in Rank
  <2> DEFINE f == [x \in Sends |-> From(x)]
  <2>1. f = [x \in Sends |-> f[x]] /\ FirstEnds = {f[x] : x \in Sends}
    BY DEF FirstEnds
  <2> HIDE DEF f
  <2>2. IsFiniteSet({f[x] : x \in Sends})
    <3>1. IsFiniteSet(Sends)
      BY <1>1, EndsFinite
    <3> QED BY <2>1, <3>1, ImageFinite
  <2>3. \A v \in FirstEnds : v \in Nat
    BY <1>1, SendsTyped DEF FirstEnds
  <2> QED BY <2>1, <2>2, <2>3, VertexParts
<1>3. ASSUME NEW r \in Rank PROVE IsFiniteSet(At(r)) /\ Cardinality(At(r)) = len[r]
  <2> DEFINE S == At(r)
             D == NumbersAt(r)
             f == [v \in S |-> Number(v)]
  <2>1. IsFiniteSet(S)
    <3>1. S \in SUBSET FirstEnds
      OBVIOUS
    <3> HIDE DEF S
    <3> QED BY <1>2, <3>1, FS_Subset
  <2>2. \A v \in S : \E x \in Sends : v = From(x) /\ Owner(From(x)) = r
    BY DEF FirstEnds
  <2>3. \A x \in Sends : Owner(From(x)) = r => From(x) \in S
    BY DEF FirstEnds
  <2>4. D = {Number(From(x)) : x \in {x \in Sends : Owner(From(x)) = r}}
    BY DEF NumbersAt
  <2> HIDE DEF S, D
  <2>5. f \in [S -> D]
    BY <2>2, <2>4
  <2>6. \A v, u \in S : f[v] = f[u] => v = u
    <3> TAKE v, u \in S
    <3>1. PICK x \in Sends : v = From(x) /\ Owner(From(x)) = r
      BY <2>2
    <3>2. PICK y \in Sends : u = From(y) /\ Owner(From(y)) = r
      BY <2>2
    <3>3. f[v] = Number(v) /\ f[u] = Number(u)
      OBVIOUS
    <3> HIDE DEF f
    <3> QED BY <3>1, <3>2, <3>3, NumbersDiffer
  <2>7. \A d \in D : \E v \in S : f[v] = d
    <3> TAKE d \in D
    <3>1. PICK x \in Sends : d = Number(From(x)) /\ Owner(From(x)) = r
      BY <2>4
    <3> QED BY <2>3, <3>1
  <2> HIDE DEF f
  <2>8. Cardinality(D) = Cardinality(S)
    BY <2>1, <2>5, <2>6, <2>7, SameSize
  <2> QED BY <2>1, <2>8 DEF S, D
<1>4. /\ w \in [0 .. Size -> Nat] /\ w[0] = 0
      /\ \A k \in 0 .. Size - 1 : w[k + 1] = w[k] + len[k]
  BY <1>1, OffsetSteps
<1> HIDE DEF w
<1>5. 0 \in T
  <2>1. Before(0) = {}
    BY <1>1, <1>2
  <2>2. Cardinality(Before(0)) = 0
    BY <2>1, FS_EmptySet
  <2> QED BY <1>1, <1>4, <2>2
<1>6. ASSUME NEW k \in 1 .. Size, k - 1 \in T PROVE k \in T
  <2> DEFINE P == Before(k - 1)
             A == At(k - 1)
             Q == Before(k)
  <2>1. k - 1 \in Rank /\ k \in 0 .. Size /\ k - 1 \in 0 .. Size - 1 /\ (k - 1) + 1 = k
    BY <1>1
  <2>2. Q = P \cup A /\ P \cap A = {}
    <3>1. \A v \in FirstEnds : Owner(v) \in Int /\ (Owner(v) < k <=> Owner(v) < k - 1 \/ Owner(v) = k - 1)
      BY <1>1, <1>2
    <3>2. \A v \in FirstEnds : ~ (Owner(v) < k - 1 /\ Owner(v) = k - 1)
      BY <3>1
    <3> QED BY <3>1, <3>2
  <2>3. IsFiniteSet(A) /\ Cardinality(A) = len[k - 1]
    BY <1>3, <2>1
  <2>4. IsFiniteSet(P)
    <3>1. P \in SUBSET FirstEnds
      OBVIOUS
    <3> HIDE DEF P
    <3> QED BY <1>2, <3>1, FS_Subset
  <2>5. w[k - 1] = Cardinality(P)
    BY <1>6
  <2> HIDE DEF P, A, Q
  <2>6. Cardinality(P) \in Nat /\ Cardinality(A) \in Nat
    BY <2>3, <2>4, FS_CardinalityType
  <2>7. Cardinality(Q) = Cardinality(P) + Cardinality(A) - Cardinality(P \cap A)
    BY <2>2, <2>3, <2>4, FS_Union
  <2>8. Cardinality(P \cap A) = 0
    BY <2>2, FS_EmptySet
  <2>9. w[k] = Cardinality(Q)
    BY <1>4, <2>1, <2>3, <2>5, <2>6, <2>7, <2>8
  <2> QED BY <2>1, <2>9 DEF Q
<1>7. \A k \in 0 .. Size : k \in T
  <2> HIDE DEF T
  <2> QED BY <1>1, <1>5, <1>6, UpTo
<1>8. w[Size] = Cardinality(Before(Size))
  <2>1. Size \in 0 .. Size
    BY <1>1
  <2> QED BY <1>7, <2>1
<1>9. Before(Size) = FirstEnds
  BY <1>1, <1>2
<1> QED BY <1>8, <1>9 DEF w

LEMMA BitsInit ==
  ASSUME BuildInit
  PROVE  BitsOK
BY DEF BuildInit, BitsOK

LEMMA BitsSame ==
  ASSUME BuildOK, [BuildNext]_buildVars, NEW r \in Rank, place[r] \notin First
  PROVE  NumbersAt(r)' = NumbersAt(r) /\ FirstEnds' = FirstEnds
<1>1. \A v : Number(v)' = Number(v)
  BY EdgesStay, OrderStays, NumbersSame DEF BuildOK
<1>2. Sends' = Sends /\ \A x : From(x)' = From(x)
  BY EdgesStay, ListSame
<1>3. numOrig' = numOrig /\ vertexes' = vertexes
  BY OrderStays DEF BuildOK
<1>4. FirstEnds' = FirstEnds
  BY <1>2 DEF FirstEnds
<1>5. NumbersAt(r)' = NumbersAt(r)
  BY <1>2, <1>3 DEF NumbersAt, Number, Reordered, Locals
<1> QED BY <1>4, <1>5

LEMMA BitsStep ==
  ASSUME BuildOK, BitsOK, [BuildNext]_buildVars
  PROVE  BitsOK'
<1> USE DEF BuildOK
<1> SUFFICES ASSUME NEW r \in Rank, place'[r] \in {"sum", "done"}
             PROVE  /\ place[r] \notin First
                    /\ hasEdge'[r] = NumbersAt(r)
                    /\ place'[r] = "done" => numGlobal' = Cardinality(FirstEnds)
  BY BitsSame DEF BitsOK
<1>1. place \in [Rank -> Places] /\ \A p, q \in Rank : Abreast(place[p], loop[p], place[q], loop[q])
  BY DEF PhaseOK
<1>2. CASE hasEdge' = hasEdge /\ numGlobal' = numGlobal /\ place'[r] = place[r]
  BY <1>2 DEF BitsOK, First
<1>3. CASE place'[r] \notin {"sum", "done"}
  BY <1>3
<1>4. CASE SearchMaxVertex \/ ScanEdges \/ ChooseOrder \/ ScatterEdges
  BY <1>4 DEF SearchMaxVertex, ScanEdges, ChooseOrder, ScatterEdges, AllAt
<1>5. ASSUME NEW g \in Rank, GatherLayout(g) \/ ConvertSources(g) \/ ConvertTargetsAndAdd(g)
      PROVE  (hasEdge' = hasEdge /\ numGlobal' = numGlobal /\ place'[r] = place[r]) \/ place'[r] \notin {"sum", "done"}
  BY <1>5 DEF GatherLayout, ConvertSources, ConvertTargetsAndAdd, Within, countVars
<1>6. ASSUME NEW g \in Rank, FormRows(g)
      PROVE  (hasEdge' = hasEdge /\ numGlobal' = numGlobal /\ place'[r] = place[r]) \/ place'[r] \notin {"sum", "done"}
  <2>1. place' = [place EXCEPT ![g] = "bits"] /\ hasEdge' = hasEdge /\ numGlobal' = numGlobal
    BY <1>6 DEF FormRows, countVars
  <2> QED BY <1>1, <2>1
<1>7. CASE \E g \in Rank : ReduceBits(g)
  <2>1. PICK g \in Rank : ReduceBits(g)
    BY <1>7
  <2>2. /\ \A s \in Rank : place[s] \in {"bits", "sum"}
        /\ place' = [s \in Rank |-> IF s \in Across(g) THEN "sum" ELSE place[s]]
        /\ hasEdge' = [s \in Rank |-> IF s \in Across(g) THEN Bits(s) ELSE hasEdge[s]]
    BY <2>1 DEF ReduceBits, Within
  <2>3. place[r] \notin First /\ place'[r] # "done" /\ Ordered
    BY <2>2, AllOrdered DEF First
  <2>4. \A s \in Rank : bitmap[s] = SetRows(s)
    BY <2>2 DEF LayoutOK, Early
  <2>5. CASE r \in Across(g)
    BY <2>2, <2>3, <2>4, <2>5, BitsExact
  <2>6. CASE r \notin Across(g)
    BY <2>2, <2>3, <2>6 DEF BitsOK
  <2> QED BY <2>5, <2>6
<1>8. CASE SumVertices
  <2> DEFINE len == [s \in Rank |-> Cardinality(hasEdge[s])]
  <2>1. /\ \A s \in Rank : place[s] = "sum"
        /\ hasEdge' = hasEdge
        /\ numGlobal' = Offsets(len, Size)[Size]
    BY <1>8 DEF SumVertices, AllAt
  <2>2. place[r] \notin First /\ Ordered
    BY <2>1, AllOrdered DEF First
  <2>3. \A s \in Rank : hasEdge[s] = NumbersAt(s)
    BY <2>1 DEF BitsOK
  <2>4. \A s \in Rank : len[s] = Cardinality(NumbersAt(s)) /\ len[s] \in Nat
    <3> TAKE s \in Rank
    <3> DEFINE f == [x \in {x \in Sends : Owner(From(x)) = s} |-> Number(From(x))]
               S == {x \in Sends : Owner(From(x)) = s}
    <3>1. IsFiniteSet(S)
      <4>1. S \in SUBSET Sends /\ EdgesOK
        BY DEF PhaseOK
      <4> HIDE DEF S
      <4> QED BY <4>1, EndsFinite, FS_Subset
    <3>2. f = [x \in S |-> f[x]] /\ NumbersAt(s) = {f[x] : x \in S}
      BY DEF NumbersAt
    <3> HIDE DEF f, S
    <3>3. IsFiniteSet({f[x] : x \in S})
      BY <3>1, <3>2, ImageFinite
    <3>4. Cardinality(NumbersAt(s)) \in Nat
      BY <3>2, <3>3, FS_CardinalityType
    <3> QED BY <2>3, <3>4
  <2>5. len \in [0 .. Size - 1 -> Nat]
    BY <2>4 DEF Rank
  <2> HIDE DEF len
  <2>6. numGlobal' = Cardinality(FirstEnds)
    BY <2>1, <2>2, <2>4, <2>5, SumExact
  <2> QED BY <2>1, <2>2, <2>3, <2>6
<1>9. CASE UNCHANGED buildVars
  <2>1. hasEdge' = hasEdge /\ numGlobal' = numGlobal /\ place'[r] = place[r]
    BY <1>9 DEF buildVars, countVars
  <2> QED BY <1>2, <2>1
<1>10. Built => UNCHANGED buildVars
  BY DEF Built
<1> QED BY <1>2, <1>3, <1>4, <1>5, <1>6, <1>7, <1>8, <1>9, <1>10 DEF BuildNext

LEMMA HasEdgeIn ==
  ASSUME BuildOK, BitsOK
  PROVE  HasEdgeExact
<1> USE DEF BuildOK
<1> SUFFICES ASSUME \A r \in Rank : place[r] = "done"
             PROVE  /\ \A v \in 0 .. numOrig * Size - 1 :
                         LET ix == Reordered(Owner(v), Local(v))
                         IN (ix < numLocal /\ ix \in hasEdge[Owner(v)]) <=> \E p \in Joined : p[1] = v
                    /\ numGlobal = Cardinality({p[1] : p \in Joined})
  BY DEF HasEdgeExact, AllAt
<1>1. Ordered /\ EdgesOK /\ Rank # {}
  BY RankFinite, AllOrdered DEF First, PhaseOK
<1>2. \A v : (\E p \in Joined : p[1] = v) <=> v \in FirstEnds
  <2>1. ASSUME NEW p \in Joined PROVE p[1] \in FirstEnds
    <3>1. PICK x \in Sends : p = <<From(x), To(x)>>
      BY DEF Joined
    <3> QED BY <3>1 DEF FirstEnds
  <2>2. ASSUME NEW v \in FirstEnds PROVE \E p \in Joined : p[1] = v
    <3>1. PICK x \in Sends : v = From(x)
      BY DEF FirstEnds
    <3>2. <<From(x), To(x)>> \in Joined
      BY DEF Joined
    <3> QED BY <3>1, <3>2
  <2> QED BY <2>1, <2>2
<1>3. {p[1] : p \in Joined} = FirstEnds
  BY <1>2
<1>4. numGlobal = Cardinality({p[1] : p \in Joined})
  BY <1>1, <1>3 DEF BitsOK
<1>5. ASSUME NEW v \in 0 .. numOrig * Size - 1
      PROVE  (Number(v) < numLocal /\ Number(v) \in hasEdge[Owner(v)]) <=> v \in FirstEnds
  <2> DEFINE r == Owner(v)
             l == Local(v)
  <2>1. numOrig \in Nat /\ Size \in Nat /\ Size > 0
    BY <1>1, Widths, GridSize
  <2>2. v \in Nat /\ numOrig * Size \in Nat /\ v < numOrig * Size
    BY <2>1
  <2>3. r \in Rank /\ l \in Nat /\ v = Size * l + r /\ r \in Nat
    BY <2>2, VertexParts, RankFinite
  <2> HIDE DEF l, r
  <2>4. l \in Locals
    <3> SUFFICES ASSUME numOrig <= l PROVE FALSE
      BY <2>1, <2>3 DEF Locals
    <3>1. PICK t \in Nat : l = numOrig + t
      <4>1. l - numOrig \in Nat /\ l = numOrig + (l - numOrig)
        BY <2>1, <2>3
      <4> QED BY <4>1
    <3>2. Size * l = numOrig * Size + Size * t /\ Size * t \in Nat
      BY <2>1, <3>1
    <3> QED BY <2>2, <2>3, <3>2
  <2>5. Number(v) = Reordered(r, l)
    BY DEF Number, l, r
  <2>6. hasEdge[r] = NumbersAt(r)
    BY <2>3 DEF BitsOK
  <2>7. ASSUME v \in FirstEnds PROVE Number(v) < numLocal /\ Number(v) \in hasEdge[r]
    <3>1. PICK x \in Sends : v = From(x)
      BY <2>7 DEF FirstEnds
    <3>2. Number(v) < numLocal
      BY <1>1, <3>1, NumberParts
    <3>3. Owner(From(x)) = r
      BY <3>1 DEF r
    <3> QED BY <2>6, <3>1, <3>2, <3>3 DEF NumbersAt
  <2>8. ASSUME Number(v) \in hasEdge[r] PROVE v \in FirstEnds
    <3>1. PICK x \in Sends : Owner(From(x)) = r /\ Number(v) = Number(From(x))
      BY <2>6, <2>8 DEF NumbersAt
    <3>2. Local(From(x)) \in Locals /\ Number(From(x)) = Reordered(r, Local(From(x)))
      BY <1>1, <3>1, NumberParts DEF Number
    <3>3. Local(From(x)) = l
      <4>1. Reordered(r, Local(From(x))) = Reordered(r, l)
        BY <2>5, <3>1, <3>2
      <4>2. PhaseOK /\ CountOK /\ OrderOK /\ place[r] \notin First
        BY <1>1, <2>3 DEF Ordered
      <4> QED BY <2>3, <2>4, <3>2, <4>1, <4>2, ReorderedExact
    <3>4. From(x) = Size * Local(From(x)) + Owner(From(x))
      BY <1>1, SendsTyped, VertexParts
    <3>5. From(x) = v
      BY <2>3, <3>1, <3>3, <3>4
    <3> QED BY <3>5 DEF FirstEnds
  <2> QED BY <2>7, <2>8 DEF r
<1> QED BY <1>2, <1>4, <1>5 DEF Number

-----------------------------------------------------------------------------
(* Orders and sequences *)

\* What does not decrease from one number to the next does not decrease.
LEMMA StepsGrow ==
  ASSUME NEW n \in Nat, NEW f \in [0 .. n -> Int], \A k \in 0 .. n - 1 : f[k] <= f[k + 1],
         NEW ix \in 0 .. n, NEW j \in 0 .. n, ix <= j
  PROVE  f[ix] <= f[j]
<1> DEFINE T == {k \in 0 .. n : ix <= k => f[ix] <= f[k]}
<1>1. 0 \in T
  OBVIOUS
<1>2. ASSUME NEW k \in 1 .. n, k - 1 \in T PROVE k \in T
  <2>1. k - 1 \in 0 .. n - 1 /\ (k - 1) + 1 = k /\ k \in 0 .. n /\ k - 1 \in 0 .. n
    OBVIOUS
  <2>2. f[k - 1] <= f[k] /\ f[k] \in Int /\ f[k - 1] \in Int /\ f[ix] \in Int
    BY <2>1
  <2>3. ix <= k => f[ix] <= f[k]
    <3>1. CASE ix = k
      BY <2>2, <3>1
    <3>2. CASE ix # k
      BY <1>2, <2>1, <2>2, <3>2
    <3> QED BY <3>1, <3>2
  <2> QED BY <2>1, <2>3
<1>3. \A k \in 0 .. n : k \in T
  <2> HIDE DEF T
  <2> QED BY <1>1, <1>2, UpTo
<1>4. j \in T
  BY <1>3
<1> QED BY <1>4

\* The members of a finite set in a linear order are numbered by how many come
\* before them.
Linear(S, L) ==
  /\ \A x \in S : <<x, x>> \notin L
  /\ \A x, y, z \in S : <<x, y>> \in L /\ <<y, z>> \in L => <<x, z>> \in L
  /\ \A x, y \in S : x = y \/ <<x, y>> \in L \/ <<y, x>> \in L
Lower(S, L, x) == {y \in S : <<y, x>> \in L}
LEMMA RankInOrder ==
  ASSUME NEW S, NEW L, IsFiniteSet(S), Linear(S, L)
  PROVE  /\ Cardinality(S) \in Nat
         /\ \A x \in S : Cardinality(Lower(S, L, x)) \in 0 .. Cardinality(S) - 1
         /\ \A x, y \in S : Cardinality(Lower(S, L, x)) = Cardinality(Lower(S, L, y)) => x = y
         /\ \A k \in 0 .. Cardinality(S) - 1 : \E x \in S : Cardinality(Lower(S, L, x)) = k
<1> DEFINE n == Cardinality(S)
           Below(x) == {y \in S : <<y, x>> \in L}
           D == [x \in S |-> Cardinality(Below(x))]
<1>1. n \in Nat
  BY FS_CardinalityType
<1>2. ASSUME NEW x \in S PROVE /\ IsFiniteSet(Below(x)) /\ Cardinality(Below(x)) \in Nat
                               /\ Cardinality(Below(x)) < n
  <2>1. Below(x) \in SUBSET S /\ x \notin Below(x)
    BY DEF Linear
  <2> HIDE DEF Below
  <2>2. IsFiniteSet(Below(x)) /\ Cardinality(Below(x)) <= n /\ (n = Cardinality(Below(x)) => S = Below(x))
    BY <2>1, FS_Subset
  <2>3. Cardinality(Below(x)) \in Nat
    BY <2>2, FS_CardinalityType
  <2> HIDE DEF n
  <2> QED BY <1>1, <2>1, <2>2, <2>3
<1>3. ASSUME NEW x \in S, NEW y \in S, <<x, y>> \in L PROVE Cardinality(Below(x)) < Cardinality(Below(y))
  <2>1. Below(x) \in SUBSET Below(y) /\ x \in Below(y) /\ x \notin Below(x)
    BY <1>3 DEF Linear
  <2>2. IsFiniteSet(Below(y)) /\ Cardinality(Below(y)) \in Nat /\ Cardinality(Below(x)) \in Nat
    BY <1>2
  <2> HIDE DEF Below
  <2>3. Cardinality(Below(x)) <= Cardinality(Below(y)) /\ (Cardinality(Below(y)) = Cardinality(Below(x)) => Below(y) = Below(x))
    BY <2>1, <2>2, FS_Subset
  <2> QED BY <2>1, <2>2, <2>3
<1>4. D \in [S -> 0 .. n - 1]
  <2>1. \A x \in S : Cardinality(Below(x)) \in 0 .. n - 1
    <3> TAKE x \in S
    <3>1. Cardinality(Below(x)) \in Nat /\ Cardinality(Below(x)) < n
      BY <1>2
    <3> HIDE DEF Below, n
    <3> QED BY <1>1, <3>1
  <2> HIDE DEF Below, n
  <2> QED BY <2>1
<1>5. \A x, y \in S : D[x] = D[y] => x = y
  <2> TAKE x, y \in S
  <2>1. D[x] = Cardinality(Below(x)) /\ D[y] = Cardinality(Below(y))
    OBVIOUS
  <2>2. Cardinality(Below(x)) \in Nat /\ Cardinality(Below(y)) \in Nat
    BY <1>2
  <2>3. <<x, y>> \in L \/ <<y, x>> \in L \/ x = y
    BY DEF Linear
  <2>4. <<x, y>> \in L => Cardinality(Below(x)) < Cardinality(Below(y))
    BY <1>3
  <2>5. <<y, x>> \in L => Cardinality(Below(y)) < Cardinality(Below(x))
    BY <1>3
  <2> HIDE DEF D, Below
  <2> QED BY <2>1, <2>2, <2>3, <2>4, <2>5
<1>6. \A k \in 0 .. n - 1 : \E x \in S : D[x] = k
  <2>1. IsFiniteSet(0 .. n - 1) /\ Cardinality(0 .. n - 1) = n
    <3>1. n - 1 \in Int /\ 0 \in Int
      BY <1>1
    <3> HIDE DEF n
    <3>2. IsFiniteSet(0 .. (n - 1)) /\ Cardinality(0 .. (n - 1)) = IF 0 > n - 1 THEN 0 ELSE (n - 1) - 0 + 1
      BY <3>1, FS_Interval
    <3> QED BY <1>1, <3>2
  <2>2. D \in Injection(S, 0 .. n - 1)
    <3> HIDE DEF D, n
    <3> QED BY <1>4, <1>5 DEF Injection, IsInjective
  <2>3. D \in Surjection(S, 0 .. n - 1)
    <3> HIDE DEF D
    <3> QED BY <2>1, <2>2, FS_Injection
  <2> HIDE DEF D, n
  <2> QED BY <2>3 DEF Surjection
<1>7. \A x \in S : D[x] = Cardinality(Lower(S, L, x))
  BY DEF Lower
<1> HIDE DEF D
<1> QED BY <1>1, <1>4, <1>5, <1>6, <1>7

\* What comes before something in an interval is the first part of it.
LEMMA FirstPart ==
  ASSUME NEW a \in Nat, NEW b \in Nat, a <= b, NEW D \in SUBSET (a .. b - 1),
         \A p, q \in a .. b - 1 : p < q /\ q \in D => p \in D
  PROVE  /\ Cardinality(D) \in Nat /\ a + Cardinality(D) <= b
         /\ \A p \in a .. b - 1 : p \in D <=> p < a + Cardinality(D)
<1> DEFINE T == {q \in a .. b : q \notin D}
<1>1. T \in SUBSET Nat /\ T # {}
  <2>1. b \in a .. b /\ b \notin D
    OBVIOUS
  <2> QED BY <2>1
<1>2. PICK t \in T : \A q \in T : t <= q
  <2> HIDE DEF T
  <2> QED BY <1>1, LeastNatural
<1>3. t \in a .. b /\ t \notin D /\ t \in Nat
  OBVIOUS
<1>4. \A p \in a .. b - 1 : p \in D <=> p < t
  <2> TAKE p \in a .. b - 1
  <2>1. p < t => p \in D
    <3>1. p \in a .. b /\ p \in Nat
      OBVIOUS
    <3>2. p \notin D => t <= p
      BY <1>2, <3>1
    <3> QED BY <1>3, <3>1, <3>2
  <2>2. p \in D => p < t
    <3> SUFFICES ASSUME p \in D, t <= p PROVE FALSE
      BY <1>3
    <3>1. t \in a .. b - 1 /\ t < p
      BY <1>3
    <3> QED BY <1>3, <3>1
  <2> QED BY <2>1, <2>2
<1>5. D = a .. t - 1
  <2>1. \A p \in a .. t - 1 : p \in a .. b - 1 /\ p < t
    BY <1>3
  <2>2. \A p \in D : p \in a .. b - 1 /\ p < t
    BY <1>4
  <2>3. \A p \in D : p \in a .. t - 1
    BY <1>3, <2>2
  <2>4. \A p \in a .. t - 1 : p \in D
    BY <1>4, <2>1
  <2> HIDE DEF T
  <2> QED BY <2>3, <2>4
<1>6. Cardinality(D) = t - a
  <2>1. a \in Int /\ t - 1 \in Int
    BY <1>3
  <2>2. Cardinality(a .. (t - 1)) = IF a > t - 1 THEN 0 ELSE (t - 1) - a + 1
    BY <2>1, FS_Interval
  <2> QED BY <1>3, <1>5, <2>2
<1>7. t - a \in Nat /\ a + (t - a) = t
  BY <1>3
<1> QED BY <1>3, <1>4, <1>6, <1>7

\* There is one way to put the members of a set of numbers in order.
LEMMA OneOrder ==
  ASSUME NEW S \in SUBSET Nat, IsFiniteSet(S), NEW m \in Nat, NEW f \in [0 .. m - 1 -> S],
         \A j, k \in 0 .. m - 1 : j < k => f[j] < f[k],
         \A x \in S : \E k \in 0 .. m - 1 : f[k] = x
  PROVE  Cardinality(S) = m /\ \A k \in 0 .. m - 1 : f[k] = Ascending(S)[k + 1]
<1> DEFINE n == Cardinality(S)
           a == Ascending(S)
<1>1. \A j, k \in 0 .. m - 1 : f[j] = f[k] => j = k
  <2> TAKE j, k \in 0 .. m - 1
  <2>1. j < k \/ k < j \/ j = k
    OBVIOUS
  <2>2. f[j] \in Nat /\ f[k] \in Nat
    OBVIOUS
  <2> QED BY <2>1, <2>2
<1>2. ASSUME NEW k \in 0 .. m PROVE IsFiniteSet(0 .. k - 1) /\ Cardinality(0 .. k - 1) = k
  <2>1. k - 1 \in Int /\ 0 \in Int /\ k \in Nat
    OBVIOUS
  <2>2. IsFiniteSet(0 .. (k - 1)) /\ Cardinality(0 .. (k - 1)) = IF 0 > k - 1 THEN 0 ELSE (k - 1) - 0 + 1
    BY <2>1, FS_Interval
  <2> QED BY <2>1, <2>2
<1>3. n = m
  <2>1. m \in 0 .. m
    OBVIOUS
  <2>2. IsFiniteSet(0 .. m - 1) /\ Cardinality(0 .. m - 1) = m
    BY <1>2, <2>1
  <2> DEFINE I == 0 .. m - 1
  <2>3. f \in [I -> S] /\ IsFiniteSet(I) /\ (\A j, k \in I : f[j] = f[k] => j = k)
        /\ (\A x \in S : \E k \in I : f[k] = x)
    BY <1>1, <2>2
  <2> HIDE DEF I
  <2>4. Cardinality(S) = Cardinality(I)
    BY <2>3, SameSize
  <2> QED BY <2>2, <2>4 DEF I
<1>4. ASSUME NEW k \in 0 .. m - 1 PROVE Cardinality({y \in S : y < f[k]}) = k
  <2> DEFINE B == {y \in S : y < f[k]}
             g == [ix \in 0 .. k - 1 |-> f[ix]]
  <2>1. \A ix \in 0 .. k - 1 : ix \in 0 .. m - 1 /\ ix < k
    OBVIOUS
  <2>2. g \in [0 .. k - 1 -> B]
    BY <2>1
  <2>3. \A ix, j \in 0 .. k - 1 : g[ix] = g[j] => ix = j
    BY <1>1, <2>1
  <2>4. \A y \in B : \E ix \in 0 .. k - 1 : g[ix] = y
    <3> TAKE y \in B
    <3>1. PICK ix \in 0 .. m - 1 : f[ix] = y
      OBVIOUS
    <3>2. f[ix] < f[k] /\ f[ix] \in Nat /\ f[k] \in Nat
      BY <3>1
    <3>3. ~ (k < ix) /\ ix # k
      BY <3>2
    <3>4. ix \in 0 .. k - 1
      BY <3>3
    <3> QED BY <3>1, <3>4
  <2>5. k \in 0 .. m
    OBVIOUS
  <2>6. IsFiniteSet(0 .. k - 1) /\ Cardinality(0 .. k - 1) = k
    BY <1>2, <2>5
  <2> HIDE DEF B, g
  <2>7. Cardinality(B) = Cardinality(0 .. k - 1)
    BY <2>2, <2>3, <2>4, <2>6, SameSize
  <2> QED BY <2>6, <2>7 DEF B
<1>5. /\ \A k \in 1 .. n : Cardinality({y \in S : y < a[k]}) = k - 1
      /\ \A x \in S : \E k \in 1 .. n : a[k] = x
  BY AscendingExact
<1> HIDE DEF a, n
<1>6. ASSUME NEW k \in 0 .. m - 1 PROVE f[k] = a[k + 1]
  <2>1. PICK j \in 1 .. n : a[j] = f[k]
    BY <1>5
  <2>2. Cardinality({y \in S : y < a[j]}) = j - 1 /\ Cardinality({y \in S : y < f[k]}) = k
    BY <1>4, <1>5
  <2>3. j = k + 1
    BY <1>3, <2>1, <2>2
  <2> QED BY <2>1, <2>3
<1> QED BY <1>3, <1>6 DEF a, n

\* Sequences one behind the other.
Lists(seqs, n) == n \in Nat /\ \A h \in 0 .. n - 1 : \E l \in Nat : DOMAIN seqs[h] = 1 .. l
LEMMA ListLengths ==
  ASSUME NEW seqs, NEW n, Lists(seqs, n), NEW h \in 0 .. n - 1
  PROVE  Len(seqs[h]) \in Nat /\ DOMAIN seqs[h] = 1 .. Len(seqs[h])
<1>1. PICK l \in Nat : DOMAIN seqs[h] = 1 .. l
  BY DEF Lists
<1> QED BY <1>1

LEMMA BeginsExact ==
  ASSUME NEW seqs, NEW n, Lists(seqs, n)
  PROVE  /\ Begins(seqs, n) \in [0 .. n -> Nat] /\ Begins(seqs, n)[0] = 0
         /\ \A h \in 0 .. n - 1 : Begins(seqs, n)[h + 1] = Begins(seqs, n)[h] + Len(seqs[h])
         /\ \A ix, j \in 0 .. n : ix <= j => Begins(seqs, n)[ix] <= Begins(seqs, n)[j]
<1> DEFINE len == [h \in 0 .. n - 1 |-> Len(seqs[h])]
<1>1. n \in Nat
  BY DEF Lists
<1>2. len \in [0 .. n - 1 -> Nat] /\ \A h \in 0 .. n - 1 : len[h] = Len(seqs[h])
  BY ListLengths
<1>3. Begins(seqs, n) = Offsets(len, n)
  BY DEF Begins
<1> HIDE DEF len
<1>4. /\ Offsets(len, n) \in [0 .. n -> Nat] /\ Offsets(len, n)[0] = 0
      /\ \A h \in 0 .. n - 1 : Offsets(len, n)[h + 1] = Offsets(len, n)[h] + len[h]
  BY <1>1, <1>2, OffsetSteps
<1>5. \A ix, j \in 0 .. n : ix <= j => Offsets(len, n)[ix] <= Offsets(len, n)[j]
  BY <1>1, <1>2, OffsetsGrow
<1> QED BY <1>2, <1>3, <1>4, <1>5

LEMMA JointExact ==
  ASSUME NEW seqs, NEW n, Lists(seqs, n)
  PROVE  LET w == Begins(seqs, n) IN
         /\ DOMAIN Joint(seqs, n) = 0 .. w[n] - 1
         /\ \A h \in 0 .. n - 1 : \A k \in 1 .. Len(seqs[h]) :
              w[h] + k - 1 \in 0 .. w[n] - 1 /\ Joint(seqs, n)[w[h] + k - 1] = seqs[h][k]
         /\ \A p \in 0 .. w[n] - 1 : \E h \in 0 .. n - 1 : \E k \in 1 .. Len(seqs[h]) : p = w[h] + k - 1
<1> DEFINE w == Begins(seqs, n)
           H(p) == CHOOSE h \in 0 .. n - 1 : w[h] <= p /\ p < w[h + 1]
<1>1. n \in Nat
  BY DEF Lists
<1>2. /\ w \in [0 .. n -> Nat] /\ w[0] = 0
      /\ \A h \in 0 .. n - 1 : w[h + 1] = w[h] + Len(seqs[h])
      /\ \A ix, j \in 0 .. n : ix <= j => w[ix] <= w[j]
  BY BeginsExact
<1>3. Joint(seqs, n) = [p \in 0 .. w[n] - 1 |-> seqs[H(p)][p - w[H(p)] + 1]]
  BY DEF Joint
<1> HIDE DEF w
<1>4. ASSUME NEW h \in 0 .. n - 1, NEW k \in 1 .. Len(seqs[h])
      PROVE  w[h] + k - 1 \in 0 .. w[n] - 1 /\ Joint(seqs, n)[w[h] + k - 1] = seqs[h][k]
  <2> DEFINE p == w[h] + k - 1
  <2>1. /\ h \in 0 .. n /\ h + 1 \in 0 .. n /\ n \in 0 .. n /\ h + 1 <= n
    BY <1>1
  <2>2. w[h] \in Nat /\ w[h + 1] \in Nat /\ w[n] \in Nat /\ w[h + 1] = w[h] + Len(seqs[h]) /\ w[h + 1] <= w[n]
    BY <1>2, <2>1
  <2>3. Len(seqs[h]) \in Nat
    BY ListLengths
  <2>4. p \in 0 .. w[n] - 1 /\ w[h] <= p /\ p < w[h + 1] /\ p - w[h] + 1 = k
    <3> DEFINE u == w[h]
               v == w[h + 1]
               z == w[n]
               l == Len(seqs[h])
    <3>1. u \in Nat /\ v \in Nat /\ z \in Nat /\ l \in Nat /\ v = u + l /\ v <= z /\ k \in 1 .. l /\ p = u + k - 1
      BY <2>2, <2>3
    <3> HIDE DEF u, v, z, l, p
    <3>2. p \in 0 .. z - 1 /\ u <= p /\ p < v /\ p - u + 1 = k
      BY <3>1
    <3> QED BY <3>2 DEF u, v, z
  <2> HIDE DEF p
  <2>5. \A ix \in 0 .. n - 1 : w[ix] <= p /\ p < w[ix + 1] => ix = h
    <3> TAKE ix \in 0 .. n - 1
    <3>1. ix \in 0 .. n /\ ix + 1 \in 0 .. n /\ w[ix] \in Nat /\ w[ix + 1] \in Nat /\ p \in Nat
      BY <1>1, <1>2, <2>2, <2>4
    <3>2. ix < h => w[ix + 1] <= w[h]
      BY <1>1, <1>2, <2>1, <3>1
    <3>3. h < ix => w[h + 1] <= w[ix]
      BY <1>1, <1>2, <2>1, <3>1
    <3> QED BY <1>1, <2>1, <2>2, <2>4, <3>1, <3>2, <3>3
  <2>6. H(p) = h
    BY <2>4, <2>5
  <2>7. Joint(seqs, n)[p] = seqs[H(p)][p - w[H(p)] + 1]
    <3> HIDE DEF H
    <3> QED BY <1>3, <2>4
  <2>8. Joint(seqs, n)[p] = seqs[h][k]
    <3> HIDE DEF H
    <3> QED BY <2>4, <2>6, <2>7
  <2> QED BY <2>4, <2>8 DEF p
<1>5. ASSUME NEW p \in 0 .. w[n] - 1
      PROVE  \E h \in 0 .. n - 1 : \E k \in 1 .. Len(seqs[h]) : p = w[h] + k - 1
  <2>1. n \in 0 .. n
    BY <1>1
  <2>2. p \in Nat /\ p < w[n]
    BY <1>2, <2>1
  <2>3. PICK h \in 0 .. n - 1 : w[h] <= p /\ p < w[h + 1]
    BY <1>1, <1>2, <2>2, AreaOf
  <2>4. h \in 0 .. n /\ w[h] \in Nat /\ w[h + 1] = w[h] + Len(seqs[h]) /\ Len(seqs[h]) \in Nat
    BY <1>1, <1>2, ListLengths
  <2>5. p - w[h] + 1 \in 1 .. Len(seqs[h]) /\ p = w[h] + (p - w[h] + 1) - 1
    BY <2>2, <2>3, <2>4
  <2> QED BY <2>5
<1> QED BY <1>3, <1>4, <1>5 DEF w

-----------------------------------------------------------------------------
(* What the positions of the second pass hold *)

\* The entry of an edge in the rows.
FinalEdge(x) == [low |-> SourceRowOf(x) % Part, r |-> OwnerR(To(x)),
                 d |-> Number(To(x)), orig |-> Local(To(x))]
Before(S) == {q \in S \X S : Earlier(q[1], q[2])}

\* The order in which the edges of an iteration arrive.
LEMMA ArrivalOrder ==
  ASSUME EdgesOK, NEW S \in SUBSET Sends
  PROVE  Linear(S, Before(S))
<1> DEFINE L == Before(S)
<1>1. \A x \in S : x[1] \in Int /\ x[2] \in Int /\ x[3] \in Int /\ x = <<x[1], x[2], x[3]>>
  BY SendsTyped, RankFinite
<1>2. \A x, y \in S : <<x, y>> \in L <=> Earlier(x, y)
  BY DEF Before
<1> HIDE DEF L
<1>3. \A x \in S : <<x, x>> \notin L
  BY <1>1, <1>2 DEF Earlier
<1>4. \A x, y, z \in S : <<x, y>> \in L /\ <<y, z>> \in L => <<x, z>> \in L
  BY <1>1, <1>2 DEF Earlier
<1>5. \A x, y \in S : x = y \/ <<x, y>> \in L \/ <<y, x>> \in L
  <2> TAKE x, y \in S
  <2>1. /\ x[1] \in Int /\ x[2] \in Int /\ x[3] \in Int /\ x = <<x[1], x[2], x[3]>>
        /\ y[1] \in Int /\ y[2] \in Int /\ y[3] \in Int /\ y = <<y[1], y[2], y[3]>>
    BY <1>1
  <2>2. Earlier(x, y) \/ Earlier(y, x) \/ (x[1] = y[1] /\ x[2] = y[2] /\ x[3] = y[3])
    BY <2>1 DEF Earlier
  <2>3. x[1] = y[1] /\ x[2] = y[2] /\ x[3] = y[3] => x = y
    BY <2>1
  <2> QED BY <1>2, <2>2, <2>3
<1> QED BY <1>3, <1>4, <1>5 DEF Linear, L

\* The edges that come for a wide row get the next positions there, one each.
LEMMA Positions ==
  ASSUME EdgesOK, NEW r \in Rank, NEW n \in Nat, NEW h, wide[r][h] \in Nat,
         recv[r] = {Converted(x) : x \in Arriving(r, n)}
  PROVE  LET S == Coming(r, n, h)
             P(x) == Position(r, Converted(x))
         IN
         /\ \A x \in S : P(x) \in wide[r][h] .. wide[r][h] + Cardinality(S) - 1
         /\ \A x, y \in S : P(x) = P(y) => x = y
         /\ \A p \in wide[r][h] .. wide[r][h] + Cardinality(S) - 1 : \E x \in S : P(x) = p
<1> DEFINE S == Coming(r, n, h)
           L == Before(S)
           P(x) == Position(r, Converted(x))
           w == wide[r][h]
           m == Cardinality(S)
           D(x) == Cardinality(Lower(S, L, x))
<1>1. S \in SUBSET Sends /\ IsFiniteSet(S)
  <2>1. S \in SUBSET Sends
    BY DEF Coming, Arriving
  <2> QED BY <2>1, RowGrows
<1>2. /\ Cardinality(S) \in Nat
      /\ \A x \in S : D(x) \in 0 .. Cardinality(S) - 1
      /\ \A x, y \in S : D(x) = D(y) => x = y
      /\ \A k \in 0 .. Cardinality(S) - 1 : \E x \in S : D(x) = k
  <2>1. Linear(S, L)
    BY <1>1, ArrivalOrder
  <2> HIDE DEF S, L
  <2> QED BY <1>1, <2>1, RankInOrder
<1>3. \A x : Converted(x).id = x /\ High(Converted(x)) = RowOf(x)
  BY DEF Converted, High, SourceRow, RowOf, SourceRowOf
<1>4. ASSUME NEW x \in S PROVE P(x) = w + D(x)
  <2> DEFINE e == Converted(x)
             A == Lower(S, L, x)
             E == {f \in recv[r] : High(f) = High(e) /\ Earlier(f.id, e.id)}
             g == [y \in A |-> Converted(y)]
  <2>1. RowOf(x) = h /\ High(e) = h /\ e.id = x
    BY <1>3 DEF Coming
  <2>2. \A y \in A : y \in Arriving(r, n) /\ RowOf(y) = h /\ Earlier(y, x)
    BY DEF Coming, Before, Lower
  <2>3. g \in [A -> E]
    BY <1>3, <2>1, <2>2
  <2>4. \A y, z \in A : g[y] = g[z] => y = z
    <3> TAKE y, z \in A
    <3>1. g[y].id = y /\ g[z].id = z
      BY <1>3
    <3> HIDE DEF g
    <3> QED BY <3>1
  <2>5. \A f \in E : \E y \in A : g[y] = f
    <3> TAKE f \in E
    <3>1. PICK y \in Arriving(r, n) : f = Converted(y)
      OBVIOUS
    <3>2. y \in S /\ Earlier(y, x)
      BY <1>3, <2>1, <3>1 DEF Coming
    <3>3. y \in A
      BY <3>2 DEF Before, Lower
    <3> QED BY <3>1, <3>3
  <2>6. IsFiniteSet(A)
    <3>1. A \in SUBSET S
      BY DEF Lower
    <3> HIDE DEF A, S
    <3> QED BY <1>1, <3>1, FS_Subset
  <2>7. Position(r, e) = w + Cardinality(E)
    BY <2>1 DEF Position
  <2> HIDE DEF A, E, g
  <2>8. Cardinality(E) = Cardinality(A)
    BY <2>3, <2>4, <2>5, <2>6, SameSize
  <2> QED BY <2>7, <2>8 DEF A
<1> HIDE DEF D, P, S
<1>5. w \in Nat /\ m \in Nat
  BY <1>2
<1> HIDE DEF w
<1>6. \A x \in S : P(x) \in w .. w + m - 1 /\ D(x) \in 0 .. m - 1
  <2> TAKE x \in S
  <2>1. P(x) = w + D(x) /\ D(x) \in 0 .. m - 1
    BY <1>2, <1>4
  <2> HIDE DEF m
  <2> QED BY <1>5, <2>1
<1>7. \A x, y \in S : P(x) = P(y) => x = y
  <2> TAKE x, y \in S
  <2>1. P(x) = w + D(x) /\ P(y) = w + D(y) /\ D(x) \in Int /\ D(y) \in Int
    BY <1>4, <1>6
  <2>2. P(x) = P(y) => D(x) = D(y)
    BY <1>5, <2>1
  <2> QED BY <1>2, <2>2
<1>8. \A p \in w .. w + m - 1 : \E x \in S : P(x) = p
  <2> TAKE p \in w .. w + m - 1
  <2>1. p - w \in 0 .. m - 1 /\ w + (p - w) = p
    <3> HIDE DEF m
    <3> QED BY <1>5
  <2>2. PICK x \in S : D(x) = p - w
    BY <1>2, <2>1
  <2>3. P(x) = p
    BY <1>4, <2>1, <2>2
  <2> QED BY <2>3
<1> QED BY <1>6, <1>7, <1>8 DEF S, w, m, P

\* What is stored for an edge is its entry.
LEMMA StoredExact ==
  ASSUME EdgesOK, NEW r \in Rank, NEW n, NEW x \in Arriving(r, n)
  PROVE  StoredEdge(r, Converted(x)) = FinalEdge(x)
<1>1. x \in Sends /\ EdgeOwner(From(x), To(x)) = r
  BY DEF Arriving
<1>2. From(x) \in Nat /\ To(x) \in Nat
  BY <1>1, SendsTyped
<1>3. RankAt(OwnerR(To(x)), Column(r)) = Owner(To(x))
  BY <1>1, <1>2, EdgeOwnerParts, VertexParts
<1>4. /\ Converted(x).r = OwnerR(To(x)) /\ Converted(x).orig = Local(To(x))
      /\ SourceRow(Converted(x)) = SourceRowOf(x)
  BY DEF Converted, SourceRow, SourceRowOf
<1> QED BY <1>3, <1>4 DEF StoredEdge, TargetNumber, FinalEdge, Number

\* Consecutive ranges of numbers have nothing in common.
LEMMA RangesApart ==
  ASSUME NEW n \in Nat, NEW w \in [0 .. n -> Nat], \A k \in 0 .. n - 1 : w[k] <= w[k + 1],
         NEW ix \in 0 .. n - 1, NEW j \in 0 .. n - 1, NEW p \in Nat,
         w[ix] <= p, p < w[ix + 1], w[j] <= p, p < w[j + 1]
  PROVE  ix = j
<1>1. ix \in 0 .. n /\ ix + 1 \in 0 .. n /\ j \in 0 .. n /\ j + 1 \in 0 .. n
  OBVIOUS
<1>2. w \in [0 .. n -> Int]
  OBVIOUS
<1>3. ix < j => w[ix + 1] <= w[j]
  <2>1. ix < j => ix + 1 <= j
    OBVIOUS
  <2> QED BY <1>1, <1>2, <2>1, StepsGrow
<1>4. j < ix => w[j + 1] <= w[ix]
  <2>1. j < ix => j + 1 <= ix
    OBVIOUS
  <2> QED BY <1>1, <1>2, <2>1, StepsGrow
<1>5. w[ix] \in Nat /\ w[j] \in Nat /\ w[ix + 1] \in Nat /\ w[j + 1] \in Nat
  BY <1>1
<1> QED BY <1>3, <1>4, <1>5

\* Room in a row: from a to b something is there, z more come behind it, the
\* next row begins at d.
LEMMA Rooms ==
  ASSUME NEW a \in Nat, NEW b \in Nat, NEW z \in Nat, NEW d \in Nat, NEW m \in Nat,
         a <= b, b + z <= d, d <= m
  PROVE  /\ \A p \in a .. b - 1 : p \in Nat /\ a <= p /\ p < b /\ p < d /\ p \in a .. d - 1 /\ p \in 0 .. m - 1 /\ p \in a .. b + z - 1
         /\ \A p \in b .. b + z - 1 : p \in Nat /\ a <= p /\ b <= p /\ p < d /\ p \in a .. d - 1 /\ p \in 0 .. m - 1 /\ p \in a .. b + z - 1
         /\ \A p \in a .. b + z - 1 : p \in a .. b - 1 \/ p \in b .. b + z - 1
         /\ \A p \in a .. d - 1 : p \in Nat /\ a <= p /\ p < d
OBVIOUS

\* In the middle of the second pass each wide row begins with the entries of its
\* edges of the iterations so far.
EntriesIn(r, n, a, c, w) ==
  /\ DOMAIN a = 0 .. c[NumWide] - 1
  /\ \A h \in 0 .. NumWide - 1 :
       {a[p] : p \in c[h] .. w[h] - 1} = {FinalEdge(x) : x \in InRow(r, n, h)}
ArrayOK ==
  \A r \in Rank : place[r] \in Filling =>
    EntriesIn(r, loop[r], array[r], counted[r], wide[r])

\* Where an iteration stores: behind what is there and before the next row.
LEMMA StoreRoom ==
  ASSUME Ordered, NEW r \in Rank, NEW n \in Nat,
         counted[r] = WideStarts(r),
         wide[r] = [h \in 0 .. NumWide |-> counted[r][h] + Cardinality(InRow(r, n, h))],
         NEW h \in 0 .. NumWide - 1
  PROVE  /\ counted[r][h] \in Nat /\ wide[r][h] \in Nat /\ counted[r][h + 1] \in Nat
         /\ Cardinality(Coming(r, n, h)) \in Nat
         /\ counted[r][h] <= wide[r][h]
         /\ wide[r][h] + Cardinality(Coming(r, n, h)) <= counted[r][h + 1]
<1> DEFINE J == InRow(r, NumLoops, h)
           I == InRow(r, n + 1, h)
<1>1. EdgesOK /\ NumWide \in Nat /\ h \in 0 .. NumWide
  BY Widths DEF Ordered, PhaseOK
<1>2. /\ counted[r] \in [0 .. NumWide -> Nat]
      /\ counted[r][h + 1] = counted[r][h] + Cardinality(J)
  BY WideStartsExact
<1>3. /\ Cardinality(Coming(r, n, h)) \in Nat /\ Cardinality(InRow(r, n, h)) \in Nat
      /\ Cardinality(I) = Cardinality(InRow(r, n, h)) + Cardinality(Coming(r, n, h))
      /\ IsFiniteSet(I)
  BY <1>1, RowGrows
<1>4. IsFiniteSet(J) /\ I \in SUBSET J
  <2>1. IsFiniteSet(J)
    BY RowLengthExact
  <2>2. \A x \in Sends : Read(x) < NumLoops
    BY <1>1, SendsTyped DEF Read
  <2> QED BY <2>1, <2>2 DEF InRow, Kept
<1> HIDE DEF I, J
<1>5. Cardinality(I) <= Cardinality(J) /\ Cardinality(J) \in Nat
  BY <1>4, FS_Subset, FS_CardinalityType
<1>6. wide[r][h] = counted[r][h] + Cardinality(InRow(r, n, h)) /\ counted[r][h] \in Nat
  BY <1>1, <1>2
<1> QED BY <1>2, <1>3, <1>5, <1>6

LEMMA StoreExact ==
  ASSUME Ordered, NEW r \in Rank, NEW n \in Nat,
         counted[r] = WideStarts(r),
         wide[r] = [h \in 0 .. NumWide |-> counted[r][h] + Cardinality(InRow(r, n, h))],
         recv[r] = {Converted(x) : x \in Arriving(r, n)},
         EntriesIn(r, n, array[r], counted[r], wide[r])
  PROVE  EntriesIn(r, n + 1, Stored(r), counted[r], Advanced(r))
<1> DEFINE a == array[r]
           b == Stored(r)
           c == counted[r]
           w == wide[r]
           Z(h) == Cardinality(Coming(r, n, h))
           P(x) == Position(r, Converted(x))
<1>1. EdgesOK /\ NumWide \in Nat
  BY Widths DEF Ordered, PhaseOK
<1>2. \A h \in 0 .. NumWide - 1 :
        /\ c[h] \in Nat /\ w[h] \in Nat /\ c[h + 1] \in Nat /\ Z(h) \in Nat
        /\ c[h] <= w[h] /\ w[h] + Z(h) <= c[h + 1]
  BY StoreRoom
<1>3. c \in [0 .. NumWide -> Nat] /\ \A h \in 0 .. NumWide - 1 : c[h] <= c[h + 1]
  <2>1. c \in [0 .. NumWide -> Nat]
    BY WideStartsExact
  <2>2. ASSUME NEW h \in 0 .. NumWide - 1 PROVE c[h] <= c[h + 1]
    <3>1. /\ c[h] \in Nat /\ w[h] \in Nat /\ c[h + 1] \in Nat /\ Z(h) \in Nat
          /\ c[h] <= w[h] /\ w[h] + Z(h) <= c[h + 1]
      BY <1>2
    <3> HIDE DEF c, w, Z
    <3> QED BY <3>1
  <2> QED BY <2>1, <2>2
<1>4. ASSUME NEW x \in Arriving(r, n)
      PROVE  /\ RowOf(x) \in 0 .. NumWide - 1 /\ x \in Coming(r, n, RowOf(x))
             /\ P(x) \in w[RowOf(x)] .. w[RowOf(x)] + Z(RowOf(x)) - 1
  <2>1. RowOf(x) \in 0 .. NumWide - 1 /\ x \in Coming(r, n, RowOf(x))
    BY WideRowOf DEF Arriving, Coming
  <2>2. w[RowOf(x)] \in Nat
    BY <1>2, <2>1
  <2> QED BY <1>1, <2>1, <2>2, Positions
<1>5. ASSUME NEW x \in Arriving(r, n), NEW h \in 0 .. NumWide - 1, P(x) \in c[h] .. c[h + 1] - 1
      PROVE  RowOf(x) = h
  <2> DEFINE k == RowOf(x)
             q == P(x)
  <2>1. k \in 0 .. NumWide - 1 /\ q \in w[k] .. w[k] + Z(k) - 1
    BY <1>4
  <2>2. q \in c[h] .. c[h + 1] - 1
    BY <1>5
  <2> HIDE DEF k, q, Z
  <2>3. /\ c[k] \in Nat /\ w[k] \in Nat /\ c[k + 1] \in Nat /\ Z(k) \in Nat
        /\ c[k] <= w[k] /\ w[k] + Z(k) <= c[k + 1] /\ c[h] \in Nat /\ c[h + 1] \in Nat
        /\ w[h] \in Nat /\ Z(h) \in Nat /\ c[h] <= w[h] /\ w[h] + Z(h) <= c[h + 1]
    BY <1>2, <2>1
  <2> HIDE DEF c, w
  <2>4. q \in Nat /\ c[k] <= q /\ q < c[k + 1] /\ c[h] <= q /\ q < c[h + 1]
    <3>1. q \in Nat /\ c[k] <= q /\ q < c[k + 1]
      <4> DEFINE s == c[k]
                 t == c[k + 1]
                 u == w[k]
                 z == Z(k)
      <4>1. s \in Nat /\ t \in Nat /\ u \in Nat /\ z \in Nat /\ s <= u /\ u + z <= t /\ q \in u .. u + z - 1
        BY <2>1, <2>3
      <4> HIDE DEF s, t, u, z
      <4>2. q \in Nat /\ s <= q /\ q < t
        BY <4>1
      <4> QED BY <4>2 DEF s, t
    <3>2. c[h] <= q /\ q < c[h + 1]
      <4> DEFINE s == c[h]
                 t == c[h + 1]
      <4>1. s \in Nat /\ t \in Nat /\ q \in s .. t - 1
        BY <2>2, <2>3
      <4> HIDE DEF s, t
      <4>2. s <= q /\ q < t
        BY <4>1
      <4> QED BY <4>2 DEF s, t
    <3> QED BY <3>1, <3>2
  <2>5. k = h
    BY <1>1, <1>3, <2>1, <2>4, RangesApart
  <2> QED BY <2>5 DEF k
<1>6. DOMAIN b = DOMAIN a /\ DOMAIN a = 0 .. c[NumWide] - 1
  BY DEF Stored, EntriesIn
<1>7. \A h \in 0 .. NumWide - 1 : c[h + 1] <= c[NumWide] /\ c[NumWide] \in Nat
  <2> TAKE h \in 0 .. NumWide - 1
  <2>1. h + 1 \in 0 .. NumWide /\ NumWide \in 0 .. NumWide /\ h + 1 <= NumWide /\ c \in [0 .. NumWide -> Int]
    BY <1>1, <1>3
  <2> HIDE DEF c
  <2> QED BY <1>1, <1>3, <2>1, StepsGrow
<1>8. ASSUME NEW h \in 0 .. NumWide - 1, NEW p \in c[h] .. w[h] - 1
      PROVE  b[p] = a[p]
  <2>1. /\ c[h] \in Nat /\ w[h] \in Nat /\ c[h + 1] \in Nat /\ Z(h) \in Nat /\ c[h] <= w[h]
        /\ w[h] + Z(h) <= c[h + 1] /\ c[h + 1] <= c[NumWide] /\ c[NumWide] \in Nat
    BY <1>2, <1>7
  <2> HIDE DEF Z, c, w
  <2>2. p \in c[h] .. c[h + 1] - 1 /\ p \in 0 .. c[NumWide] - 1 /\ p < w[h]
    <3> DEFINE s == c[h]
               u == w[h]
               t == c[h + 1]
               m == c[NumWide]
    <3>1. /\ s \in Nat /\ u \in Nat /\ t \in Nat /\ m \in Nat /\ Z(h) \in Nat /\ u + Z(h) <= t /\ t <= m
          /\ p \in s .. u - 1
      BY <2>1
    <3> HIDE DEF s, u, t, m
    <3>2. p \in s .. t - 1 /\ p \in 0 .. m - 1 /\ p < u
      BY <3>1
    <3> QED BY <3>2 DEF s, u, t, m
  <2>3. ASSUME NEW e \in recv[r], Position(r, e) = p PROVE FALSE
    <3>1. PICK x \in Arriving(r, n) : e = Converted(x)
      BY <2>3
    <3>2. P(x) = p
      BY <2>3, <3>1
    <3>3. RowOf(x) = h
      <4> HIDE DEF P
      <4> QED BY <1>5, <2>2, <3>2
    <3>4. P(x) \in w[h] .. w[h] + Z(h) - 1
      BY <1>4, <3>3
    <3> HIDE DEF P
    <3> QED BY <2>1, <2>2, <3>2, <3>4
  <2>4. p \in DOMAIN array[r]
    BY <1>6, <2>2
  <2> QED BY <2>3, <2>4 DEF Stored
<1>9. ASSUME NEW h \in 0 .. NumWide - 1, NEW x \in Coming(r, n, h)
      PROVE  P(x) \in w[h] .. w[h] + Z(h) - 1 /\ b[P(x)] = FinalEdge(x)
  <2>1. /\ c[h] \in Nat /\ w[h] \in Nat /\ c[h + 1] \in Nat /\ Z(h) \in Nat /\ c[h] <= w[h]
        /\ w[h] + Z(h) <= c[h + 1] /\ c[h + 1] <= c[NumWide] /\ c[NumWide] \in Nat
    BY <1>2, <1>7
  <2>2. x \in Arriving(r, n) /\ RowOf(x) = h
    BY DEF Coming
  <2>3. P(x) \in w[h] .. w[h] + Z(h) - 1
    BY <1>4, <2>2
  <2> DEFINE p == P(x)
  <2> HIDE DEF Z, c, w, P
  <2>4. p \in c[h] .. c[h + 1] - 1 /\ p \in 0 .. c[NumWide] - 1
    <3> DEFINE s == c[h]
               u == w[h]
               t == c[h + 1]
               m == c[NumWide]
    <3>1. /\ s \in Nat /\ u \in Nat /\ t \in Nat /\ m \in Nat /\ Z(h) \in Nat /\ s <= u /\ u + Z(h) <= t /\ t <= m
          /\ p \in u .. u + Z(h) - 1
      BY <2>1, <2>3
    <3> HIDE DEF s, u, t, m, p
    <3>2. p \in s .. t - 1 /\ p \in 0 .. m - 1
      BY <3>1
    <3> QED BY <3>2 DEF s, t, m
  <2>5. ASSUME NEW e \in recv[r], Position(r, e) = p PROVE e = Converted(x)
    <3>1. PICK y \in Arriving(r, n) : e = Converted(y)
      BY <2>5
    <3>2. P(y) = p
      BY <2>5, <3>1 DEF P
    <3>3. RowOf(y) = h
      BY <1>5, <2>4, <3>2
    <3>4. y \in Coming(r, n, h)
      BY <3>3 DEF Coming
    <3>5. \A u, v \in Coming(r, n, h) : Position(r, Converted(u)) = Position(r, Converted(v)) => u = v
      <4>1. wide[r][h] \in Nat
        BY <2>1 DEF w
      <4> QED BY <1>1, <4>1, Positions
    <3>6. y = x
      BY <3>2, <3>4, <3>5 DEF P
    <3> QED BY <3>1, <3>6
  <2>6. Converted(x) \in recv[r] /\ Position(r, Converted(x)) = p
    BY <2>2 DEF P
  <2>7. p \in DOMAIN array[r]
    BY <1>6, <2>4 DEF a, c
  <2>8. Stored(r)[p] = StoredEdge(r, Converted(x))
    <3> HIDE DEF p
    <3>1. (CHOOSE e \in recv[r] : Position(r, e) = p) = Converted(x)
      BY <2>5, <2>6
    <3> QED BY <2>6, <2>7, <3>1 DEF Stored
  <2> QED BY <1>1, <2>2, <2>3, <2>8, StoredExact DEF P
<1>10. ASSUME NEW h \in 0 .. NumWide - 1
       PROVE  {b[p] : p \in c[h] .. Advanced(r)[h] - 1} = {FinalEdge(x) : x \in InRow(r, n + 1, h)}
  <2> DEFINE S == Coming(r, n, h)
             I == InRow(r, n, h)
  <2>1. /\ c[h] \in Nat /\ w[h] \in Nat /\ Z(h) \in Nat /\ c[h] <= w[h]
    BY <1>2
  <2>2. Advanced(r)[h] = w[h] + Z(h)
    <3>1. h \in 0 .. NumWide
      BY <1>1
    <3> QED BY <1>1, <3>1, RowReceived DEF Advanced
  <2>3. InRow(r, n + 1, h) = I \cup S
    BY <1>1, RowGrows
  <2>4. {a[p] : p \in c[h] .. w[h] - 1} = {FinalEdge(x) : x \in I}
    BY DEF EntriesIn
  <2>5. \A p \in c[h] .. w[h] - 1 : b[p] = a[p]
    BY <1>8
  <2>6. \A x \in S : P(x) \in w[h] .. w[h] + Z(h) - 1 /\ b[P(x)] = FinalEdge(x)
    BY <1>9
  <2>7. \A p \in w[h] .. w[h] + Z(h) - 1 : \E x \in S : P(x) = p
    BY <1>1, <2>1, Positions
  <2> HIDE DEF a, b, c, w, Z, P, S, I
  <2>8. /\ \A p \in c[h] .. w[h] - 1 : p \in c[h] .. w[h] + Z(h) - 1
        /\ \A p \in w[h] .. w[h] + Z(h) - 1 : p \in c[h] .. w[h] + Z(h) - 1
        /\ \A p \in c[h] .. w[h] + Z(h) - 1 : p \in c[h] .. w[h] - 1 \/ p \in w[h] .. w[h] + Z(h) - 1
    <3>1. w[h] + Z(h) \in Nat /\ w[h] + Z(h) <= w[h] + Z(h)
      BY <2>1
    <3> QED BY <2>1, <3>1, Rooms
  <2> DEFINE A == c[h] .. w[h] - 1
             B == w[h] .. w[h] + Z(h) - 1
             D == c[h] .. w[h] + Z(h) - 1
  <2>11. /\ {a[p] : p \in A} = {FinalEdge(x) : x \in I} /\ \A p \in A : b[p] = a[p] /\ p \in D
         /\ \A x \in S : P(x) \in B /\ b[P(x)] = FinalEdge(x)
         /\ \A p \in B : p \in D /\ \E x \in S : P(x) = p
         /\ \A p \in D : p \in A \/ p \in B
    BY <2>4, <2>5, <2>6, <2>7, <2>8
  <2>12. c[h] .. Advanced(r)[h] - 1 = D
    BY <2>1, <2>2
  <2> HIDE DEF A, B, D
  <2>9. \A p \in D : \E x \in I \cup S : b[p] = FinalEdge(x)
    <3> TAKE p \in D
    <3>1. CASE p \in A
      <4>1. a[p] \in {FinalEdge(x) : x \in I} /\ b[p] = a[p]
        BY <2>11, <3>1
      <4> QED BY <4>1
    <3>2. CASE p \in B
      <4>1. PICK x \in S : P(x) = p
        BY <2>11, <3>2
      <4> QED BY <2>11, <4>1
    <3> QED BY <2>11, <3>1, <3>2
  <2>10. \A x \in I \cup S : \E p \in D : b[p] = FinalEdge(x)
    <3> TAKE x \in I \cup S
    <3>1. CASE x \in S
      BY <2>11, <3>1
    <3>2. CASE x \in I
      <4>1. FinalEdge(x) \in {a[p] : p \in A}
        BY <2>11, <3>2
      <4>2. PICK p \in A : a[p] = FinalEdge(x)
        BY <4>1
      <4> QED BY <2>11, <4>2
    <3> QED BY <3>1, <3>2
  <2>13. {b[p] : p \in D} = {FinalEdge(x) : x \in I \cup S}
    BY <2>9, <2>10
  <2> QED BY <2>3, <2>12, <2>13
<1> QED BY <1>6, <1>10 DEF EntriesIn

LEMMA ArrayInit ==
  ASSUME BuildInit
  PROVE  ArrayOK
BY DEF BuildInit, ArrayOK, Filling

LEMMA FinalEdgesSame ==
  ASSUME edges' = edges, reordering' = reordering,
         rows' = rows, numOrig' = numOrig, numLocal' = numLocal, vertexes' = vertexes
  PROVE  /\ Sends' = Sends
         /\ \A x : /\ From(x)' = From(x) /\ To(x)' = To(x) /\ Read(x)' = Read(x)
                   /\ RowOf(x)' = RowOf(x) /\ SourceRowOf(x)' = SourceRowOf(x)
                   /\ FinalEdge(x)' = FinalEdge(x)
<1>1. Sends' = Sends /\ \A x : From(x)' = From(x) /\ To(x)' = To(x)
  BY ListSame
<1>2. \A x : SourceRowOf(x)' = SourceRowOf(x)
  BY NumbersSame
<1>3. \A r, v : Reordered(r, v)' = Reordered(r, v)
  BY LayoutSame
<1>4. Locals' = Locals
  BY LayoutSame
<1>5. \A x : RowOf(x)' = RowOf(x)
  BY <1>2 DEF RowOf
<1>6. \A x : Read(x)' = Read(x)
  BY DEF Read
<1>7. \A x : Number(To(x))' = Number(To(x))
  BY <1>1, <1>3, <1>4 DEF Number, Reordered, To, Locals
<1>8. \A x : FinalEdge(x)' = FinalEdge(x)
  BY <1>1, <1>2, <1>7 DEF FinalEdge, To
<1> QED BY <1>1, <1>2, <1>5, <1>6, <1>8

\* At the beginning of the second pass nothing is stored.
LEMMA NothingStored ==
  ASSUME Ordered, NEW r \in Rank
  PROVE  EntriesIn(r, 0, [p \in 0 .. WideStarts(r)[NumWide] - 1 |-> NoEdge], WideStarts(r), WideStarts(r))
<1> DEFINE c == WideStarts(r)
           a == [p \in 0 .. c[NumWide] - 1 |-> NoEdge]
<1>1. EdgesOK /\ NumWide \in Nat /\ c \in [0 .. NumWide -> Nat]
  BY Widths, WideStartsExact DEF Ordered, PhaseOK
<1>2. ASSUME NEW h \in 0 .. NumWide - 1
      PROVE  {a[p] : p \in c[h] .. c[h] - 1} = {FinalEdge(x) : x \in InRow(r, 0, h)}
  <2>1. \A x \in Sends : ~ (Read(x) < 0)
    BY <1>1, SendsTyped DEF Read
  <2>2. InRow(r, 0, h) = {}
    BY <2>1 DEF InRow, Kept
  <2>3. c[h] \in Nat
    BY <1>1
  <2> DEFINE m == c[h]
  <2>4. m .. m - 1 = {}
    <3> HIDE DEF m, c
    <3>1. m \in Nat
      BY <2>3 DEF m
    <3> QED BY <3>1
  <2>5. {a[p] : p \in {}} = {}
    OBVIOUS
  <2> HIDE DEF a
  <2> QED BY <2>2, <2>4, <2>5
<1> QED BY <1>2 DEF EntriesIn

LEMMA ArrayStep ==
  ASSUME PhaseOK, CountOK, OrderOK, LayoutOK, FillOK, ArrayOK, [BuildNext]_buildVars
  PROVE  ArrayOK'
<1> SUFFICES ASSUME NEW r \in Rank, place'[r] \in Filling
             PROVE  EntriesIn(r, loop[r], array[r], counted[r], wide[r])'
  BY DEF ArrayOK, Filling
<1> DEFINE Goal == EntriesIn(r, loop'[r], array'[r], counted'[r], wide'[r])
<1>1. Goal /\ place[r] \notin First => EntriesIn(r, loop[r], array[r], counted[r], wide[r])'
  <2> SUFFICES ASSUME Goal, place[r] \notin First PROVE EntriesIn(r, loop[r], array[r], counted[r], wide[r])'
    OBVIOUS
  <2>1. rows' = rows /\ numOrig' = numOrig /\ numLocal' = numLocal /\ vertexes' = vertexes
        /\ edges' = edges /\ reordering' = reordering
    BY OrderStays, EdgesStay
  <2>2. NumWide' = NumWide
    BY <2>1, LayoutSame
  <2>3. /\ Sends' = Sends
        /\ \A x : /\ From(x)' = From(x) /\ To(x)' = To(x) /\ Read(x)' = Read(x)
                  /\ RowOf(x)' = RowOf(x) /\ FinalEdge(x)' = FinalEdge(x)
    BY <2>1, FinalEdgesSame
  <2>4. \A h : (InRow(r, loop[r], h))' = InRow(r, loop'[r], h)
    BY <2>1, <2>3 DEF InRow, Kept, Read, From, To
  <2>5. DOMAIN array'[r] = 0 .. counted'[r][NumWide'] - 1
    BY <2>2 DEF EntriesIn
  <2>6. ASSUME NEW h \in 0 .. NumWide' - 1
        PROVE  {array'[r][p] : p \in counted'[r][h] .. wide'[r][h] - 1}
                 = {FinalEdge(x)' : x \in (InRow(r, loop[r], h))'}
    <3>1. {array'[r][p] : p \in counted'[r][h] .. wide'[r][h] - 1} = {FinalEdge(x) : x \in InRow(r, loop'[r], h)}
      BY <2>2 DEF EntriesIn
    <3> DEFINE J == InRow(r, loop'[r], h)
    <3>2. (InRow(r, loop[r], h))' = J
      BY <2>4
    <3> HIDE DEF J
    <3>3. {FinalEdge(x)' : x \in J} = {FinalEdge(x) : x \in J}
      BY <2>3
    <3> QED BY <3>1, <3>2, <3>3 DEF J
  <2> QED BY <2>5, <2>6 DEF EntriesIn
<1> HIDE DEF Goal
<1>2. SUFFICES Goal /\ place[r] \notin First
  BY <1>1
<1>3. EdgesOK /\ loop[r] \in Nat
  BY DEF PhaseOK
<1>4. CASE place[r] = "layout" /\ place'[r] = "store"
  <2>1. /\ loop'[r] = 0 /\ counted'[r] = WideStarts(r) /\ wide'[r] = WideStarts(r)
        /\ array'[r] = [p \in 0 .. WideStarts(r)[NumWide] - 1 |-> NoEdge]
    BY <1>4, LayoutStays DEF Early
  <2>2. place[r] \notin First
    BY <1>4 DEF First
  <2>3. Ordered
    BY <2>2, AllOrdered
  <2> QED BY <2>1, <2>2, <2>3, NothingStored DEF Goal
<1>5. CASE /\ place[r] \in Filling /\ loop'[r] = loop[r] /\ counted'[r] = counted[r]
           /\ wide'[r] = wide[r] /\ array'[r] = array[r]
  BY <1>5 DEF Goal, ArrayOK, First, Filling
<1>6. CASE /\ place[r] = "targets" /\ place'[r] = "store"
           /\ loop'[r] = loop[r] + 1 /\ counted'[r] = counted[r]
           /\ wide'[r] = Advanced(r) /\ array'[r] = Stored(r)
  <2>1. recv[r] = {Converted(x) : x \in Arriving(r, loop[r])}
    BY <1>6 DEF FillOK
  <2>2. wide[r] = [h \in 0 .. NumWide |-> counted[r][h] + Cardinality(InRow(r, loop[r], h))]
    BY <1>6 DEF FillOK, Filling
  <2>3. place[r] \notin First
    BY <1>6 DEF First
  <2>4. counted[r] = WideStarts(r)
    BY <1>6 DEF LayoutOK, Early
  <2>5. EntriesIn(r, loop[r], array[r], counted[r], wide[r])
    BY <1>6 DEF ArrayOK, Filling
  <2>6. EntriesIn(r, loop[r] + 1, Stored(r), counted[r], Advanced(r))
    BY <1>3, <2>1, <2>2, <2>3, <2>4, <2>5, AllOrdered, StoreExact
  <2> QED BY <1>6, <2>3, <2>6 DEF Goal
<1>7. CASE place'[r] = place[r]
  <2>1. place[r] \in Filling
    BY <1>7
  <2> QED BY <1>5, <1>6, <1>7, <2>1, FillSteps DEF Filling
<1> QED BY <1>4, <1>5, <1>6, <1>7, FillSteps DEF Filling

-----------------------------------------------------------------------------
(* Sorting, merging and cutting the rows *)

\* A row without duplicates holds each of its entries once, in order.
LEMMA MergedExact ==
  ASSUME NEW E, IsFiniteSet(E), \A e \in E : SortKey(e) \in Nat,
         \A e, f \in E : SortKey(e) = SortKey(f) => e = f
  PROVE  /\ Len(Merged(E)) \in Nat /\ DOMAIN Merged(E) = 1 .. Len(Merged(E))
         /\ \A k \in 1 .. Len(Merged(E)) : Merged(E)[k] \in E
         /\ \A j, k \in 1 .. Len(Merged(E)) : j < k => SortKey(Merged(E)[j]) < SortKey(Merged(E)[k])
         /\ \A e \in E : \E k \in 1 .. Len(Merged(E)) : Merged(E)[k] = e
<1> DEFINE f == [e \in E |-> SortKey(e)]
           K == {SortKey(e) : e \in E}
           keys == Ascending(K)
           n == Cardinality(K)
           m == Merged(E)
<1>1. IsFiniteSet(K) /\ K \in SUBSET Nat
  <2>1. f = [x \in E |-> f[x]] /\ K = {f[x] : x \in E}
    OBVIOUS
  <2>2. K \in SUBSET Nat
    OBVIOUS
  <2> HIDE DEF f, K
  <2>3. IsFiniteSet({f[x] : x \in E})
    BY <2>1, ImageFinite
  <2> QED BY <2>1, <2>2, <2>3
<1>2. m = [k \in DOMAIN keys |-> CHOOSE e \in E : SortKey(e) = keys[k]]
  BY DEF Merged
<1>3. \A x \in K : \E e \in E : SortKey(e) = x
  OBVIOUS
<1>4. \A e \in E : SortKey(e) \in K
  OBVIOUS
<1> HIDE DEF K, m
<1>5. /\ n \in Nat /\ keys \in [1 .. n -> K]
      /\ \A j, k \in 1 .. n : j < k => keys[j] < keys[k]
      /\ \A x \in K : \E k \in 1 .. n : keys[k] = x
  BY <1>1, AscendingExact
<1> HIDE DEF keys, n
<1>6. \A k \in 1 .. n : m[k] \in E /\ SortKey(m[k]) = keys[k]
  <2> TAKE k \in 1 .. n
  <2>1. keys[k] \in K /\ k \in DOMAIN keys
    BY <1>5
  <2>2. \E e \in E : SortKey(e) = keys[k]
    BY <1>3, <2>1
  <2> QED BY <1>2, <2>1, <2>2
<1>7. DOMAIN m = 1 .. n
  BY <1>2, <1>5
<1>8. Len(m) = n
  BY <1>5, <1>7
<1>9. \A e \in E : \E k \in 1 .. n : m[k] = e
  <2> TAKE e \in E
  <2>1. PICK k \in 1 .. n : keys[k] = SortKey(e)
    BY <1>4, <1>5
  <2>2. m[k] \in E /\ SortKey(m[k]) = SortKey(e)
    BY <1>6, <2>1
  <2> QED BY <2>2
<1>10. \A j, k \in 1 .. n : j < k => SortKey(m[j]) < SortKey(m[k])
  BY <1>5, <1>6
<1> QED BY <1>5, <1>6, <1>7, <1>8, <1>9, <1>10 DEF m

\* Two numbers with the same quotient and remainder are the same.
LEMMA DivisionSame ==
  ASSUME NEW x \in Nat, NEW y \in Nat, NEW c \in Nat, c > 0, x \div c = y \div c, x % c = y % c
  PROVE  x = y
<1> DEFINE F(q, m) == (c * q) + m
<1>1. x = F(x \div c, x % c)
  BY DivisionMod
<1>2. y = F(y \div c, y % c)
  BY DivisionMod
<1> HIDE DEF F
<1> QED BY <1>1, <1>2

\* Positions in the order of their rows: b tells the row of a position, w where
\* the wide rows begin, a what is there, with the low part of the row.
RowsAt(B, a, w, b) ==
  /\ NumWide \in Nat /\ w \in [0 .. NumWide -> Nat]
  /\ \A h \in 0 .. NumWide - 1 : w[h] <= w[h + 1] /\ w[h + 1] <= w[NumWide]
  /\ b \in [0 .. w[NumWide] - 1 -> B]
  /\ \A p, q \in 0 .. w[NumWide] - 1 : p <= q => b[p] <= b[q]
  /\ \A ix \in B : \E p \in 0 .. w[NumWide] - 1 : b[p] = ix
  /\ \A ix \in B : ix \div Part \in 0 .. NumWide - 1
  /\ \A p \in 0 .. w[NumWide] - 1 : \A h \in 0 .. NumWide - 1 :
       b[p] \div Part = h <=> w[h] <= p /\ p < w[h + 1]
  /\ \A p \in 0 .. w[NumWide] - 1 : a[p].low = b[p] % Part

\* The start of a row divides the positions by their rows.
LEMMA RowStartAt ==
  ASSUME NEW B \in SUBSET Nat, IsFiniteSet(B), NEW a, NEW w, NEW b, RowsAt(B, a, w, b),
         NEW k \in 0 .. Cardinality(B) - 1
  PROVE  /\ RowStarts(B, a, w)[k] \in 0 .. w[NumWide]
         /\ \A p \in 0 .. w[NumWide] - 1 : p < RowStarts(B, a, w)[k] <=> b[p] < Ascending(B)[k + 1]
<1> DEFINE n == Cardinality(B)
           N == w[NumWide]
           ix == Ascending(B)[k + 1]
           h == ix \div Part
           D == {p \in w[h] .. w[h + 1] - 1 :
                   \E j \in B : j \div Part = h /\ j < ix /\ a[p].low = j % Part}
<1>1. n \in Nat /\ ix \in B /\ k + 1 \in 1 .. n /\ k \in 0 .. n /\ k # n
  <2>1. n \in Nat /\ Ascending(B) \in [1 .. n -> B]
    BY AscendingExact
  <2> HIDE DEF n
  <2>2. k \in 0 .. n - 1
    BY DEF n
  <2> QED BY <2>1, <2>2
<1>2. RowStarts(B, a, w)[k] = w[h] + Cardinality(D)
  <2> HIDE DEF n
  <2>1. k \in 0 .. Cardinality(B) /\ k # Cardinality(B)
    BY <1>1 DEF n
  <2> QED BY <2>1 DEF RowStarts
<1> HIDE DEF ix, n
<1>3. h \in 0 .. NumWide - 1 /\ ix \in Nat
  BY <1>1 DEF RowsAt
<1>4. w[h] \in Nat /\ w[h + 1] \in Nat /\ w[h] <= w[h + 1] /\ w[h + 1] <= N /\ N \in Nat
  <2>1. h \in 0 .. NumWide /\ h + 1 \in 0 .. NumWide /\ NumWide \in 0 .. NumWide
    BY <1>3 DEF RowsAt
  <2> HIDE DEF h
  <2> QED BY <1>3, <2>1 DEF RowsAt
<1>5. PICK q \in 0 .. N - 1 : b[q] = ix
  BY <1>1 DEF RowsAt
<1>6. w[h] <= q /\ q < w[h + 1]
  BY <1>3, <1>5 DEF RowsAt
<1>7. \A p \in 0 .. N - 1 : b[p] \in B /\ b[p] \in Nat /\ (p <= q => b[p] <= ix) /\ (q <= p => ix <= b[p])
  BY <1>5 DEF RowsAt
<1>8. \A p \in 0 .. N - 1 : b[p] \div Part = h <=> w[h] <= p /\ p < w[h + 1]
  BY <1>3 DEF RowsAt
<1>9. \A p \in 0 .. N - 1 : a[p].low = b[p] % Part
  BY DEF RowsAt
<1> HIDE DEF N
<1>10. ASSUME NEW p \in w[h] .. w[h + 1] - 1
       PROVE  p \in 0 .. N - 1 /\ p \in Nat /\ (p \in D <=> b[p] < ix)
  <2>1. p \in 0 .. N - 1 /\ w[h] <= p /\ p < w[h + 1] /\ p \in Nat
    <3> HIDE DEF h
    <3>1. \A x \in w[h] .. w[h + 1] - 1 : x \in 0 .. N - 1 /\ w[h] <= x /\ x < w[h + 1] /\ x \in Nat
      BY <1>4
    <3> QED BY <3>1
  <2>2. b[p] \div Part = h /\ b[p] \in B /\ b[p] \in Nat /\ a[p].low = b[p] % Part
    BY <1>7, <1>8, <1>9, <2>1
  <2>3. b[p] < ix => p \in D
    BY <2>2
  <2>4. ASSUME NEW j \in B, j \div Part = h, j < ix, a[p].low = j % Part PROVE b[p] < ix
    <3>1. j \in Nat /\ Part \in Nat /\ Part > 0 /\ j \div Part = b[p] \div Part /\ j % Part = b[p] % Part
      BY <2>2, <2>4, ConstructAssumption
    <3> DEFINE y == b[p]
    <3>2. y \in Nat /\ j \div Part = y \div Part /\ j % Part = y % Part
      BY <2>2, <3>1
    <3> HIDE DEF y
    <3>5. j = y
      BY <3>1, <3>2, DivisionSame
    <3> QED BY <2>4, <3>5 DEF y
  <2> QED BY <2>1, <2>3, <2>4
<1>11. /\ Cardinality(D) \in Nat /\ w[h] + Cardinality(D) <= w[h + 1]
       /\ \A p \in w[h] .. w[h + 1] - 1 : p \in D <=> p < w[h] + Cardinality(D)
  <2>1. D \in SUBSET (w[h] .. w[h + 1] - 1)
    OBVIOUS
  <2>2. ASSUME NEW x \in w[h] .. w[h + 1] - 1, NEW y \in w[h] .. w[h + 1] - 1, x < y, y \in D PROVE x \in D
    <3>1. x \in 0 .. N - 1 /\ y \in 0 .. N - 1 /\ b[y] < ix
      BY <1>10, <2>2
    <3>2. x <= y
      BY <1>10, <2>2
    <3>3. b[x] <= b[y] /\ b[x] \in Nat /\ b[y] \in Nat
      BY <1>7, <3>1, <3>2 DEF RowsAt, N
    <3>4. b[x] < ix
      BY <1>3, <3>1, <3>3
    <3> QED BY <1>10, <3>4
  <2> HIDE DEF D, h
  <2> QED BY <1>4, <2>1, <2>2, FirstPart
<1> HIDE DEF D
<1>12. w[h] + Cardinality(D) \in 0 .. N
  <2> HIDE DEF h
  <2> QED BY <1>4, <1>11
<1>13. ASSUME NEW p \in 0 .. N - 1 PROVE p < w[h] + Cardinality(D) <=> b[p] < ix
  <2>1. p \in Nat /\ q \in Nat
    BY <1>4
  <2>2. CASE p < w[h]
    <3>1. p <= q /\ p < w[h] + Cardinality(D)
      <4> HIDE DEF h
      <4> QED BY <1>4, <1>6, <1>11, <2>1, <2>2
    <3>2. b[p] # ix
      <4>1. ~ (w[h] <= p)
        <5> HIDE DEF h
        <5> QED BY <1>4, <2>1, <2>2
      <4> QED BY <1>8, <4>1
    <3> QED BY <1>3, <1>7, <3>1, <3>2
  <2>3. CASE w[h + 1] <= p
    <3>1. q <= p /\ ~ (p < w[h] + Cardinality(D))
      <4> HIDE DEF h
      <4> QED BY <1>4, <1>6, <1>11, <2>1, <2>3
    <3> QED BY <1>3, <1>7, <3>1
  <2>4. CASE w[h] <= p /\ p < w[h + 1]
    <3>1. p \in w[h] .. w[h + 1] - 1
      <4> HIDE DEF h
      <4> QED BY <1>4, <2>1, <2>4
    <3> QED BY <1>10, <1>11, <3>1
  <2> HIDE DEF h
  <2> QED BY <1>4, <2>1, <2>2, <2>3, <2>4
<1> QED BY <1>2, <1>12, <1>13 DEF ix, N

LEMMA RowStartsExact ==
  ASSUME NEW B \in SUBSET Nat, IsFiniteSet(B), NEW a, NEW w, NEW b, RowsAt(B, a, w, b)
  PROVE  /\ Cardinality(B) \in Nat /\ w[NumWide] \in Nat
         /\ RowStarts(B, a, w) \in [0 .. Cardinality(B) -> Nat]
         /\ RowStarts(B, a, w)[0] = 0 /\ RowStarts(B, a, w)[Cardinality(B)] = w[NumWide]
         /\ \A k \in 0 .. Cardinality(B) - 1 : RowStarts(B, a, w)[k] < RowStarts(B, a, w)[k + 1]
         /\ \A k \in 0 .. Cardinality(B) - 1 : \A p \in 0 .. w[NumWide] - 1 :
              RowStarts(B, a, w)[k] <= p /\ p < RowStarts(B, a, w)[k + 1] => b[p] = Ascending(B)[k + 1]
<1> DEFINE n == Cardinality(B)
           N == w[NumWide]
           s == RowStarts(B, a, w)
           c == Ascending(B)
<1>1. /\ n \in Nat /\ c \in [1 .. n -> B]
      /\ \A j, k \in 1 .. n : j < k => c[j] < c[k]
      /\ \A x \in B : \E k \in 1 .. n : c[k] = x
  BY AscendingExact
<1>2. N \in Nat
  <2>1. NumWide \in 0 .. NumWide
    BY DEF RowsAt
  <2> QED BY <2>1 DEF RowsAt
<1>3. DOMAIN s = 0 .. n /\ s = [k \in 0 .. n |-> s[k]] /\ s[n] = N
  BY <1>1 DEF RowStarts
<1>4. \A k \in 0 .. n - 1 : s[k] \in 0 .. N /\ \A p \in 0 .. N - 1 : p < s[k] <=> b[p] < c[k + 1]
  BY RowStartAt
<1>5. /\ \A p \in 0 .. N - 1 : b[p] \in B /\ b[p] \in Nat
      /\ \A ix \in B : \E p \in 0 .. N - 1 : b[p] = ix
  BY DEF RowsAt
<1> HIDE DEF n, N, s, c
<1>6. s \in [0 .. n -> Nat] /\ \A k \in 0 .. n : s[k] \in 0 .. N
  <2>1. \A k \in 0 .. n : s[k] \in 0 .. N
    <3> TAKE k \in 0 .. n
    <3>1. k = n \/ k \in 0 .. n - 1
      BY <1>1
    <3>2. CASE k = n
      BY <1>2, <1>3, <3>2
    <3> QED BY <1>4, <3>1, <3>2
  <2> QED BY <1>2, <1>3, <2>1
<1>7. ASSUME NEW k \in 0 .. n - 1 PROVE s[k] < s[k + 1]
  <2>1. k + 1 \in 1 .. n /\ (k + 1 = n \/ k + 1 \in 0 .. n - 1)
    BY <1>1
  <2>2. PICK q \in 0 .. N - 1 : b[q] = c[k + 1]
    BY <1>1, <1>5, <2>1
  <2>3. q \in Nat /\ q < N /\ s[k] \in Nat /\ s[k + 1] \in Nat
    BY <1>1, <1>2, <1>6
  <2>4. ~ (q < s[k])
    <3>1. ~ (b[q] < c[k + 1])
      BY <1>5, <2>2
    <3> QED BY <1>4, <3>1
  <2>5. q < s[k + 1]
    <3>1. CASE k + 1 = n
      BY <1>3, <2>3, <3>1
    <3>2. CASE k + 1 \in 0 .. n - 1
      <4>1. (k + 1) + 1 \in 1 .. n /\ k + 1 < (k + 1) + 1
        BY <1>1, <3>2
      <4>2. c[k + 1] < c[(k + 1) + 1]
        BY <1>1, <2>1, <4>1
      <4> QED BY <1>4, <2>2, <3>2, <4>2
    <3> QED BY <2>1, <3>1, <3>2
  <2> QED BY <2>3, <2>4, <2>5
<1>8. s[0] = 0
  <2>1. CASE n = 0
    <3>1. B = {}
      <4>1. 1 .. n = {}
        BY <2>1
      <4> QED BY <1>1, <4>1
    <3>2. ~ (0 \in 0 .. N - 1)
      BY <1>5, <3>1
    <3> QED BY <1>2, <1>3, <2>1, <3>2
  <2>2. CASE n # 0
    <3>1. 0 \in 0 .. n - 1 /\ 0 \in 0 .. n /\ 1 \in 1 .. n /\ 0 + 1 = 1
      BY <1>1, <2>2
    <3>2. s[0] \in Nat /\ s[0] <= N
      BY <1>2, <1>6, <3>1
    <3>3. SUFFICES ASSUME 0 < s[0] PROVE FALSE
      BY <3>2
    <3>4. 0 \in 0 .. N - 1
      BY <1>2, <3>2, <3>3
    <3>5. b[0] < c[1]
      BY <1>4, <3>1, <3>3, <3>4
    <3>6. PICK j \in 1 .. n : c[j] = b[0]
      BY <1>1, <1>5, <3>4
    <3>7. j = 1 \/ c[1] < c[j]
      BY <1>1, <3>1
    <3>8. c[1] \in Nat /\ c[j] \in Nat
      BY <1>1, <3>1
    <3> QED BY <3>5, <3>6, <3>7, <3>8
  <2> QED BY <2>1, <2>2
<1>9. ASSUME NEW k \in 0 .. n - 1, NEW p \in 0 .. N - 1, s[k] <= p, p < s[k + 1] PROVE b[p] = c[k + 1]
  <2>1. k + 1 \in 1 .. n /\ (k + 1 = n \/ k + 1 \in 0 .. n - 1) /\ k \in 0 .. n
    BY <1>1
  <2>2. PICK j \in 1 .. n : c[j] = b[p]
    BY <1>1, <1>5
  <2>3. p \in Nat /\ s[k] \in Nat /\ c[j] \in Nat /\ c[k + 1] \in Nat
    <3>1. c[j] \in B /\ c[k + 1] \in B
      BY <1>1, <2>1
    <3>2. s[k] \in Nat
      BY <1>6, <2>1
    <3>3. p \in Nat
      BY <1>2
    <3> QED BY <3>1, <3>2, <3>3
  <2>4. ~ (c[j] < c[k + 1])
    <3>1. ~ (p < s[k])
      BY <1>9, <2>3
    <3> QED BY <1>4, <2>2, <3>1
  <2>5. ~ (j < k + 1)
    BY <1>1, <2>1, <2>4
  <2>6. ~ (k + 1 < j)
    <3> SUFFICES ASSUME k + 1 < j PROVE FALSE
      OBVIOUS
    <3>1. k + 1 \in 0 .. n - 1 /\ (k + 1) + 1 \in 1 .. n /\ (k + 1) + 1 <= j
      BY <1>1, <2>1
    <3>2. c[j] < c[(k + 1) + 1]
      BY <1>4, <1>9, <2>2, <3>1
    <3>3. (k + 1) + 1 = j \/ c[(k + 1) + 1] < c[j]
      BY <1>1, <3>1
    <3>4. c[(k + 1) + 1] \in Nat
      BY <1>1, <3>1
    <3> QED BY <2>3, <3>2, <3>3, <3>4
  <2>7. j = k + 1
    BY <2>1, <2>5, <2>6
  <2> QED BY <2>2, <2>7
<1> QED BY <1>1, <1>2, <1>3, <1>6, <1>7, <1>8, <1>9 DEF n, N, s, c

\* The edges as they are read: of the first of a row and the others.
Slots(B, s) == UNION {{k} \X (0 .. s[k + 1] - s[k]) : k \in 0 .. Cardinality(B) - 1}
Slot(first, rest, s, k, j) == IF j = 0 THEN first[k] ELSE rest[s[k] + j - 1]

\* Rows that are not empty, from s[k] to s[k + 1], lose nothing when their first
\* edges are set apart.
LEMMA CutExact ==
  ASSUME NEW n \in Nat, NEW s \in [0 .. n -> Nat], s[0] = 0,
         \A k \in 0 .. n - 1 : s[k] < s[k + 1], NEW a, NEW ix \in 0 .. n - 1
  PROVE  /\ ix \in 0 .. n /\ ix + 1 \in 0 .. n /\ s[ix] \in Nat /\ s[ix + 1] \in Nat /\ s[ix] < s[ix + 1]
         /\ Shifted(s)[ix + 1] - Shifted(s)[ix] = s[ix + 1] - s[ix] - 1
         /\ \A j \in 0 .. s[ix + 1] - s[ix] - 1 :
              Slot(FirstEdges(s, a, n), OtherEdges(s, a, n), Shifted(s), ix, j) = a[s[ix] + j]
<1> DEFINE t == Shifted(s)
           I == 0 .. n - 1
           K(q) == CHOOSE k \in 0 .. n - 1 : s[k] - k <= q /\ q < s[k + 1] - (k + 1)
<1>1. t \in [0 .. n -> Int] /\ \A k \in 0 .. n : t[k] = s[k] - k
  BY DEF Shifted
<1>2. \A k \in 0 .. n - 1 : /\ k \in 0 .. n /\ k + 1 \in 0 .. n /\ k \in Nat
                            /\ s[k] \in Nat /\ s[k + 1] \in Nat /\ s[k] < s[k + 1]
  OBVIOUS
<1>3. \A k \in 0 .. n - 1 : t[k] <= t[k + 1]
  <2> TAKE k \in 0 .. n - 1
  <2>1. t[k] = s[k] - k /\ t[k + 1] = s[k + 1] - (k + 1)
    BY <1>1, <1>2
  <2> QED BY <1>2, <2>1
<1>4. \A k, l \in 0 .. n : k <= l => t[k] <= t[l]
  <2> HIDE DEF t
  <2> QED BY <1>1, <1>3, StepsGrow
<1>5. t \in [0 .. n -> Nat]
  <2>1. t[0] = 0
    BY <1>1
  <2>2. \A k \in 0 .. n : t[k] \in Int /\ 0 <= t[k]
    <3> HIDE DEF t
    <3> TAKE k \in 0 .. n
    <3>1. 0 \in 0 .. n /\ 0 <= k
      OBVIOUS
    <3> QED BY <1>1, <1>4, <2>1, <3>1
  <2> HIDE DEF t
  <2> QED BY <1>1, <2>2
<1>6. t[ix] = s[ix] - ix /\ t[ix + 1] = s[ix + 1] - (ix + 1) /\ t[n] = s[n] - n
  BY <1>1, <1>2
<1>7. ix \in 0 .. n - 1 /\ ix \in Nat /\ s[ix] \in Nat /\ s[ix + 1] \in Nat /\ ix + 1 \in 0 .. n /\ n \in 0 .. n /\ ix + 1 <= n
      /\ s[n] \in Nat /\ ix \in 0 .. n /\ s[ix] < s[ix + 1]
  BY <1>2
<1>8. t[ix + 1] - t[ix] = s[ix + 1] - s[ix] - 1
  <2> HIDE DEF t
  <2> QED BY <1>6, <1>7
<1>9. ASSUME NEW j \in 0 .. s[ix + 1] - s[ix] - 1
      PROVE  Slot(FirstEdges(s, a, n), OtherEdges(s, a, n), t, ix, j) = a[s[ix] + j]
  <2>1. CASE j = 0
    <3>1. FirstEdges(s, a, n)[ix] = a[s[ix]]
      BY DEF FirstEdges
    <3> QED BY <1>7, <2>1, <3>1 DEF Slot
  <2>2. CASE j # 0
    <3> DEFINE q == t[ix] + j - 1
    <3>1. t[ix + 1] <= t[n]
      BY <1>4, <1>7
    <3>2. j \in Nat /\ j > 0 /\ j <= s[ix + 1] - s[ix] - 1
      BY <1>7, <2>2
    <3> HIDE DEF t
    <3>3. t[ix] \in Nat /\ t[ix + 1] \in Nat /\ t[n] \in Nat
      BY <1>5, <1>7
    <3>4. q \in Nat /\ t[ix] <= q /\ q < t[ix + 1] /\ q \in 0 .. s[n] - n - 1 /\ q + ix + 1 = s[ix] + j
      <4> DEFINE u == t[ix]
                 v == t[ix + 1]
                 m == t[n]
                 x == s[ix]
                 y == s[ix + 1]
                 z == s[n]
      <4>1. /\ u \in Nat /\ v \in Nat /\ m \in Nat /\ x \in Nat /\ y \in Nat /\ z \in Nat /\ v <= m
            /\ u = x - ix /\ v = y - (ix + 1) /\ m = z - n /\ ix \in Nat /\ x < y
            /\ j \in Nat /\ j > 0 /\ j <= y - x - 1
        BY <1>6, <1>7, <3>1, <3>2, <3>3
      <4> HIDE DEF u, v, m, x, y, z
      <4>2. u + j - 1 \in Nat /\ u <= u + j - 1 /\ u + j - 1 < v /\ u + j - 1 \in 0 .. z - n - 1 /\ u + j - 1 + ix + 1 = x + j
        BY <4>1
      <4> QED BY <4>2 DEF u, v, m, x, y, z
    <3> HIDE DEF q
    <3>5. \A k \in 0 .. n - 1 : s[k] - k <= q /\ q < s[k + 1] - (k + 1) => k = ix
      <4> TAKE k \in 0 .. n - 1
      <4>1. t[k] = s[k] - k /\ t[k + 1] = s[k + 1] - (k + 1)
        BY <1>1, <1>2
      <4>2. t[k] <= q /\ q < t[k + 1] => k = ix
        BY <1>3, <1>5, <3>4, RangesApart
      <4> QED BY <4>1, <4>2
    <3>6. s[ix] - ix <= q /\ q < s[ix + 1] - (ix + 1)
      BY <1>6, <3>4
    <3>7. K(q) = ix
      BY <1>7, <3>5, <3>6
    <3>8. OtherEdges(s, a, n)[q] = a[q + K(q) + 1]
      BY <3>4 DEF OtherEdges
    <3>9. OtherEdges(s, a, n)[q] = a[s[ix] + j]
      <4> HIDE DEF K
      <4> QED BY <3>4, <3>7, <3>8
    <3> QED BY <3>2, <3>9 DEF Slot, q
  <2> QED BY <2>1, <2>2
<1> QED BY <1>7, <1>8, <1>9

\* The rows as they are read, and the positions they come from.
LEMMA RowsCut ==
  ASSUME NEW B \in SUBSET Nat, IsFiniteSet(B), NEW a, NEW w, NEW b, RowsAt(B, a, w, b)
  PROVE  LET n == Cardinality(B)
             s == RowStarts(B, a, w)
             Y == Slots(B, Shifted(s))
             P(y) == s[y[1]] + y[2]
         IN
         /\ \A y \in Y : /\ P(y) \in 0 .. w[NumWide] - 1
                         /\ b[P(y)] = Ascending(B)[y[1] + 1]
                         /\ a[P(y)] = Slot(FirstEdges(s, a, n), OtherEdges(s, a, n), Shifted(s), y[1], y[2])
         /\ \A y, z \in Y : P(y) = P(z) => y = z
         /\ \A p \in 0 .. w[NumWide] - 1 : \E y \in Y : P(y) = p
<1> DEFINE n == Cardinality(B)
           N == w[NumWide]
           s == RowStarts(B, a, w)
           c == Ascending(B)
           t == Shifted(s)
           first == FirstEdges(s, a, n)
           rest == OtherEdges(s, a, n)
           Y == Slots(B, t)
           P(y) == s[y[1]] + y[2]
<1>1. /\ n \in Nat /\ N \in Nat /\ s \in [0 .. n -> Nat] /\ s[0] = 0 /\ s[n] = N
      /\ \A k \in 0 .. n - 1 : s[k] < s[k + 1]
      /\ \A k \in 0 .. n - 1 : \A p \in 0 .. N - 1 : s[k] <= p /\ p < s[k + 1] => b[p] = c[k + 1]
  <2>1. Cardinality(B) \in Nat /\ w[NumWide] \in Nat /\ RowStarts(B, a, w) \in [0 .. Cardinality(B) -> Nat]
        /\ RowStarts(B, a, w)[0] = 0 /\ RowStarts(B, a, w)[Cardinality(B)] = w[NumWide]
    BY RowStartsExact
  <2>2. \A k \in 0 .. Cardinality(B) - 1 : RowStarts(B, a, w)[k] < RowStarts(B, a, w)[k + 1]
    BY RowStartsExact
  <2>3. \A k \in 0 .. Cardinality(B) - 1 : \A p \in 0 .. w[NumWide] - 1 :
          RowStarts(B, a, w)[k] <= p /\ p < RowStarts(B, a, w)[k + 1] => b[p] = Ascending(B)[k + 1]
    BY RowStartsExact
  <2> QED BY <2>1, <2>2, <2>3
<1> HIDE DEF s
<1>2. \A k \in 0 .. n - 1 :
        /\ k \in 0 .. n /\ k + 1 \in 0 .. n /\ s[k] \in Nat /\ s[k + 1] \in Nat /\ s[k] < s[k + 1]
        /\ t[k + 1] - t[k] = s[k + 1] - s[k] - 1
        /\ \A j \in 0 .. s[k + 1] - s[k] - 1 : Slot(first, rest, t, k, j) = a[s[k] + j]
  <2> HIDE DEF n
  <2> TAKE k \in 0 .. n - 1
  <2>1. /\ n \in Nat /\ s \in [0 .. n -> Nat] /\ s[0] = 0
        /\ \A l \in 0 .. n - 1 : s[l] < s[l + 1]
    BY <1>1
  <2>2. k \in 0 .. n /\ k + 1 \in 0 .. n /\ s[k] \in Nat /\ s[k + 1] \in Nat /\ s[k] < s[k + 1]
    BY <2>1, CutExact
  <2>3. t[k + 1] - t[k] = s[k + 1] - s[k] - 1
    BY <2>1, CutExact
  <2>4. \A j \in 0 .. s[k + 1] - s[k] - 1 : Slot(first, rest, t, k, j) = a[s[k] + j]
    BY <2>1, CutExact
  <2> QED BY <2>2, <2>3, <2>4
<1>3. Y = UNION {{k} \X (0 .. t[k + 1] - t[k]) : k \in 0 .. n - 1}
  BY DEF Slots
<1> HIDE DEF n, N, c, t, first, rest, Y
<1>4. \A k \in 0 .. n - 1 : s[k + 1] <= N
  <2> TAKE k \in 0 .. n - 1
  <2>1. /\ k + 1 \in 0 .. n /\ n \in 0 .. n /\ k + 1 <= n /\ s \in [0 .. n -> Int]
        /\ \A l \in 0 .. n - 1 : s[l] <= s[l + 1]
    BY <1>1, <1>2
  <2> QED BY <1>1, <2>1, StepsGrow
<1>5. ASSUME NEW y \in Y
      PROVE  /\ y[1] \in 0 .. n - 1 /\ y[2] \in 0 .. s[y[1] + 1] - s[y[1]] - 1 /\ y = <<y[1], y[2]>>
             /\ P(y) \in 0 .. N - 1 /\ P(y) \in Nat /\ s[y[1]] <= P(y) /\ P(y) < s[y[1] + 1]
  <2>1. PICK k \in 0 .. n - 1 : y \in {k} \X (0 .. t[k + 1] - t[k])
    BY <1>3
  <2>2. y[1] = k /\ y[2] \in 0 .. s[k + 1] - s[k] - 1 /\ y = <<y[1], y[2]>>
    BY <1>2, <2>1
  <2> DEFINE j == y[2]
             u == s[k]
             v == s[k + 1]
  <2>3. u \in Nat /\ v \in Nat /\ v <= N /\ N \in Nat /\ j \in 0 .. v - u - 1 /\ P(y) = u + j
    BY <1>1, <1>2, <1>4, <2>2
  <2> HIDE DEF j, u, v, P
  <2>4. u + j \in 0 .. N - 1 /\ u + j \in Nat /\ u <= u + j /\ u + j < v
    BY <2>3
  <2> QED BY <2>2, <2>3, <2>4 DEF u, v
<1>6. \A y \in Y : /\ b[P(y)] = c[y[1] + 1]
                   /\ a[P(y)] = Slot(first, rest, t, y[1], y[2])
  <2> TAKE y \in Y
  <2>1. b[P(y)] = c[y[1] + 1]
    BY <1>1, <1>5
  <2> QED BY <1>2, <1>5, <2>1
<1>7. ASSUME NEW y \in Y, NEW z \in Y, P(y) = P(z) PROVE y = z
  <2> DEFINE p == P(y)
             k == y[1]
             l == z[1]
  <2>1. k \in 0 .. n - 1 /\ l \in 0 .. n - 1 /\ p \in Nat /\ s[k] <= p /\ p < s[k + 1] /\ s[l] <= p /\ p < s[l + 1]
    BY <1>5, <1>7
  <2>2. s[k] \in Nat /\ s[l] \in Nat /\ p = s[k] + y[2] /\ p = s[l] + z[2] /\ y[2] \in Int /\ z[2] \in Int
        /\ y = <<k, y[2]>> /\ z = <<l, z[2]>>
    BY <1>2, <1>5, <1>7
  <2> HIDE DEF p, k, l
  <2>3. \A h \in 0 .. n - 1 : s[h] <= s[h + 1]
    BY <1>2
  <2>4. k = l
    BY <1>1, <2>1, <2>3, RangesApart
  <2>5. y[2] = z[2]
    BY <2>2, <2>4
  <2> QED BY <2>2, <2>4, <2>5
<1>8. ASSUME NEW p \in 0 .. N - 1 PROVE \E y \in Y : P(y) = p
  <2>1. p \in Nat /\ p < s[n]
    BY <1>1
  <2>2. PICK k \in 0 .. n - 1 : s[k] <= p /\ p < s[k + 1]
    BY <1>1, <2>1, AreaOf
  <2>3. p - s[k] \in 0 .. s[k + 1] - s[k] - 1 /\ s[k] + (p - s[k]) = p
    BY <1>2, <2>1, <2>2
  <2>4. <<k, p - s[k]>> \in Y
    BY <1>2, <1>3, <2>3
  <2> QED BY <2>3, <2>4
<1> QED BY <1>5, <1>6, <1>7, <1>8 DEF n, N, c, t, first, rest, Y, s

-----------------------------------------------------------------------------
(* The original numbers of the rows *)

LEMMA RowsForTyped ==
  ASSUME Ordered, NEW s \in Rank, NEW c
  PROVE  /\ IsFiniteSet(RowsFor(s, c)) /\ RowsFor(s, c) \in SUBSET Nat
         /\ \A ix \in RowsFor(s, c) : ix < numLocal
<1> DEFINE E == {e \in rows[s] : e.c = c}
           f == [e \in E |-> Reordered(s, e.v)]
<1>1. RowsFor(s, c) = {f[e] : e \in E} /\ f = [e \in E |-> f[e]]
  BY DEF RowsFor
<1>2. place[s] \notin First /\ PhaseOK /\ CountOK /\ OrderOK
  BY DEF Ordered
<1>3. IsFiniteSet(E)
  <2>1. IsFiniteSet(rows[s])
    BY <1>2, RowsFinite
  <2>2. E \in SUBSET rows[s]
    OBVIOUS
  <2> HIDE DEF E
  <2> QED BY <2>1, <2>2, FS_Subset
<1>4. IsFiniteSet({f[e] : e \in E})
  <2>1. f = [e \in E |-> f[e]]
    OBVIOUS
  <2> HIDE DEF E, f
  <2> QED BY <1>3, <2>1, ImageFinite
<1>5. \A e \in E : Reordered(s, e.v) \in Nat /\ Reordered(s, e.v) < numLocal
  <2> TAKE e \in E
  <2>1. e.v \in Locals /\ Reordered(s, e.v) < numLocal
    BY <1>2, ReorderedExact
  <2>2. Reordered(s, e.v) \in Locals
    BY <1>2, <2>1, ReorderedExact
  <2>3. Locals \in SUBSET Nat
    BY Widths DEF Locals
  <2> QED BY <2>1, <2>2, <2>3
<1>6. \A ix \in {f[e] : e \in E} : ix \in Nat /\ ix < numLocal
  BY <1>5
<1> HIDE DEF E, f
<1> QED BY <1>1, <1>4, <1>6

\* The order of the rows of a rank in one part of the bitmap of rank r.
PartOrder(r, c) == Ascending(RowsFor(Sender(r, c), Column(r)))
PartRows(r, c)  == [k \in DOMAIN PartOrder(r, c) |-> c * numLocal + PartOrder(r, c)[k]]
PartNames(r, c) == NamesFor(Sender(r, c), Column(r))

LEMMA PartExact ==
  ASSUME Ordered, NEW r \in Rank, NEW c \in 0 .. C - 1
  PROVE  LET m == Cardinality(RowsFor(Sender(r, c), Column(r)))
             o == PartOrder(r, c) IN
         /\ Sender(r, c) \in Rank /\ m \in Nat
         /\ o \in [1 .. m -> RowsFor(Sender(r, c), Column(r))]
         /\ \A k \in 1 .. m : o[k] \in Nat /\ o[k] < numLocal
         /\ \A j, k \in 1 .. m : j < k => o[j] < o[k]
         /\ \A ix \in RowsFor(Sender(r, c), Column(r)) : \E k \in 1 .. m : o[k] = ix
         /\ DOMAIN PartRows(r, c) = 1 .. m /\ Len(PartRows(r, c)) = m
         /\ \A k \in 1 .. m : PartRows(r, c)[k] = c * numLocal + o[k]
         /\ DOMAIN PartNames(r, c) = 1 .. m /\ Len(PartNames(r, c)) = m
         /\ \A k \in 1 .. m : PartNames(r, c)[k] = vertexes[Sender(r, c)][o[k]]
<1> DEFINE s == Sender(r, c)
           S == RowsFor(s, Column(r))
           m == Cardinality(S)
           o == PartOrder(r, c)
<1>1. s \in Rank
  BY RankParts, RankOf DEF Sender
<1>2. IsFiniteSet(S) /\ S \in SUBSET Nat /\ \A ix \in S : ix < numLocal
  BY <1>1, RowsForTyped
<1>3. o = Ascending(S)
  BY DEF PartOrder
<1>4. PartNames(r, c) = [k \in DOMAIN o |-> vertexes[s][o[k]]]
  BY DEF PartNames, NamesFor, PartOrder
<1>5. PartRows(r, c) = [k \in DOMAIN o |-> c * numLocal + o[k]]
  BY DEF PartRows
<1> HIDE DEF S, o, s
<1>6. /\ m \in Nat /\ o \in [1 .. m -> S]
      /\ \A j, k \in 1 .. m : j < k => o[j] < o[k]
      /\ \A ix \in S : \E k \in 1 .. m : o[k] = ix
  BY <1>2, <1>3, AscendingExact
<1> HIDE DEF m
<1>7. DOMAIN o = 1 .. m /\ \A k \in 1 .. m : o[k] \in Nat /\ o[k] < numLocal
  BY <1>2, <1>6
<1>8. DOMAIN PartRows(r, c) = 1 .. m /\ \A k \in 1 .. m : PartRows(r, c)[k] = c * numLocal + o[k]
  BY <1>5, <1>7
<1>9. DOMAIN PartNames(r, c) = 1 .. m /\ \A k \in 1 .. m : PartNames(r, c)[k] = vertexes[s][o[k]]
  BY <1>4, <1>7
<1>10. Len(PartRows(r, c)) = m /\ Len(PartNames(r, c)) = m
  BY <1>6, <1>8, <1>9
<1> QED BY <1>1, <1>6, <1>7, <1>8, <1>9, <1>10 DEF S, o, m, s

\* What comes for the bits of a rank is their vertices' original local numbers.
LEMMA NamesExact ==
  ASSUME Ordered, NEW r \in Rank, IsFiniteSet(SetRows(r)), SetRows(r) \in SUBSET Nat
  PROVE  \A k \in 0 .. Cardinality(SetRows(r)) - 1 :
           LET ix == Ascending(SetRows(r))[k + 1]
           IN Names(r)[k] = vertexes[Sender(r, ix \div numLocal)][ix % numLocal]
<1> DEFINE B == SetRows(r)
           L == [c \in 0 .. C - 1 |-> PartNames(r, c)]
           M == [c \in 0 .. C - 1 |-> PartRows(r, c)]
           w == Begins(M, C)
           f == Joint(M, C)
           N == w[C]
           o(c) == PartOrder(r, c)
           m(c) == Len(M[c])
<1>1. Names(r) = Joint(L, C)
  BY DEF Names, PartNames
<1>2. ASSUME NEW c \in 0 .. C - 1
      PROVE  /\ m(c) \in Nat /\ DOMAIN M[c] = 1 .. m(c) /\ DOMAIN L[c] = 1 .. m(c) /\ Len(L[c]) = m(c)
             /\ \A k \in 1 .. m(c) : /\ o(c)[k] \in Nat /\ o(c)[k] < numLocal
                                     /\ M[c][k] = c * numLocal + o(c)[k] /\ M[c][k] \in B
                                     /\ L[c][k] = vertexes[Sender(r, c)][o(c)[k]]
             /\ \A j, k \in 1 .. m(c) : j < k => o(c)[j] < o(c)[k]
             /\ \A ix \in RowsFor(Sender(r, c), Column(r)) : \E k \in 1 .. m(c) : o(c)[k] = ix
  <2> DEFINE S == RowsFor(Sender(r, c), Column(r))
             n == Cardinality(S)
  <2>1. M[c] = PartRows(r, c) /\ L[c] = PartNames(r, c)
    OBVIOUS
  <2>2. /\ n \in Nat /\ o(c) \in [1 .. n -> S]
        /\ \A k \in 1 .. n : o(c)[k] \in Nat /\ o(c)[k] < numLocal
        /\ \A j, k \in 1 .. n : j < k => o(c)[j] < o(c)[k]
        /\ \A ix \in S : \E k \in 1 .. n : o(c)[k] = ix
        /\ DOMAIN PartRows(r, c) = 1 .. n /\ Len(PartRows(r, c)) = n
        /\ \A k \in 1 .. n : PartRows(r, c)[k] = c * numLocal + o(c)[k]
        /\ DOMAIN PartNames(r, c) = 1 .. n /\ Len(PartNames(r, c)) = n
        /\ \A k \in 1 .. n : PartNames(r, c)[k] = vertexes[Sender(r, c)][o(c)[k]]
    BY PartExact
  <2>3. \A ix \in S : c * numLocal + ix \in B
    BY DEF SetRows
  <2> HIDE DEF n, S, M, L, o, B
  <2> QED BY <2>1, <2>2, <2>3 DEF S
<1>3. Lists(M, C) /\ Lists(L, C)
  <2>1. C \in Nat
    BY GridSize
  <2> HIDE DEF M, L
  <2> QED BY <1>2, <2>1 DEF Lists
<1>4. Begins(L, C) = w
  <2>1. \A c \in 0 .. C - 1 : Len(L[c]) = Len(M[c])
    BY <1>2
  <2>2. [c \in 0 .. C - 1 |-> Len(L[c])] = [c \in 0 .. C - 1 |-> Len(M[c])]
    <3> HIDE DEF L, M
    <3> QED BY <2>1
  <2> HIDE DEF L, M
  <2> QED BY <2>2 DEF Begins
<1> HIDE DEF L, M, B, o
<1>5. /\ w \in [0 .. C -> Nat]
      /\ \A c \in 0 .. C - 1 : w[c + 1] = w[c] + m(c)
      /\ \A c, d \in 0 .. C : c <= d => w[c] <= w[d]
  BY <1>3, BeginsExact
<1>6. /\ DOMAIN f = 0 .. N - 1
      /\ \A c \in 0 .. C - 1 : \A k \in 1 .. m(c) : w[c] + k - 1 \in 0 .. N - 1 /\ f[w[c] + k - 1] = M[c][k]
      /\ \A p \in 0 .. N - 1 : \E c \in 0 .. C - 1 : \E k \in 1 .. m(c) : p = w[c] + k - 1
  BY <1>3, JointExact
<1>7. \A c \in 0 .. C - 1 : \A k \in 1 .. m(c) : Joint(L, C)[w[c] + k - 1] = L[c][k]
  <2>1. \A c \in 0 .. C - 1 : \A k \in 1 .. Len(L[c]) : Joint(L, C)[Begins(L, C)[c] + k - 1] = L[c][k]
    BY <1>3, JointExact
  <2> HIDE DEF w
  <2> QED BY <1>2, <1>4, <2>1
<1>8. f = [p \in 0 .. N - 1 |-> f[p]]
  BY DEF Joint
<1>9. numLocal \in Nat /\ C \in Nat /\ N \in Nat
  <2>1. C \in 0 .. C
    BY GridSize
  <2> HIDE DEF w
  <2> QED BY <1>5, <2>1, Widths, GridSize
<1> HIDE DEF w, f, N, m
<1>10. \A p \in 0 .. N - 1 : f[p] \in B
  <2> TAKE p \in 0 .. N - 1
  <2>1. PICK c \in 0 .. C - 1 : \E k \in 1 .. m(c) : p = w[c] + k - 1
    BY <1>6
  <2>2. PICK k \in 1 .. m(c) : p = w[c] + k - 1
    BY <2>1
  <2>3. f[p] = M[c][k]
    BY <1>6, <2>2
  <2>4. M[c][k] \in B
    BY <1>2
  <2> QED BY <2>3, <2>4
<1>11. f \in [0 .. N - 1 -> B]
  BY <1>8, <1>10
<1>12. ASSUME NEW p \in 0 .. N - 1, NEW q \in 0 .. N - 1, p < q PROVE f[p] < f[q]
  <2>1. PICK c \in 0 .. C - 1 : \E k \in 1 .. m(c) : p = w[c] + k - 1
    BY <1>6
  <2>2. PICK k \in 1 .. m(c) : p = w[c] + k - 1
    BY <2>1
  <2>3. PICK d \in 0 .. C - 1 : \E l \in 1 .. m(d) : q = w[d] + l - 1
    BY <1>6
  <2>4. PICK l \in 1 .. m(d) : q = w[d] + l - 1
    BY <2>3
  <2> DEFINE x == o(c)[k]
             y == o(d)[l]
  <2>5. f[p] = c * numLocal + x /\ f[q] = d * numLocal + y /\ x \in Nat /\ y \in Nat /\ x < numLocal
    BY <1>2, <1>6, <2>2, <2>4
  <2>6. /\ w[c] \in Nat /\ w[d] \in Nat /\ m(c) \in Nat /\ m(d) \in Nat
        /\ w[c + 1] = w[c] + m(c) /\ w[d + 1] = w[d] + m(d) /\ c \in Nat /\ d \in Nat
        /\ c \in 0 .. C /\ d \in 0 .. C /\ d + 1 \in 0 .. C
    BY <1>2, <1>5, <1>9
  <2>7. ~ (d < c)
    <3> SUFFICES ASSUME d < c PROVE FALSE
      OBVIOUS
    <3>1. d + 1 <= c
      BY <2>6
    <3>2. w[d + 1] <= w[c]
      BY <1>5, <2>6, <3>1
    <3> DEFINE u == w[c]
               v == w[d]
               z == m(d)
    <3>3. u \in Nat /\ v \in Nat /\ z \in Nat /\ v + z <= u /\ p = u + k - 1 /\ q = v + l - 1 /\ k \in Nat /\ k >= 1 /\ l \in Nat /\ l <= z
      BY <2>2, <2>4, <2>6, <3>2
    <3> HIDE DEF u, v, z
    <3> QED BY <1>12, <3>3
  <2>8. CASE c = d
    <3>1. k < l
      <4> DEFINE u == w[c]
      <4>1. u \in Nat /\ p = u + k - 1 /\ q = u + l - 1 /\ k \in Int /\ l \in Int
        BY <2>2, <2>4, <2>6, <2>8
      <4> HIDE DEF u
      <4> QED BY <1>12, <4>1
    <3>2. x < y
      BY <1>2, <2>8, <3>1
    <3> DEFINE z == c * numLocal
    <3>3. z \in Nat /\ f[p] = z + x /\ f[q] = z + y /\ x \in Nat /\ y \in Nat
      BY <1>9, <2>5, <2>6, <2>8
    <3> HIDE DEF x, y, z
    <3> QED BY <3>2, <3>3
  <2>9. CASE c < d
    <3>1. numLocal * c + numLocal <= numLocal * d /\ numLocal * c \in Nat /\ numLocal * d \in Nat
      BY <1>9, <2>6, <2>9, FactorsFit
    <3>2. numLocal * c = c * numLocal /\ numLocal * d = d * numLocal
      BY <1>9, <2>6
    <3> DEFINE u == numLocal * c
               v == numLocal * d
    <3>3. u + numLocal <= v /\ u \in Nat /\ v \in Nat /\ f[p] = u + x /\ f[q] = v + y
      BY <2>5, <3>1, <3>2
    <3> HIDE DEF u, v, x, y
    <3> QED BY <1>9, <2>5, <3>3
  <2> QED BY <2>6, <2>7, <2>8, <2>9
<1>13. ASSUME NEW b \in B PROVE \E p \in 0 .. N - 1 : f[p] = b
  <2>1. PICK c \in 0 .. C - 1 : b \in {c * numLocal + ix : ix \in RowsFor(Sender(r, c), Column(r))}
    BY DEF B, SetRows
  <2>2. PICK ix \in RowsFor(Sender(r, c), Column(r)) : b = c * numLocal + ix
    BY <2>1
  <2>3. PICK k \in 1 .. m(c) : o(c)[k] = ix
    BY <1>2
  <2>4. w[c] + k - 1 \in 0 .. N - 1 /\ f[w[c] + k - 1] = b
    <3>1. w[c] + k - 1 \in 0 .. N - 1 /\ f[w[c] + k - 1] = M[c][k]
      BY <1>6, <2>3
    <3>2. M[c][k] = c * numLocal + o(c)[k]
      BY <1>2, <2>3
    <3> QED BY <2>2, <2>3, <3>1, <3>2
  <2> QED BY <2>4
<1>14. Cardinality(B) = N /\ \A k \in 0 .. N - 1 : f[k] = Ascending(B)[k + 1]
  <2>1. B \in SUBSET Nat /\ IsFiniteSet(B)
    BY DEF B
  <2>2. \A p, q \in 0 .. N - 1 : p < q => f[p] < f[q]
    BY <1>12
  <2>3. \A x \in B : \E p \in 0 .. N - 1 : f[p] = x
    BY <1>13
  <2> QED BY <1>9, <1>11, <2>1, <2>2, <2>3, OneOrder
<1>15. ASSUME NEW p \in 0 .. N - 1
       PROVE  Names(r)[p] = vertexes[Sender(r, f[p] \div numLocal)][f[p] % numLocal]
  <2>1. PICK c \in 0 .. C - 1 : \E k \in 1 .. m(c) : p = w[c] + k - 1
    BY <1>6
  <2>2. PICK k \in 1 .. m(c) : p = w[c] + k - 1
    BY <2>1
  <2> DEFINE x == o(c)[k]
  <2>3. Names(r)[p] = vertexes[Sender(r, c)][x] /\ f[p] = c * numLocal + x /\ x \in Nat /\ x < numLocal
    BY <1>1, <1>2, <1>6, <1>7, <2>2
  <2>4. c \in Nat
    BY <1>9
  <2> HIDE DEF x
  <2>5. x \in 0 .. numLocal - 1 /\ f[p] = numLocal * c + x
    BY <1>9, <2>3, <2>4
  <2>6. f[p] \div numLocal = c /\ f[p] % numLocal = x
    <3>1. (numLocal * c + x) \div numLocal = c /\ (numLocal * c + x) % numLocal = x
      BY <1>9, <2>4, <2>5, DivisionUnique
    <3> QED BY <2>5, <3>1
  <2> QED BY <2>3, <2>6
<1> QED BY <1>14, <1>15 DEF B

-----------------------------------------------------------------------------
(* The order of the entries of a wide row *)

\* The entries of the edges of a wide row.
RowEntries(r, h) == {FinalEdge(x) : x \in InRow(r, NumLoops, h)}
InRange(e) == e.low \in 0 .. Part - 1 /\ e.r \in 0 .. R - 1 /\ e.d \in 0 .. numLocal - 1

LEMMA EntryParts ==
  ASSUME Ordered, NEW x \in Sends
  PROVE  /\ InRange(FinalEdge(x))
         /\ SourceRowOf(x) = Part * RowOf(x) + FinalEdge(x).low
         /\ FinalEdge(x).low = SourceRowOf(x) % Part
         /\ SourceRowOf(x) \in Nat /\ RowOf(x) \in 0 .. NumWide - 1 /\ RowOf(x) = SourceRowOf(x) \div Part
<1>1. SourceRowOf(x) \in Nat /\ RowOf(x) \in 0 .. NumWide - 1
  BY WideRowOf
<1>2. RowOf(x) = SourceRowOf(x) \div Part
  BY DEF RowOf
<1>3. Part \in Nat /\ Part > 0
  BY ConstructAssumption
<1>4. SourceRowOf(x) = Part * (SourceRowOf(x) \div Part) + (SourceRowOf(x) % Part) /\ SourceRowOf(x) % Part \in 0 .. Part - 1
  <2> DEFINE v == SourceRowOf(x)
  <2>1. v \in Nat
    BY <1>1
  <2> HIDE DEF v
  <2>2. v = (Part * (v \div Part)) + (v % Part) /\ v % Part \in 0 .. Part - 1
    BY <1>3, <2>1, DivisionMod
  <2> QED BY <1>1, <1>3, <2>2 DEF v
<1>5. To(x) \in Nat
  BY SendsTyped DEF Ordered, PhaseOK
<1>6. OwnerR(To(x)) \in 0 .. R - 1
  BY <1>5, VertexParts
<1>7. Number(To(x)) \in 0 .. numLocal - 1
  BY NumberParts, Widths
<1>8. /\ FinalEdge(x).low = SourceRowOf(x) % Part /\ FinalEdge(x).r = OwnerR(To(x))
      /\ FinalEdge(x).d = Number(To(x))
  BY DEF FinalEdge
<1>9. InRange(FinalEdge(x))
  BY <1>4, <1>6, <1>7, <1>8 DEF InRange
<1>10. SourceRowOf(x) = Part * RowOf(x) + FinalEdge(x).low
  BY <1>1, <1>2, <1>3, <1>4, <1>8
<1> QED BY <1>1, <1>2, <1>8, <1>9, <1>10

\* The order of the sort is that of sources, then ranks, then targets.
LEMMA KeyExact ==
  ASSUME numLocal \in Nat, NEW e, NEW f, InRange(e), InRange(f)
  PROVE  /\ SortKey(e) \in Nat /\ SortKey(f) \in Nat
         /\ SortKey(e) = SortKey(f) => e.low = f.low /\ e.r = f.r /\ e.d = f.d
         /\ SortKey(e) <= SortKey(f) => e.low <= f.low
<1> DEFINE a == e.low
           b == f.low
           s == e.r
           t == f.r
           u == e.d
           v == f.d
           n == numLocal
           x == R * a + s
           y == R * b + t
<1>1. R \in Nat /\ R > 0 /\ n \in Nat
  BY GridSize
<1>2. /\ a \in 0 .. Part - 1 /\ b \in 0 .. Part - 1 /\ s \in 0 .. R - 1 /\ t \in 0 .. R - 1
      /\ u \in 0 .. n - 1 /\ v \in 0 .. n - 1
  BY DEF InRange
<1>3. SortKey(e) = (a * R + s) * n + u /\ SortKey(f) = (b * R + t) * n + v
  BY DEF SortKey
<1> HIDE DEF a, b, s, t, u, v, n
<1>4. a \in Nat /\ b \in Nat /\ s \in Nat /\ t \in Nat /\ u \in Nat /\ v \in Nat
  BY <1>2
<1>5. a * R = R * a /\ b * R = R * b /\ R * a \in Nat /\ R * b \in Nat
  BY <1>1, <1>4
<1>6. x \in Nat /\ y \in Nat /\ a * R + s = x /\ b * R + t = y
  BY <1>4, <1>5
<1>7. x \div R = a /\ x % R = s /\ y \div R = b /\ y % R = t
  <2>1. (R * a + s) \div R = a /\ (R * a + s) % R = s
    BY <1>1, <1>2, <1>4, DivisionUnique
  <2>2. (R * b + t) \div R = b /\ (R * b + t) % R = t
    BY <1>1, <1>2, <1>4, DivisionUnique
  <2> QED BY <2>1, <2>2
<1>8. a < b => x < y
  <2> SUFFICES ASSUME a < b PROVE x < y
    OBVIOUS
  <2>1. R * a + R <= R * b
    BY <1>1, <1>4, FactorsFit
  <2> DEFINE p == R * a
             q == R * b
  <2>2. p \in Nat /\ q \in Nat /\ p + R <= q /\ x = p + s /\ y = q + t /\ s < R
    BY <1>1, <1>2, <1>5, <2>1
  <2> HIDE DEF p, q, x, y
  <2> QED BY <1>1, <1>4, <2>2
<1> HIDE DEF x, y
<1>9. SortKey(e) = n * x + u /\ SortKey(f) = n * y + v
  <2>1. x * n = n * x /\ y * n = n * y
    BY <1>1, <1>6
  <2> QED BY <1>3, <1>6, <2>1
<1>10. /\ n * x + u \in Nat /\ (n * x + u) \div n = x /\ (n * x + u) % n = u
       /\ n * y + v \in Nat /\ (n * y + v) \div n = y /\ (n * y + v) % n = v
  <2>1. n * x + u \in Nat /\ (n * x + u) \div n = x /\ (n * x + u) % n = u
    BY <1>1, <1>2, <1>6, DivisionUnique
  <2>2. n * y + v \in Nat /\ (n * y + v) \div n = y /\ (n * y + v) % n = v
    BY <1>1, <1>2, <1>6, DivisionUnique
  <2> QED BY <2>1, <2>2
<1>11. SortKey(e) = SortKey(f) => a = b /\ s = t /\ u = v
  <2> SUFFICES ASSUME SortKey(e) = SortKey(f) PROVE a = b /\ s = t /\ u = v
    OBVIOUS
  <2>1. n * x + u = n * y + v
    BY <1>9
  <2> DEFINE X == n * x + u
             Y == n * y + v
  <2>2. X = Y /\ X \div n = x /\ X % n = u /\ Y \div n = y /\ Y % n = v
    BY <1>10, <2>1
  <2> HIDE DEF X, Y
  <2>3. x = y /\ u = v
    BY <2>2
  <2> QED BY <1>7, <2>3
<1>12. SortKey(e) <= SortKey(f) => a <= b
  <2> SUFFICES ASSUME SortKey(e) <= SortKey(f), ~ (a <= b) PROVE FALSE
    OBVIOUS
  <2>1. y < x
    <3>1. b < a
      BY <1>4
    <3>2. R * b + R <= R * a
      BY <1>1, <1>4, <3>1, FactorsFit
    <3> DEFINE p == R * a
               q == R * b
    <3>3. p \in Nat /\ q \in Nat /\ q + R <= p /\ x = p + s /\ y = q + t /\ t < R
      BY <1>1, <1>2, <1>5, <3>2 DEF x, y
    <3> HIDE DEF p, q
    <3> QED BY <1>1, <1>4, <3>3
  <2>2. n * y + n <= n * x
    BY <1>1, <1>6, <2>1, FactorsFit
  <2> DEFINE X == n * x
             Y == n * y
  <2>3. X \in Nat /\ Y \in Nat /\ Y + n <= X /\ SortKey(e) = X + u /\ SortKey(f) = Y + v /\ v < n
    BY <1>1, <1>2, <1>6, <1>9, <2>2
  <2> HIDE DEF X, Y
  <2> QED BY <1>1, <1>4, <2>3
<1> QED BY <1>9, <1>10, <1>11, <1>12 DEF a, b, s, t, u, v

\* Entries of a rank with the same target are the same.
LEMMA EntrySame ==
  ASSUME Ordered, NEW r \in Rank, NEW x \in Kept(r, NumLoops), NEW y \in Kept(r, NumLoops),
         FinalEdge(x).low = FinalEdge(y).low, FinalEdge(x).r = FinalEdge(y).r, FinalEdge(x).d = FinalEdge(y).d
  PROVE  FinalEdge(x) = FinalEdge(y)
<1>1. EdgesOK
  BY DEF Ordered, PhaseOK
<1>2. /\ x \in Sends /\ EdgeOwner(From(x), To(x)) = r
      /\ y \in Sends /\ EdgeOwner(From(y), To(y)) = r
  BY DEF Kept
<1>3. From(x) \in Nat /\ To(x) \in Nat /\ From(y) \in Nat /\ To(y) \in Nat
  BY <1>1, <1>2, SendsTyped
<1>4. OwnerC(To(x)) = Column(r) /\ OwnerC(To(y)) = Column(r)
  BY <1>2, <1>3, EdgeOwnerParts
<1>5. OwnerR(To(x)) = OwnerR(To(y)) /\ Number(To(x)) = Number(To(y))
  BY DEF FinalEdge
<1>6. Owner(To(x)) = Owner(To(y))
  BY <1>3, <1>4, <1>5, VertexParts
<1>7. /\ Mirror(x) \in Sends /\ From(Mirror(x)) = To(x)
      /\ Mirror(y) \in Sends /\ From(Mirror(y)) = To(y)
  BY <1>1, <1>2, MirrorSent
<1>8. To(x) = To(y)
  <2>1. Owner(From(Mirror(x))) = Owner(From(Mirror(y))) /\ Number(From(Mirror(x))) = Number(From(Mirror(y)))
    BY <1>5, <1>6, <1>7
  <2>2. From(Mirror(x)) = From(Mirror(y))
    BY <1>7, <2>1, NumbersDiffer
  <2> QED BY <1>7, <2>2
<1> QED BY <1>8 DEF FinalEdge

\* A wide row after sorting and merging.
LEMMA WideRowMerged ==
  ASSUME Ordered, NEW r \in Rank, NEW h \in 0 .. NumWide - 1
  PROVE  LET m == Merged(RowEntries(r, h)) IN
         /\ Len(m) \in Nat /\ DOMAIN m = 1 .. Len(m)
         /\ \A k \in 1 .. Len(m) : \E x \in Kept(r, NumLoops) : RowOf(x) = h /\ m[k] = FinalEdge(x)
         /\ \A x \in Kept(r, NumLoops) : RowOf(x) = h => \E k \in 1 .. Len(m) : m[k] = FinalEdge(x)
         /\ \A j, k \in 1 .. Len(m) : j <= k => m[j].low <= m[k].low
         /\ \A j, k \in 1 .. Len(m) : m[j] = m[k] => j = k
<1> DEFINE E == RowEntries(r, h)
           m == Merged(E)
           J == InRow(r, NumLoops, h)
           F == [x \in J |-> FinalEdge(x)]
<1>1. numLocal \in Nat
  BY Widths
<1>2. \A x \in Kept(r, NumLoops) : x \in Sends
  BY DEF Kept
<1>3. \A e \in E : InRange(e) /\ \E x \in Kept(r, NumLoops) : RowOf(x) = h /\ e = FinalEdge(x)
  BY <1>2, EntryParts DEF RowEntries, InRow
<1>4. \A x \in Kept(r, NumLoops) : RowOf(x) = h => FinalEdge(x) \in E
  BY DEF RowEntries, InRow
<1>5. IsFiniteSet(E)
  <2>1. IsFiniteSet(J)
    BY RowLengthExact
  <2>2. E = {F[x] : x \in J} /\ F = [x \in J |-> F[x]]
    BY DEF RowEntries
  <2> HIDE DEF E, F, J
  <2>3. IsFiniteSet({F[x] : x \in J})
    BY <2>1, <2>2, ImageFinite
  <2> QED BY <2>2, <2>3
<1> HIDE DEF E
<1>6. \A e \in E : SortKey(e) \in Nat
  BY <1>1, <1>3, KeyExact
<1>7. \A e, f \in E : SortKey(e) = SortKey(f) => e = f
  <2> TAKE e, f \in E
  <2> SUFFICES ASSUME SortKey(e) = SortKey(f) PROVE e = f
    OBVIOUS
  <2>1. e.low = f.low /\ e.r = f.r /\ e.d = f.d
    BY <1>1, <1>3, KeyExact
  <2>2. PICK x \in Kept(r, NumLoops) : e = FinalEdge(x)
    BY <1>3
  <2>3. PICK y \in Kept(r, NumLoops) : f = FinalEdge(y)
    BY <1>3
  <2> QED BY <2>1, <2>2, <2>3, EntrySame
<1>8. /\ Len(m) \in Nat /\ DOMAIN m = 1 .. Len(m)
      /\ \A k \in 1 .. Len(m) : m[k] \in E
      /\ \A j, k \in 1 .. Len(m) : j < k => SortKey(m[j]) < SortKey(m[k])
      /\ \A e \in E : \E k \in 1 .. Len(m) : m[k] = e
  BY <1>5, <1>6, <1>7, MergedExact
<1> DEFINE n == Len(m)
<1> HIDE DEF m
<1>9. \A j, k \in 1 .. n : j <= k => m[j].low <= m[k].low
  <2> TAKE j, k \in 1 .. n
  <2> SUFFICES ASSUME j <= k PROVE m[j].low <= m[k].low
    OBVIOUS
  <2>1. m[j] \in E /\ m[k] \in E /\ (j < k \/ j = k)
    BY <1>8
  <2>2. SortKey(m[j]) \in Nat /\ SortKey(m[k]) \in Nat
    BY <1>6, <2>1
  <2>3. SortKey(m[j]) <= SortKey(m[k])
    BY <1>8, <2>1, <2>2
  <2> QED BY <1>1, <1>3, <2>1, <2>3, KeyExact
<1>10. \A j, k \in 1 .. n : m[j] = m[k] => j = k
  <2> TAKE j, k \in 1 .. n
  <2>1. j < k \/ k < j \/ j = k
    BY <1>8
  <2>2. m[j] \in E /\ m[k] \in E
    BY <1>8
  <2>3. SortKey(m[j]) \in Nat /\ SortKey(m[k]) \in Nat
    BY <1>6, <2>2
  <2>4. j < k => SortKey(m[j]) < SortKey(m[k])
    BY <1>8
  <2>5. k < j => SortKey(m[k]) < SortKey(m[j])
    BY <1>8
  <2> SUFFICES ASSUME m[j] = m[k] PROVE j = k
    OBVIOUS
  <2>6. SortKey(m[j]) = SortKey(m[k])
    OBVIOUS
  <2> QED BY <2>1, <2>3, <2>4, <2>5, <2>6
<1> QED BY <1>3, <1>4, <1>8, <1>9, <1>10 DEF E, m

\* After sorting and merging, b tells the source row of every position, and the
\* positions hold the entries of the edges of the rank, once each.
Placed(r, b, a, n) ==
  /\ \A p \in 0 .. n - 1 : \E x \in Kept(r, NumLoops) : b[p] = SourceRowOf(x) /\ a[p] = FinalEdge(x)
  /\ \A x \in Kept(r, NumLoops) : \E p \in 0 .. n - 1 : b[p] = SourceRowOf(x) /\ a[p] = FinalEdge(x)
  /\ \A p, q \in 0 .. n - 1 : b[p] = b[q] /\ a[p] = a[q] => p = q

RowsMerged(r, M) == M = [h \in 0 .. NumWide - 1 |-> Merged(RowEntries(r, h))]
LEMMA RowsPlaced ==
  ASSUME Ordered, NEW r \in Rank, NEW M, RowsMerged(r, M)
  PROVE  \E b : /\ RowsAt(SetRows(r), Joint(M, NumWide), Begins(M, NumWide), b)
                /\ Placed(r, b, Joint(M, NumWide), Begins(M, NumWide)[NumWide])
<1> DEFINE B == SetRows(r)
           w == Begins(M, NumWide)
           a == Joint(M, NumWide)
           N == w[NumWide]
           H(p) == CHOOSE h \in 0 .. NumWide - 1 : w[h] <= p /\ p < w[h + 1]
           b == [p \in 0 .. N - 1 |-> Part * H(p) + a[p].low]
           K == Kept(r, NumLoops)
           I == 0 .. NumWide - 1
           l(h) == Len(M[h])
<1>1. NumWide \in Nat /\ Part \in Nat /\ Part > 0
  BY Widths, ConstructAssumption
<1>2. \A x \in K : /\ x \in Sends /\ InRange(FinalEdge(x)) /\ SourceRowOf(x) \in Nat
                   /\ SourceRowOf(x) = Part * RowOf(x) + FinalEdge(x).low
                   /\ FinalEdge(x).low = SourceRowOf(x) % Part
                   /\ RowOf(x) \in I /\ RowOf(x) = SourceRowOf(x) \div Part
  BY EntryParts DEF Kept
<1>3. \A h \in I :
        /\ l(h) \in Nat /\ DOMAIN M[h] = 1 .. l(h)
        /\ \A k \in 1 .. l(h) : \E x \in K : RowOf(x) = h /\ M[h][k] = FinalEdge(x)
        /\ \A x \in K : RowOf(x) = h => \E k \in 1 .. l(h) : M[h][k] = FinalEdge(x)
        /\ \A j, k \in 1 .. l(h) : j <= k => M[h][j].low <= M[h][k].low
        /\ \A j, k \in 1 .. l(h) : M[h][j] = M[h][k] => j = k
  <2> TAKE h \in I
  <2>1. M[h] = Merged(RowEntries(r, h))
    BY DEF RowsMerged
  <2> QED BY <2>1, WideRowMerged
<1>4. B = {SourceRowOf(x) : x \in K}
  BY SetRowsExact
<1>5. Lists(M, NumWide)
  BY <1>1, <1>3 DEF Lists
<1>6. /\ w \in [0 .. NumWide -> Nat] /\ w[0] = 0
      /\ \A h \in I : w[h + 1] = w[h] + l(h)
      /\ \A ix, j \in 0 .. NumWide : ix <= j => w[ix] <= w[j]
  BY <1>5, BeginsExact
<1>7. /\ \A h \in I : \A k \in 1 .. l(h) : w[h] + k - 1 \in 0 .. N - 1 /\ a[w[h] + k - 1] = M[h][k]
      /\ \A p \in 0 .. N - 1 : \E h \in I : \E k \in 1 .. l(h) : p = w[h] + k - 1
  <2>1. \A h \in 0 .. NumWide - 1 : \A k \in 1 .. Len(M[h]) :
          /\ Begins(M, NumWide)[h] + k - 1 \in 0 .. Begins(M, NumWide)[NumWide] - 1
          /\ Joint(M, NumWide)[Begins(M, NumWide)[h] + k - 1] = M[h][k]
    BY <1>5, JointExact
  <2>2. \A p \in 0 .. Begins(M, NumWide)[NumWide] - 1 :
          \E h \in 0 .. NumWide - 1 : \E k \in 1 .. Len(M[h]) : p = Begins(M, NumWide)[h] + k - 1
    BY <1>5, JointExact
  <2> QED BY <2>1, <2>2
<1> HIDE DEF B, K, w, a, l
<1>8. ASSUME NEW h \in I
      PROVE  /\ h \in Nat /\ h \in 0 .. NumWide /\ h + 1 \in 0 .. NumWide /\ w[h] \in Nat /\ w[h + 1] \in Nat
             /\ w[h] <= w[h + 1] /\ w[h + 1] <= N /\ N \in Nat /\ l(h) \in Nat /\ w[h + 1] = w[h] + l(h)
  <2>1. h \in Nat /\ h \in 0 .. NumWide /\ h + 1 \in 0 .. NumWide /\ NumWide \in 0 .. NumWide /\ h <= h + 1 /\ h + 1 <= NumWide
    BY <1>1
  <2> QED BY <1>3, <1>6, <2>1
<1>9. N \in Nat /\ \A h \in 0 .. NumWide - 1 : w[h] <= w[h + 1]
  <2>1. NumWide \in 0 .. NumWide
    BY <1>1
  <2> QED BY <1>6, <1>8, <2>1
<1>10. ASSUME NEW p \in 0 .. N - 1, NEW h \in I, w[h] <= p, p < w[h + 1]
       PROVE  H(p) = h /\ p - w[h] + 1 \in 1 .. l(h) /\ a[p] = M[h][p - w[h] + 1] /\ p \in Nat
  <2>1. p \in Nat
    BY <1>9
  <2>2. \A ix \in I : w[ix] <= p /\ p < w[ix + 1] => ix = h
    <3> HIDE DEF N
    <3> QED BY <1>1, <1>6, <1>9, <1>10, <2>1, RangesApart
  <2>3. H(p) = h
    BY <1>10, <2>2
  <2> DEFINE u == w[h]
             k == p - u + 1
  <2>4. k \in 1 .. l(h) /\ u + k - 1 = p
    <3>1. u \in Nat /\ l(h) \in Nat /\ u <= p /\ p < u + l(h)
      BY <1>8, <1>10
    <3> HIDE DEF u, N
    <3> QED BY <2>1, <3>1
  <2>5. a[p] = M[h][k]
    <3>1. a[w[h] + k - 1] = M[h][k]
      <4> HIDE DEF k
      <4> QED BY <1>7, <2>4
    <3> QED BY <2>4, <3>1
  <2> QED BY <2>1, <2>3, <2>4, <2>5
<1>11. ASSUME NEW p \in 0 .. N - 1 PROVE \E h \in I : w[h] <= p /\ p < w[h + 1]
  <2>1. p \in Nat /\ p < w[NumWide]
    BY <1>9
  <2> QED BY <1>1, <1>6, <2>1, AreaOf
<1>12. ASSUME NEW p \in 0 .. N - 1, NEW h \in I, w[h] <= p, p < w[h + 1]
       PROVE  \E x \in K : RowOf(x) = h /\ a[p] = FinalEdge(x) /\ b[p] = SourceRowOf(x)
  <2>1. H(p) = h /\ p - w[h] + 1 \in 1 .. l(h) /\ a[p] = M[h][p - w[h] + 1]
    BY <1>10, <1>12
  <2>2. PICK x \in K : RowOf(x) = h /\ a[p] = FinalEdge(x)
    BY <1>3, <2>1
  <2>3. b[p] = Part * H(p) + a[p].low
    OBVIOUS
  <2>4. b[p] = Part * RowOf(x) + FinalEdge(x).low
    <3> HIDE DEF b, H
    <3> QED BY <2>1, <2>2, <2>3
  <2> HIDE DEF b, H
  <2> QED BY <1>2, <2>2, <2>4
<1>13. DOMAIN b = 0 .. N - 1 /\ b = [p \in 0 .. N - 1 |-> b[p]]
  OBVIOUS
<1> HIDE DEF b, N, H
<1>14. ASSUME NEW p \in 0 .. N - 1
       PROVE  b[p] \in B /\ b[p] \in Nat /\ a[p].low = b[p] % Part /\ b[p] \div Part \in I
              /\ w[b[p] \div Part] <= p /\ p < w[b[p] \div Part + 1]
              /\ a[p].low \in 0 .. Part - 1 /\ b[p] = Part * (b[p] \div Part) + a[p].low
              /\ \E x \in K : b[p] = SourceRowOf(x) /\ a[p] = FinalEdge(x)
  <2>1. PICK h \in I : w[h] <= p /\ p < w[h + 1]
    BY <1>11
  <2>2. PICK x \in K : RowOf(x) = h /\ a[p] = FinalEdge(x) /\ b[p] = SourceRowOf(x)
    BY <1>12, <2>1
  <2>3. b[p] \div Part = h
    BY <1>2, <2>2
  <2>4. b[p] \in B
    BY <1>4, <2>2
  <2>5. a[p].low \in 0 .. Part - 1 /\ a[p].low = b[p] % Part /\ b[p] \in Nat
    BY <1>2, <2>2 DEF InRange
  <2>6. b[p] = Part * h + a[p].low
    BY <1>2, <2>2
  <2>7. b[p] = Part * (b[p] \div Part) + a[p].low
    BY <2>3, <2>6
  <2> QED BY <2>1, <2>2, <2>3, <2>4, <2>5, <2>7
<1>15. ASSUME NEW p \in 0 .. N - 1, NEW h \in I, w[h] <= p, p < w[h + 1]
       PROVE  b[p] \div Part = h /\ p - w[h] + 1 \in 1 .. l(h) /\ a[p] = M[h][p - w[h] + 1]
  <2>1. PICK x \in K : RowOf(x) = h /\ b[p] = SourceRowOf(x)
    BY <1>12, <1>15
  <2> QED BY <1>2, <1>10, <1>15, <2>1
<1>16. \A p \in 0 .. N - 1 : \A h \in I : b[p] \div Part = h <=> w[h] <= p /\ p < w[h + 1]
  BY <1>14, <1>15
<1>17. ASSUME NEW p \in 0 .. N - 1, NEW q \in 0 .. N - 1, p <= q PROVE b[p] <= b[q]
  <2> DEFINE g == b[p] \div Part
             h == b[q] \div Part
             x == a[p].low
             y == a[q].low
  <2>1. /\ g \in I /\ h \in I /\ w[g] <= p /\ p < w[g + 1] /\ w[h] <= q /\ q < w[h + 1]
        /\ x \in 0 .. Part - 1 /\ y \in 0 .. Part - 1 /\ b[p] = Part * g + x /\ b[q] = Part * h + y
    BY <1>14
  <2> HIDE DEF g, h
  <2>2. g \in Nat /\ h \in Nat /\ p \in Nat /\ q \in Nat
    BY <1>1, <1>9, <2>1
  <2>3. ~ (h < g)
    <3> SUFFICES ASSUME h < g PROVE FALSE
      OBVIOUS
    <3>1. h + 1 \in 0 .. NumWide /\ g \in 0 .. NumWide /\ h + 1 <= g
      BY <1>8, <2>1, <2>2
    <3>2. w[h + 1] <= w[g] /\ w[h + 1] \in Nat /\ w[g] \in Nat
      BY <1>6, <1>8, <2>1, <3>1
    <3> QED BY <1>17, <2>1, <2>2, <3>2
  <2>4. CASE g = h
    <3> DEFINE j == p - w[h] + 1
               k == q - w[h] + 1
    <3>1. j \in 1 .. l(h) /\ k \in 1 .. l(h) /\ a[p] = M[h][j] /\ a[q] = M[h][k]
      BY <1>15, <2>1, <2>4
    <3>2. j <= k
      <4>1. w[h] \in Nat
        BY <1>8, <2>1
      <4> QED BY <1>17, <2>2, <4>1
    <3> HIDE DEF j, k
    <3>3. x <= y
      BY <1>3, <2>1, <3>1, <3>2
    <3> DEFINE z == Part * g
    <3>4. z \in Nat /\ b[p] = z + x /\ b[q] = z + y
      BY <1>1, <2>1, <2>2, <2>4
    <3> HIDE DEF z
    <3>5. x \in Int /\ y \in Int
      BY <2>1
    <3> HIDE DEF x, y
    <3> QED BY <3>3, <3>4, <3>5
  <2>5. CASE g < h
    <3>1. Part * g + Part <= Part * h /\ Part * g \in Nat /\ Part * h \in Nat
      BY <1>1, <2>2, <2>5, FactorsFit
    <3> DEFINE u == Part * g
               v == Part * h
    <3>2. u \in Nat /\ v \in Nat /\ u + Part <= v /\ b[p] = u + x /\ b[q] = v + y
      BY <2>1, <3>1
    <3> HIDE DEF u, v, x, y
    <3> QED BY <1>1, <2>1, <3>2
  <2> QED BY <2>2, <2>3, <2>4, <2>5
<1>18. ASSUME NEW x \in K PROVE \E p \in 0 .. N - 1 : b[p] = SourceRowOf(x) /\ a[p] = FinalEdge(x)
  <2> DEFINE h == RowOf(x)
  <2>1. h \in I
    BY <1>2
  <2>2. PICK k \in 1 .. l(h) : M[h][k] = FinalEdge(x)
    BY <1>2, <1>3
  <2> DEFINE p == w[h] + k - 1
  <2>3. p \in 0 .. N - 1 /\ a[p] = FinalEdge(x)
    BY <1>7, <2>1, <2>2
  <2>4. w[h] <= p /\ p < w[h + 1]
    <3> DEFINE u == w[h]
    <3>1. u \in Nat /\ l(h) \in Nat /\ w[h + 1] = u + l(h)
      BY <1>8, <2>1
    <3> HIDE DEF u, h
    <3> QED BY <3>1 DEF u
  <2> HIDE DEF p, h
  <2>5. b[p] \div Part = h /\ b[p] = Part * (b[p] \div Part) + a[p].low
    BY <1>14, <1>15, <2>1, <2>3, <2>4
  <2>6. b[p] = Part * h + FinalEdge(x).low
    BY <2>3, <2>5
  <2>7. b[p] = SourceRowOf(x)
    BY <1>2, <2>6 DEF h
  <2> QED BY <2>3, <2>7
<1>19. ASSUME NEW p \in 0 .. N - 1, NEW q \in 0 .. N - 1, b[p] = b[q], a[p] = a[q] PROVE p = q
  <2> DEFINE h == b[p] \div Part
             u == w[h]
             j == p - u + 1
             k == q - u + 1
  <2>1. h \in I /\ w[h] <= p /\ p < w[h + 1] /\ w[h] <= q /\ q < w[h + 1]
    BY <1>14, <1>19
  <2> HIDE DEF h
  <2>2. j \in 1 .. l(h) /\ k \in 1 .. l(h) /\ M[h][j] = M[h][k]
    BY <1>15, <1>19, <2>1
  <2>3. j = k
    <3> HIDE DEF j, k
    <3> QED BY <1>3, <2>1, <2>2
  <2>4. u \in Nat /\ p \in Nat /\ q \in Nat
    BY <1>8, <1>9, <2>1
  <2> HIDE DEF u
  <2> QED BY <2>3, <2>4
<1>20. \A ix \in B : ix \div Part \in I /\ \E p \in 0 .. N - 1 : b[p] = ix
  BY <1>2, <1>4, <1>18
<1>21. RowsAt(B, a, w, b)
  <2>1. \A h \in I : w[h] <= w[h + 1] /\ w[h + 1] <= N
    BY <1>8
  <2>2. b \in [0 .. N - 1 -> B]
    BY <1>13, <1>14
  <2>3. /\ \A p, q \in 0 .. N - 1 : p <= q => b[p] <= b[q]
        /\ \A p \in 0 .. N - 1 : a[p].low = b[p] % Part
    BY <1>14, <1>17
  <2> QED BY <1>1, <1>6, <1>16, <1>20, <2>1, <2>2, <2>3 DEF RowsAt, N
<1>22. Placed(r, b, a, N)
  <2>1. \A p \in 0 .. N - 1 : \E x \in K : b[p] = SourceRowOf(x) /\ a[p] = FinalEdge(x)
    BY <1>14
  <2>2. \A p, q \in 0 .. N - 1 : b[p] = b[q] /\ a[p] = a[q] => p = q
    BY <1>19
  <2> QED BY <1>18, <2>1, <2>2 DEF Placed, K
<1> QED BY <1>21, <1>22 DEF B, a, w, N

-----------------------------------------------------------------------------
(* The rows that a rank ends with *)

LEMMA SetRowsTyped ==
  ASSUME Ordered, NEW r \in Rank
  PROVE  IsFiniteSet(SetRows(r)) /\ SetRows(r) \in SUBSET Nat
<1> DEFINE K == Kept(r, NumLoops)
           f == [x \in K |-> SourceRowOf(x)]
<1>1. SetRows(r) = {f[x] : x \in K} /\ f = [x \in K |-> f[x]]
  BY SetRowsExact
<1>2. K \in SUBSET Sends
  BY DEF Kept
<1>3. \A x \in K : SourceRowOf(x) \in Nat
  BY <1>2, WideRowOf
<1>4. IsFiniteSet(K)
  <2>1. IsFiniteSet(Sends)
    BY EndsFinite DEF Ordered, PhaseOK
  <2> HIDE DEF K
  <2> QED BY <1>2, <2>1, FS_Subset
<1>5. SetRows(r) \in SUBSET Nat
  BY <1>1, <1>3
<1> HIDE DEF K, f
<1>6. IsFiniteSet({f[x] : x \in K})
  BY <1>1, <1>4, ImageFinite
<1> QED BY <1>1, <1>5, <1>6

\* What a rank has from the end of the second pass on: its rows hold the
\* entries of the edges that belong there, once each.
Formed == {"bits", "sum", "done"}
FormedOK(r, first, rest, s) ==
  /\ \A y \in Slots(bitmap[r], s) : \E x \in Kept(r, NumLoops) :
       /\ Ascending(bitmap[r])[y[1] + 1] = SourceRowOf(x)
       /\ Slot(first, rest, s, y[1], y[2]) = FinalEdge(x)
  /\ \A x \in Kept(r, NumLoops) : \E y \in Slots(bitmap[r], s) :
       /\ Ascending(bitmap[r])[y[1] + 1] = SourceRowOf(x)
       /\ Slot(first, rest, s, y[1], y[2]) = FinalEdge(x)
  /\ \A y, z \in Slots(bitmap[r], s) :
       /\ Ascending(bitmap[r])[y[1] + 1] = Ascending(bitmap[r])[z[1] + 1]
       /\ Slot(first, rest, s, y[1], y[2]) = Slot(first, rest, s, z[1], z[2])
       => y = z
RowsFormed ==
  \A r \in Rank : place[r] \in Formed => FormedOK(r, isolated[r], array[r], rowStarts[r])

LEMMA RowsCutFormed ==
  ASSUME Ordered, NEW r \in Rank, bitmap[r] = SetRows(r), NEW M, RowsMerged(r, M)
  PROVE  LET a == Joint(M, NumWide)
             s == RowStarts(bitmap[r], a, Begins(M, NumWide))
             n == Cardinality(bitmap[r])
         IN FormedOK(r, FirstEdges(s, a, n), OtherEdges(s, a, n), Shifted(s))
<1> DEFINE B == bitmap[r]
           a == Joint(M, NumWide)
           w == Begins(M, NumWide)
           N == w[NumWide]
           n == Cardinality(B)
           s == RowStarts(B, a, w)
           t == Shifted(s)
           first == FirstEdges(s, a, n)
           rest == OtherEdges(s, a, n)
           Y == Slots(B, t)
           P(y) == s[y[1]] + y[2]
           T(y) == Slot(first, rest, t, y[1], y[2])
           c(y) == Ascending(B)[y[1] + 1]
           K == Kept(r, NumLoops)
<1>1. PICK b : RowsAt(SetRows(r), a, w, b) /\ Placed(r, b, a, N)
  BY RowsPlaced
<1>2. IsFiniteSet(B) /\ B \in SUBSET Nat /\ RowsAt(B, a, w, b)
  BY <1>1, SetRowsTyped
<1>3. /\ \A y \in Y : P(y) \in 0 .. N - 1 /\ b[P(y)] = c(y) /\ a[P(y)] = T(y)
      /\ \A y, z \in Y : P(y) = P(z) => y = z
      /\ \A p \in 0 .. N - 1 : \E y \in Y : P(y) = p
  <2> HIDE DEF B, a, w
  <2>1. \A y \in Y : P(y) \in 0 .. N - 1 /\ b[P(y)] = c(y) /\ a[P(y)] = T(y)
    <3>1. \A y \in Y : P(y) \in 0 .. N - 1
      BY <1>2, RowsCut
    <3>2. \A y \in Y : b[P(y)] = c(y)
      BY <1>2, RowsCut
    <3>3. \A y \in Y : a[P(y)] = T(y)
      BY <1>2, RowsCut
    <3> HIDE DEF Y, P, T, c
    <3> QED BY <3>1, <3>2, <3>3
  <2>2. \A y, z \in Y : P(y) = P(z) => y = z
    BY <1>2, RowsCut
  <2>3. \A p \in 0 .. N - 1 : \E y \in Y : P(y) = p
    BY <1>2, RowsCut
  <2> QED BY <2>1, <2>2, <2>3
<1>4. /\ \A p \in 0 .. N - 1 : \E x \in K : b[p] = SourceRowOf(x) /\ a[p] = FinalEdge(x)
      /\ \A x \in K : \E p \in 0 .. N - 1 : b[p] = SourceRowOf(x) /\ a[p] = FinalEdge(x)
      /\ \A p, q \in 0 .. N - 1 : b[p] = b[q] /\ a[p] = a[q] => p = q
  BY <1>1 DEF Placed
<1> DEFINE D == 0 .. N - 1
<1>5. /\ \A y \in Y : P(y) \in D /\ b[P(y)] = c(y) /\ a[P(y)] = T(y)
      /\ \A y, z \in Y : P(y) = P(z) => y = z
      /\ \A p \in D : \E y \in Y : P(y) = p
      /\ \A p \in D : \E x \in K : b[p] = SourceRowOf(x) /\ a[p] = FinalEdge(x)
      /\ \A x \in K : \E p \in D : b[p] = SourceRowOf(x) /\ a[p] = FinalEdge(x)
      /\ \A p, q \in D : b[p] = b[q] /\ a[p] = a[q] => p = q
  BY <1>3, <1>4
<1>6. (\A y \in Y : \E x \in K : c(y) = SourceRowOf(x) /\ T(y) = FinalEdge(x))
      /\ (\A x \in K : \E y \in Y : c(y) = SourceRowOf(x) /\ T(y) = FinalEdge(x))
      /\ (\A y, z \in Y : c(y) = c(z) /\ T(y) = T(z) => y = z)
  <2> HIDE DEF D, P, Y, T, c, a, K
  <2>1. \A y \in Y : \E x \in K : c(y) = SourceRowOf(x) /\ T(y) = FinalEdge(x)
    BY <1>5
  <2>2. \A x \in K : \E y \in Y : c(y) = SourceRowOf(x) /\ T(y) = FinalEdge(x)
    <3> TAKE x \in K
    <3>1. PICK p \in D : b[p] = SourceRowOf(x) /\ a[p] = FinalEdge(x)
      BY <1>5
    <3>2. PICK y \in Y : P(y) = p
      BY <1>5
    <3>3. c(y) = SourceRowOf(x) /\ T(y) = FinalEdge(x)
      BY <1>5, <3>1, <3>2
    <3> QED BY <3>3
  <2>3. \A y, z \in Y : c(y) = c(z) /\ T(y) = T(z) => y = z
    <3> TAKE y, z \in Y
    <3> SUFFICES ASSUME c(y) = c(z), T(y) = T(z) PROVE y = z
      OBVIOUS
    <3>1. P(y) \in D /\ P(z) \in D /\ b[P(y)] = b[P(z)] /\ a[P(y)] = a[P(z)]
      BY <1>5
    <3>2. P(y) = P(z)
      BY <1>5, <3>1
    <3> QED BY <1>5, <3>2
  <2> QED BY <2>1, <2>2, <2>3
<1> HIDE DEF D, first, rest, t, s, a, w
<1> QED BY <1>6 DEF FormedOK, first, rest, t, s, a, w, n

\* At the end of the second pass the offsets are the counted ones again.
LEMMA OffsetsRefreshed ==
  ASSUME BuildOK, ArrayOK, NEW r \in Rank, place[r] = "store", loop[r] = NumLoops
  PROVE  /\ Ordered /\ bitmap[r] = SetRows(r)
         /\ Refreshed(wide[r]) = WideStarts(r)
         /\ RowsMerged(r, MergedRows(array[r], WideStarts(r)))
<1> DEFINE c == WideStarts(r)
<1>1. PhaseOK /\ CountOK /\ OrderOK /\ LayoutOK /\ FillOK
  BY DEF BuildOK
<1>2. Ordered
  BY <1>1, AllOrdered DEF First
<1>3. counted[r] = c /\ bitmap[r] = SetRows(r)
  BY <1>1 DEF LayoutOK, Early
<1>4. c \in [0 .. NumWide -> Nat] /\ c[0] = 0 /\ NumWide \in Nat
  BY <1>2, WideStartsExact, Widths
<1>5. \A h \in 0 .. NumWide - 1 : wide[r][h] = c[h + 1]
  BY <1>3, CountsAgreeIn DEF CountsAgree
<1>6. Refreshed(wide[r]) = c
  <2> DEFINE w == wide[r]
  <2>1. \A h \in 0 .. NumWide - 1 : w[h] = c[h + 1]
    BY <1>5
  <2>2. c = [h \in 0 .. NumWide |-> c[h]]
    BY <1>4
  <2> HIDE DEF c, w
  <2>3. ASSUME NEW h \in 0 .. NumWide, h # 0 PROVE w[h - 1] = c[h]
    <3>1. h - 1 \in 0 .. NumWide - 1 /\ (h - 1) + 1 = h
      BY <1>4, <2>3
    <3> QED BY <2>1, <3>1
  <2>4. \A h \in 0 .. NumWide : c[h] = IF h = 0 THEN 0 ELSE w[h - 1]
    BY <1>4, <2>3
  <2>5. Refreshed(w) = c
    BY <2>2, <2>4 DEF Refreshed
  <2> QED BY <2>5 DEF w, c
<1>7. ASSUME NEW h \in 0 .. NumWide - 1
      PROVE  {array[r][p] : p \in c[h] .. c[h + 1] - 1} = RowEntries(r, h)
  <2>1. {array[r][p] : p \in counted[r][h] .. wide[r][h] - 1} = {FinalEdge(x) : x \in InRow(r, NumLoops, h)}
    BY DEF ArrayOK, Filling, EntriesIn
  <2>2. counted[r][h] = c[h] /\ wide[r][h] = c[h + 1]
    BY <1>3, <1>5
  <2> HIDE DEF c
  <2> QED BY <2>1, <2>2 DEF RowEntries
<1>8. RowsMerged(r, MergedRows(array[r], c))
  <2> HIDE DEF c
  <2> QED BY <1>7 DEF RowsMerged, MergedRows
<1> QED BY <1>2, <1>3, <1>6, <1>8

LEMMA FormSteps ==
  ASSUME PhaseOK, [BuildNext]_buildVars, NEW r \in Rank, place'[r] \in Formed
  PROVE  \/ FormRows(r)
         \/ /\ place[r] \in Formed
            /\ isolated'[r] = isolated[r] /\ array'[r] = array[r] /\ rowStarts'[r] = rowStarts[r]
<1> DEFINE Same == isolated'[r] = isolated[r] /\ array'[r] = array[r] /\ rowStarts'[r] = rowStarts[r]
<1>1. CASE SearchMaxVertex \/ ScanEdges \/ ChooseOrder \/ ScatterEdges
  BY <1>1 DEF SearchMaxVertex, ScanEdges, ChooseOrder, ScatterEdges, Formed, AllAt
<1>2. CASE \E g \in Rank : GatherLayout(g) \/ ConvertSources(g) \/ ConvertTargetsAndAdd(g)
  <2>1. PICK g \in Rank : GatherLayout(g) \/ ConvertSources(g) \/ ConvertTargetsAndAdd(g)
    BY <1>2
  <2>2. CASE GatherLayout(g)
    BY <2>2 DEF GatherLayout, Within, Formed, csrVars
  <2>3. CASE ConvertSources(g)
    BY <2>3 DEF ConvertSources, Within, Formed, csrVars
  <2>4. CASE ConvertTargetsAndAdd(g)
    BY <2>4 DEF ConvertTargetsAndAdd, Within, Formed, csrVars
  <2> QED BY <2>1, <2>2, <2>3, <2>4
<1>3. CASE \E g \in Rank : FormRows(g)
  <2>1. PICK g \in Rank : FormRows(g)
    BY <1>3
  <2>2. CASE g = r
    BY <2>1, <2>2
  <2>3. CASE g # r
    <3>1. /\ \E x : isolated' = [isolated EXCEPT ![g] = x]
          /\ \E x : array' = [array EXCEPT ![g] = x]
          /\ \E x : rowStarts' = [rowStarts EXCEPT ![g] = x]
          /\ place' = [place EXCEPT ![g] = "bits"]
      BY <2>1 DEF FormRows
    <3>2. Shaped /\ DOMAIN place = Rank
      BY DEF PhaseOK
    <3> QED BY <2>3, <3>1, <3>2 DEF Shaped
  <2> QED BY <2>2, <2>3
<1>4. CASE (\E g \in Rank : ReduceBits(g)) \/ SumVertices \/ Built
  <2>1. PICK g \in Rank : ReduceBits(g) \/ SumVertices \/ Built
    BY <1>4, RankFinite
  <2>2. Same
    BY <2>1 DEF ReduceBits, SumVertices, Built, csrVars, buildVars
  <2>3. place[r] \in Formed
    BY <2>1 DEF ReduceBits, SumVertices, Built, csrVars, buildVars, Formed, AllAt, Within
  <2> QED BY <2>2, <2>3
<1>5. CASE UNCHANGED buildVars
  BY <1>5 DEF buildVars, csrVars
<1> QED BY <1>1, <1>2, <1>3, <1>4, <1>5 DEF BuildNext

LEMMA FormedInit ==
  ASSUME BuildInit
  PROVE  RowsFormed
BY DEF BuildInit, RowsFormed, Formed

LEMMA FormedStep ==
  ASSUME BuildOK, ArrayOK, RowsFormed, [BuildNext]_buildVars
  PROVE  RowsFormed'
<1> SUFFICES ASSUME NEW r \in Rank, place'[r] \in Formed
             PROVE  FormedOK(r, isolated[r], array[r], rowStarts[r])'
  BY DEF RowsFormed, Formed
<1>1. PhaseOK
  BY DEF BuildOK
<1>2. \/ FormRows(r)
      \/ /\ place[r] \in Formed
         /\ isolated'[r] = isolated[r] /\ array'[r] = array[r] /\ rowStarts'[r] = rowStarts[r]
  BY <1>1, FormSteps
<1>3. place[r] \notin First /\ place[r] \notin Early
  BY <1>2 DEF FormRows, Formed, First, Early
<1>4. rows' = rows /\ numOrig' = numOrig /\ numLocal' = numLocal /\ vertexes' = vertexes
      /\ edges' = edges /\ reordering' = reordering
  BY <1>1, <1>3, OrderStays, EdgesStay
<1>5. bitmap'[r] = bitmap[r]
  BY <1>1, <1>3, LayoutStays DEF Early
<1>6. FormedOK(r, isolated'[r], array'[r], rowStarts'[r])
  <2>1. CASE FormRows(r)
    <3> DEFINE c == WideStarts(r)
               M == MergedRows(array[r], c)
               a == Joint(M, NumWide)
               s == RowStarts(bitmap[r], a, Begins(M, NumWide))
               n == Cardinality(bitmap[r])
    <3>1. place[r] = "store" /\ loop[r] = NumLoops
      BY <2>1 DEF FormRows
    <3>2. /\ Ordered /\ bitmap[r] = SetRows(r) /\ Refreshed(wide[r]) = c /\ RowsMerged(r, M)
      BY <3>1, OffsetsRefreshed
    <3>3. Shaped
      BY <1>1 DEF PhaseOK
    <3>4. /\ isolated' = [isolated EXCEPT ![r] = FirstEdges(s, a, n)]
          /\ array' = [array EXCEPT ![r] = OtherEdges(s, a, n)]
          /\ rowStarts' = [rowStarts EXCEPT ![r] = Shifted(s)]
      <4> HIDE DEF c
      <4> QED BY <2>1, <3>2 DEF FormRows
    <3>5. FormedOK(r, FirstEdges(s, a, n), OtherEdges(s, a, n), Shifted(s))
      <4> HIDE DEF M
      <4> QED BY <3>2, RowsCutFormed
    <3> HIDE DEF s, a, n
    <3>6. isolated'[r] = FirstEdges(s, a, n) /\ array'[r] = OtherEdges(s, a, n) /\ rowStarts'[r] = Shifted(s)
      BY <3>3, <3>4 DEF Shaped
    <3> QED BY <3>5, <3>6
  <2>2. CASE /\ place[r] \in Formed
             /\ isolated'[r] = isolated[r] /\ array'[r] = array[r] /\ rowStarts'[r] = rowStarts[r]
    BY <2>2 DEF RowsFormed
  <2> QED BY <1>2, <2>1, <2>2
<1>7. /\ Sends' = Sends
      /\ \A x : /\ From(x)' = From(x) /\ To(x)' = To(x) /\ Read(x)' = Read(x)
                /\ SourceRowOf(x)' = SourceRowOf(x) /\ FinalEdge(x)' = FinalEdge(x)
  BY <1>4, FinalEdgesSame
<1>8. (Kept(r, NumLoops))' = Kept(r, NumLoops)
  <2>1. NumLoops' = NumLoops
    BY <1>4, ListSame
  <2> QED BY <1>4, <1>7, <2>1 DEF Kept, Read, From, To
<1> DEFINE K == Kept(r, NumLoops)
           B == bitmap[r]
           first == isolated'[r]
           rest == array'[r]
           s == rowStarts'[r]
<1>9. /\ \A y \in Slots(B, s) : \E x \in K :
           Ascending(B)[y[1] + 1] = SourceRowOf(x)' /\ Slot(first, rest, s, y[1], y[2]) = FinalEdge(x)'
      /\ \A x \in K : \E y \in Slots(B, s) :
           Ascending(B)[y[1] + 1] = SourceRowOf(x)' /\ Slot(first, rest, s, y[1], y[2]) = FinalEdge(x)'
      /\ \A y, z \in Slots(B, s) :
           Ascending(B)[y[1] + 1] = Ascending(B)[z[1] + 1]
           /\ Slot(first, rest, s, y[1], y[2]) = Slot(first, rest, s, z[1], z[2]) => y = z
  <2> DEFINE U(x, y) == Ascending(B)[y[1] + 1] = SourceRowOf(x) /\ Slot(first, rest, s, y[1], y[2]) = FinalEdge(x)
             V(x, y) == Ascending(B)[y[1] + 1] = SourceRowOf(x)' /\ Slot(first, rest, s, y[1], y[2]) = FinalEdge(x)'
  <2>1. \A x, y : V(x, y) <=> U(x, y)
    BY <1>7
  <2>2. /\ \A y \in Slots(B, s) : \E x \in K : U(x, y)
        /\ \A x \in K : \E y \in Slots(B, s) : U(x, y)
        /\ \A y, z \in Slots(B, s) :
             Ascending(B)[y[1] + 1] = Ascending(B)[z[1] + 1]
             /\ Slot(first, rest, s, y[1], y[2]) = Slot(first, rest, s, z[1], z[2]) => y = z
    BY <1>6 DEF FormedOK
  <2>3. /\ \A y \in Slots(B, s) : \E x \in K : V(x, y)
        /\ \A x \in K : \E y \in Slots(B, s) : V(x, y)
    <3> HIDE DEF U, V, K, B, s, first, rest
    <3> QED BY <2>1, <2>2
  <2> QED BY <2>2, <2>3
<1>10. bitmap'[r] = B /\ (Kept(r, NumLoops))' = K
  BY <1>5, <1>8
<1> HIDE DEF B, K
<1> QED BY <1>9, <1>10 DEF FormedOK, Slots, Slot

\* The ends of an edge as the reader of a row finds them.
LEMMA SourceRead ==
  ASSUME Ordered, NEW r \in Rank, bitmap[r] = SetRows(r), orig[r] = Names(r),
         NEW k \in 0 .. Cardinality(bitmap[r]) - 1, NEW x \in Kept(r, NumLoops),
         RowBits(r)[k + 1] = SourceRowOf(x)
  PROVE  Source(r, k) = From(x) /\ RowBits(r)[k + 1] % numLocal = Number(From(x))
<1> DEFINE ix == SourceRowOf(x)
           v == From(x)
<1>1. EdgesOK /\ x \in Sends /\ EdgeOwner(From(x), To(x)) = r
  BY DEF Ordered, PhaseOK, Kept
<1>2. v \in Nat /\ To(x) \in Nat
  BY <1>1, SendsTyped
<1>3. OwnerR(v) = Row(r)
  BY <1>1, <1>2, EdgeOwnerParts
<1>4. ix \div numLocal = OwnerC(v) /\ ix % numLocal = Number(v)
  <2>1. Number(v) \in 0 .. numLocal - 1
    BY <1>1, NumberParts, Widths
  <2> QED BY <1>1, <2>1, SourceRowParts
<1>5. Sender(r, OwnerC(v)) = Owner(v) /\ Owner(v) \in Rank
  BY <1>2, <1>3, OwnerInRow, VertexParts
<1>6. RowBits(r) = Ascending(SetRows(r))
  BY DEF RowBits
<1>7. orig[r][k] = vertexes[Sender(r, ix \div numLocal)][ix % numLocal]
  BY <1>6, SetRowsTyped, NamesExact
<1>8. vertexes[Owner(v)][Number(v)] = Local(v)
  <2>1. Local(v) \in Locals
    BY <1>1, NumberParts
  <2>2. place[Owner(v)] \notin First /\ PhaseOK /\ CountOK /\ OrderOK
    BY <1>5 DEF Ordered
  <2> QED BY <1>5, <2>1, <2>2, ReorderedExact DEF Number
<1>9. orig[r][k] = Local(v)
  <2> HIDE DEF ix, v
  <2> QED BY <1>4, <1>5, <1>7, <1>8
<1>10. Source(r, k) = Local(v) * Size + RankAt(Row(r), OwnerC(v))
  <2>1. RowBits(r)[k + 1] \div numLocal = OwnerC(v)
    BY <1>4
  <2> HIDE DEF v
  <2> QED BY <1>9, <2>1 DEF Source
<1> HIDE DEF v, ix
<1>11. Local(v) * Size + RankAt(Row(r), OwnerC(v)) = v
  <2>1. v = Size * Local(v) + Owner(v) /\ Owner(v) = RankAt(OwnerR(v), OwnerC(v)) /\ Local(v) \in Nat /\ Owner(v) \in Nat
    BY <1>2, VertexParts, RankFinite
  <2>2. Size * Local(v) = Local(v) * Size
    BY <2>1, GridSize
  <2> QED BY <1>3, <2>1, <2>2
<1>12. RowBits(r)[k + 1] % numLocal = Number(v)
  BY <1>4 DEF ix
<1> QED BY <1>10, <1>11, <1>12 DEF v

LEMMA TargetRead ==
  ASSUME Ordered, NEW r \in Rank, NEW x \in Kept(r, NumLoops)
  PROVE  /\ Target(r, FinalEdge(x)) = To(x)
         /\ FinalEdge(x).d = Reordered(RankAt(FinalEdge(x).r, Column(r)), FinalEdge(x).orig)
<1> DEFINE v == To(x)
<1>1. EdgesOK /\ x \in Sends /\ EdgeOwner(From(x), To(x)) = r
  BY DEF Ordered, PhaseOK, Kept
<1>2. From(x) \in Nat /\ v \in Nat
  BY <1>1, SendsTyped
<1>3. OwnerC(v) = Column(r)
  BY <1>1, <1>2, EdgeOwnerParts
<1>4. FinalEdge(x).r = OwnerR(v) /\ FinalEdge(x).d = Number(v) /\ FinalEdge(x).orig = Local(v)
  BY DEF FinalEdge
<1> HIDE DEF v
<1>5. v = Size * Local(v) + Owner(v) /\ Owner(v) = RankAt(OwnerR(v), Column(r)) /\ Local(v) \in Nat /\ Owner(v) \in Nat
  BY <1>2, <1>3, VertexParts, RankFinite
<1>6. Size * Local(v) = Local(v) * Size
  BY <1>5, GridSize
<1>7. Target(r, FinalEdge(x)) = Local(v) * Size + Owner(v)
  BY <1>4, <1>5 DEF Target
<1>8. FinalEdge(x).d = Reordered(RankAt(FinalEdge(x).r, Column(r)), FinalEdge(x).orig)
  BY <1>4, <1>5 DEF Number
<1> QED BY <1>5, <1>6, <1>7, <1>8 DEF v

LEMMA RowsExactIn ==
  ASSUME BuildOK, RowsFormed
  PROVE  RowsExact
<1> SUFFICES ASSUME AllAt(Rank, "done"), NEW r \in Rank
             PROVE  /\ {Pair(r, y) : y \in Entries(r)} = {p \in Joined : EdgeOwner(p[1], p[2]) = r}
                    /\ \A y, z \in Entries(r) : Pair(r, y) = Pair(r, z) => y = z
                    /\ \A y \in Entries(r) :
                         LET e == Entry(r, y[1], y[2]) IN
                         /\ RowBits(r)[y[1] + 1] % numLocal
                              = Reordered(Owner(Source(r, y[1])), Local(Source(r, y[1])))
                         /\ e.d = Reordered(RankAt(e.r, Column(r)), e.orig)
  BY DEF RowsExact
<1> DEFINE K == Kept(r, NumLoops)
           Y == Entries(r)
           b(y) == RowBits(r)[y[1] + 1]
           e(y) == Entry(r, y[1], y[2])
<1>1. /\ Ordered /\ EdgesOK /\ bitmap[r] = SetRows(r) /\ orig[r] = Names(r)
      /\ FormedOK(r, isolated[r], array[r], rowStarts[r])
  <2>1. place[r] = "done"
    BY DEF AllAt
  <2> QED BY <2>1, AllOrdered DEF BuildOK, PhaseOK, LayoutOK, Early, First, RowsFormed, Formed
<1>2. Y = Slots(bitmap[r], rowStarts[r])
  BY DEF Entries, Slots
<1>3. \A y : b(y) = Ascending(bitmap[r])[y[1] + 1] /\ e(y) = Slot(isolated[r], array[r], rowStarts[r], y[1], y[2])
  BY DEF RowBits, Entry, Slot
<1>4. \A y \in Y : y[1] \in 0 .. Cardinality(bitmap[r]) - 1
  BY <1>2 DEF Slots
<1>5. /\ \A y \in Y : \E x \in K : b(y) = SourceRowOf(x) /\ e(y) = FinalEdge(x)
      /\ \A x \in K : \E y \in Y : b(y) = SourceRowOf(x) /\ e(y) = FinalEdge(x)
      /\ \A y, z \in Y : b(y) = b(z) /\ e(y) = e(z) => y = z
  <2> HIDE DEF b, e, K, Y
  <2>1. /\ \A y \in Slots(bitmap[r], rowStarts[r]) : \E x \in K :
             Ascending(bitmap[r])[y[1] + 1] = SourceRowOf(x) /\ Slot(isolated[r], array[r], rowStarts[r], y[1], y[2]) = FinalEdge(x)
        /\ \A x \in K : \E y \in Slots(bitmap[r], rowStarts[r]) :
             Ascending(bitmap[r])[y[1] + 1] = SourceRowOf(x) /\ Slot(isolated[r], array[r], rowStarts[r], y[1], y[2]) = FinalEdge(x)
        /\ \A y, z \in Slots(bitmap[r], rowStarts[r]) :
             Ascending(bitmap[r])[y[1] + 1] = Ascending(bitmap[r])[z[1] + 1]
             /\ Slot(isolated[r], array[r], rowStarts[r], y[1], y[2]) = Slot(isolated[r], array[r], rowStarts[r], z[1], z[2]) => y = z
    BY <1>1 DEF FormedOK, K
  <2> QED BY <1>2, <1>3, <2>1
<1>6. ASSUME NEW y \in Y, NEW x \in K, b(y) = SourceRowOf(x), e(y) = FinalEdge(x)
      PROVE  /\ Source(r, y[1]) = From(x) /\ Target(r, e(y)) = To(x) /\ Pair(r, y) = <<From(x), To(x)>>
             /\ b(y) % numLocal = Number(From(x))
             /\ e(y).d = Reordered(RankAt(e(y).r, Column(r)), e(y).orig)
  <2>1. Source(r, y[1]) = From(x) /\ b(y) % numLocal = Number(From(x))
    BY <1>1, <1>4, <1>6, SourceRead
  <2>2. Target(r, e(y)) = To(x) /\ e(y).d = Reordered(RankAt(e(y).r, Column(r)), e(y).orig)
    <3>1. Target(r, FinalEdge(x)) = To(x)
          /\ FinalEdge(x).d = Reordered(RankAt(FinalEdge(x).r, Column(r)), FinalEdge(x).orig)
      BY <1>1, TargetRead
    <3> HIDE DEF e
    <3> QED BY <1>6, <3>1
  <2> QED BY <2>1, <2>2 DEF Pair
<1>7. \A x \in K : <<From(x), To(x)>> \in Joined /\ EdgeOwner(From(x), To(x)) = r
  BY DEF Kept, Joined
<1>8. ASSUME NEW p \in Joined, EdgeOwner(p[1], p[2]) = r PROVE \E x \in K : p = <<From(x), To(x)>>
  <2>1. PICK x \in Sends : p = <<From(x), To(x)>>
    BY DEF Joined
  <2>2. EdgeOwner(From(x), To(x)) = r
    BY <1>8, <2>1
  <2>3. Read(x) < NumLoops
    BY <1>1, SendsTyped DEF Read
  <2> QED BY <2>1, <2>2, <2>3 DEF Kept
<1>9. \A p \in Joined : EdgeOwner(p[1], p[2]) = r => \E y \in Y : Pair(r, y) = p
  <2> TAKE p \in Joined
  <2> SUFFICES ASSUME EdgeOwner(p[1], p[2]) = r PROVE \E y \in Y : Pair(r, y) = p
    OBVIOUS
  <2>1. PICK x \in K : p = <<From(x), To(x)>>
    BY <1>8
  <2>2. PICK y \in Y : b(y) = SourceRowOf(x) /\ e(y) = FinalEdge(x)
    BY <1>5
  <2>3. Pair(r, y) = p
    BY <1>6, <2>1, <2>2
  <2> QED BY <2>3
<1>10. \A y \in Y : Pair(r, y) \in Joined /\ EdgeOwner(Pair(r, y)[1], Pair(r, y)[2]) = r
  <2> TAKE y \in Y
  <2>1. PICK x \in K : b(y) = SourceRowOf(x) /\ e(y) = FinalEdge(x)
    BY <1>5
  <2>2. Pair(r, y) = <<From(x), To(x)>>
    BY <1>6, <2>1
  <2> QED BY <1>7, <2>2
<1>11. {Pair(r, y) : y \in Y} = {p \in Joined : EdgeOwner(p[1], p[2]) = r}
  <2> HIDE DEF Y
  <2> QED BY <1>9, <1>10
<1>12. ASSUME NEW y \in Y, NEW z \in Y, Pair(r, y) = Pair(r, z) PROVE y = z
  <2>1. PICK x \in K : b(y) = SourceRowOf(x) /\ e(y) = FinalEdge(x)
    BY <1>5
  <2>2. PICK u \in K : b(z) = SourceRowOf(u) /\ e(z) = FinalEdge(u)
    BY <1>5
  <2>3. Pair(r, y) = <<From(x), To(x)>> /\ Pair(r, z) = <<From(u), To(u)>>
    BY <1>6, <2>1, <2>2
  <2>4. From(x) = From(u) /\ To(x) = To(u)
    <3>1. <<From(x), To(x)>> = <<From(u), To(u)>>
      BY <1>12, <2>3
    <3> QED BY <3>1
  <2>5. SourceRowOf(x) = SourceRowOf(u)
    BY <2>4 DEF SourceRowOf
  <2>6. FinalEdge(x) = FinalEdge(u)
    BY <2>4, <2>5 DEF FinalEdge
  <2> QED BY <1>5, <2>1, <2>2, <2>5, <2>6
<1>13. ASSUME NEW y \in Y
       PROVE  /\ b(y) % numLocal = Reordered(Owner(Source(r, y[1])), Local(Source(r, y[1])))
              /\ e(y).d = Reordered(RankAt(e(y).r, Column(r)), e(y).orig)
  <2>1. PICK x \in K : b(y) = SourceRowOf(x) /\ e(y) = FinalEdge(x)
    BY <1>5
  <2> QED BY <1>6, <2>1 DEF Number
<1> QED BY <1>11, <1>12, <1>13

-----------------------------------------------------------------------------
(* The theorems *)

BuildInv == BuildOK /\ BitsOK /\ ArrayOK /\ RowsFormed

LEMMA BuildStart == BuildInit => BuildInv
BY PhaseInit, CountInit, OrderInit, LayoutInit, FillInit, BitsInit, ArrayInit, FormedInit DEF BuildInv, BuildOK

LEMMA BuildKeeps ==
  ASSUME RanksFit, BuildInv, [BuildNext]_buildVars
  PROVE  BuildInv'
<1>1. BuildOK'
  BY PhaseStep, CountStep, OrderStep, LayoutStep, FillStep DEF BuildInv, BuildOK
<1>2. BitsOK'
  BY BitsStep DEF BuildInv
<1>3. ArrayOK'
  BY ArrayStep DEF BuildInv, BuildOK
<1>4. RowsFormed'
  BY FormedStep DEF BuildInv
<1> QED BY <1>1, <1>2, <1>3, <1>4 DEF BuildInv

\* The invariant of the construction: the ranks are at most one collective
\* operation apart, what they have counted, ordered, laid out, filled and formed
\* is what the edge list says, and the bits that they reduce are those of its
\* vertices.
THEOREM BuildInvariant ==
  ASSUME RanksFit
  PROVE  BuildSpec => []BuildInv
<1>1. BuildInit => BuildInv
  BY BuildStart
<1>2. BuildInv /\ [BuildNext]_buildVars => BuildInv'
  BY BuildKeeps
<1> QED BY <1>1, <1>2, PTL DEF BuildSpec

\* "high: v1's c, low: v0's vertex_local": the local number of every end of an
\* edge fits in the org_local_bits_ below the column it is packed with.
LocalsFit == ~ AllAt(Rank, "max") => \A x \in Sends : Local(From(x)) < numOrig

\* What scatterAndScanEdges and writeSendEdges pack fits in its bits, for as many
\* ranks as a unit has vertices, and for more if they are a power of two.
THEOREM LocalsAlwaysFit ==
  ASSUME RanksFit
  PROVE  BuildSpec => []LocalsFit
<1>1. BuildInv => LocalsFit
  <2> SUFFICES ASSUME BuildInv, NEW x \in Sends, ~ AllAt(Rank, "max") PROVE Local(From(x)) < numOrig
    BY DEF LocalsFit
  <2> QED BY DEF BuildInv, BuildOK, CountOK, AllAt
<1> QED BY <1>1, BuildInvariant, PTL

\* scatterAndStore finds in every wide row the room that scatterAndScanEdges
\* counted for it, and fills it.
THEOREM CountsAlwaysAgree ==
  ASSUME RanksFit
  PROVE  BuildSpec => []CountsAgree
<1>1. BuildInv => CountsAgree
  BY CountsAgreeIn DEF BuildInv
<1> QED BY <1>1, BuildInvariant, PTL

\* computeNumVertices: has_edge_bitmap_ says at the owner of every vertex
\* whether it has an edge, and num_global_verts_ counts these vertices.
THEOREM HasEdgeAlwaysExact ==
  ASSUME RanksFit
  PROVE  BuildSpec => []HasEdgeExact
<1>1. BuildInv => HasEdgeExact
  BY HasEdgeIn DEF BuildInv
<1> QED BY <1>1, BuildInvariant, PTL

\* When the construction ends, constructFromWideCSR and isolateFirstEdge have
\* left every rank the two directions of every edge that edge_owner gives to it,
\* once, without self-loops, with numbers of their ends that belong together.
THEOREM RowsAlwaysExact ==
  ASSUME RanksFit
  PROVE  BuildSpec => []RowsExact
<1>1. BuildInv => RowsExact
  BY RowsExactIn DEF BuildInv
<1> QED BY <1>1, BuildInvariant, PTL

-----------------------------------------------------------------------------
(* The benchmark driver: the random numbers determine the roots *)

USE DriverAssumption

\* The k-th candidate with parameters p, when the random numbers are d, and the
\* roots after it, when no candidate is behind the bitmap.
Drawn(d, p, k) == d[p][((k - 1) % Len(d[p])) + 1]
RootsAfter(d, p, k, rs) ==
  IF Exhausted(k) \/ (Drawn(d, p, k) \notin ToSet(rs) /\ Drawn(d, p, k) \in EdgeVertex)
  THEN Append(rs, Drawn(d, p, k)) ELSE rs

\* f[m] are the roots after m candidates.
Trace(d, p, n, f) ==
  /\ f \in [0 .. n -> Seq(Vertex)] /\ f[0] = <<>>
  /\ \A m \in 0 .. n - 1 : f[m + 1] = RootsAfter(d, p, m + 1, f[m])

\* Vertex v is the k-th root with parameters p.
RootAt(d, p, k, v) ==
  \E n \in Nat : \E f \in [0 .. n -> Seq(Vertex)] :
    Trace(d, p, n, f) /\ k \in DOMAIN f[n] /\ f[n][k] = v

\* Two processes with the same parameters draw the same roots.
LEMMA SameTrace ==
  ASSUME NEW d, NEW p, NEW n \in Nat, NEW m \in Nat, n <= m, NEW f, NEW g,
         Trace(d, p, n, f), Trace(d, p, m, g)
  PROVE  f[n] = g[n]
  <1> DEFINE T == {j \in 0 .. n : f[j] # g[j]}
  <1> SUFFICES ASSUME T # {} PROVE FALSE
    OBVIOUS
  <1>1. PICK j \in T : \A k \in T : j <= k
    <2>1. T \in SUBSET Nat
      OBVIOUS
    <2> HIDE DEF T
    <2> QED BY <2>1, LeastNatural
  <1>2. j \in 0 .. n /\ f[j] # g[j]
    BY <1>1
  <1>3. j # 0
    BY <1>2 DEF Trace
  <1>4. j - 1 \in 0 .. n - 1 /\ j - 1 \in 0 .. m - 1 /\ (j - 1) + 1 = j
    BY <1>2, <1>3
  <1>5. f[j - 1] = g[j - 1]
    <2>1. j - 1 \notin T
      BY <1>1, <1>2
    <2> QED BY <1>4, <2>1
  <1>6. f[j] = RootsAfter(d, p, j, f[j - 1]) /\ g[j] = RootsAfter(d, p, j, g[j - 1])
    BY <1>4 DEF Trace
  <1> QED BY <1>2, <1>5, <1>6

\* Roots are only added.
LEMMA TraceGrows ==
  ASSUME NEW p \in Params, NEW d \in [Params -> Draws],
         NEW n \in Nat, NEW m \in Nat, n <= m, NEW g, Trace(d, p, m, g),
         NEW k \in DOMAIN g[n]
  PROVE  k \in DOMAIN g[m] /\ g[m][k] = g[n][k]
  <1> DEFINE T == {j \in n .. m : ~ (k \in DOMAIN g[j] /\ g[j][k] = g[n][k])}
  <1> SUFFICES ASSUME T # {} PROVE FALSE
    OBVIOUS
  <1>1. PICK j \in T : \A h \in T : j <= h
    <2>1. T \in SUBSET Nat
      OBVIOUS
    <2> HIDE DEF T
    <2> QED BY <2>1, LeastNatural
  <1>2. j \in n .. m /\ ~ (k \in DOMAIN g[j] /\ g[j][k] = g[n][k])
    BY <1>1
  <1>3. j # n
    BY <1>2
  <1>4. j - 1 \in n .. m /\ j - 1 \in 0 .. m - 1 /\ (j - 1) + 1 = j /\ j \in Nat \ {0}
    BY <1>2, <1>3
  <1>5. k \in DOMAIN g[j - 1] /\ g[j - 1][k] = g[n][k]
    <2>1. j - 1 \notin T
      BY <1>1, <1>2
    <2> QED BY <1>4, <2>1
  <1>6. g[j] = RootsAfter(d, p, j, g[j - 1]) /\ g[j - 1] \in Seq(Vertex)
    <2>1. g[(j - 1) + 1] = RootsAfter(d, p, (j - 1) + 1, g[j - 1])
      BY <1>4 DEF Trace
    <2>2. g[j - 1] \in Seq(Vertex)
      BY <1>4 DEF Trace
    <2> QED BY <1>4, <2>1, <2>2
  <1>7. Drawn(d, p, j) \in Vertex
    <2>1. d[p] \in Seq(Vertex) /\ d[p] # <<>>
      OBVIOUS
    <2>2. ((j - 1) % Len(d[p])) + 1 \in 1 .. Len(d[p])
      BY <1>4, <2>1
    <2> QED BY <2>1, <2>2 DEF Drawn
  <1>8. k \in DOMAIN g[j] /\ g[j][k] = g[j - 1][k]
    BY <1>5, <1>6, <1>7 DEF RootsAfter
  <1> QED BY <1>2, <1>5, <1>8

LEMMA OneRoot ==
  ASSUME NEW p \in Params, NEW d \in [Params -> Draws], NEW k, NEW v, NEW w,
         RootAt(d, p, k, v), RootAt(d, p, k, w)
  PROVE  v = w
  <1>1. PICK n \in Nat : \E f : Trace(d, p, n, f) /\ k \in DOMAIN f[n] /\ f[n][k] = v
    BY DEF RootAt
  <1>2. PICK f : Trace(d, p, n, f) /\ k \in DOMAIN f[n] /\ f[n][k] = v
    BY <1>1
  <1>3. PICK m \in Nat : \E g : Trace(d, p, m, g) /\ k \in DOMAIN g[m] /\ g[m][k] = w
    BY DEF RootAt
  <1>4. PICK g : Trace(d, p, m, g) /\ k \in DOMAIN g[m] /\ g[m][k] = w
    BY <1>3
  <1>5. CASE n <= m
    <2>1. f[n] = g[n]
      BY <1>2, <1>4, <1>5, SameTrace
    <2> QED BY <1>2, <1>4, <1>5, <2>1, TraceGrows
  <1>6. CASE m <= n
    <2>1. f[m] = g[m]
      BY <1>2, <1>4, <1>6, SameTrace
    <2> QED BY <1>2, <1>4, <1>6, <2>1, TraceGrows
  <1> QED BY <1>5, <1>6
-----------------------------------------------------------------------------
(* What a process and the file hold *)

Logs == [params : Params \cup {NoParams}, runs : Seq(Result)]

\* A result of a valid search from the root of index k.
GoodRun(d, p, k, run) ==
  /\ run \in Result /\ run.params = p /\ run.valid
  /\ (\E h \in DOMAIN d[p] : d[p][h] \in Boundary) \/ RootAt(d, p, k + 1, run.root)
GoodLog(d, l) ==
  /\ l \in Logs /\ Len(l.runs) <= NumRoots
  /\ \A k \in DOMAIN l.runs : GoodRun(d, l.params, k - 1, l.runs[k])

TypesOK ==
  /\ draws \in [Params -> Draws]
  /\ pc \in {"off", "read", "draw", "run", "log", "write", "print"}
  /\ pc # "off" => params \in Params
  /\ logging \in BOOLEAN /\ ok \in BOOLEAN
  /\ times \in [Index -> Result \cup {Unset}]
  /\ roots \in Seq(Vertex) /\ drawn \in Nat
  /\ rootStart \in Nat /\ i \in Nat

FilesOK == GoodLog(draws, log)
           /\ (file = <<>> \/ \E l \in Logs : file = <<l>> /\ GoodLog(draws, l))

RootsOK ==
  /\ pc = "read" => roots = <<>> /\ drawn = 0
  /\ pc \notin {"off", "read"} /\ ~ BoundaryDrawn(params) =>
       \E f : Trace(draws, params, drawn, f) /\ f[drawn] = roots
  /\ pc \in {"run", "log", "write", "print"} => Len(roots) = NumRoots

\* Results of the roots before n are there.
Have(n) == \A k \in Index : k < n => GoodRun(draws, params, k, times[k])

TimesOK ==
  /\ pc = "read" => rootStart = 0
  /\ pc = "draw" => rootStart <= NumRoots /\ Have(rootStart)
  /\ pc = "run" => i <= NumRoots /\ Have(i)
  /\ pc \in {"log", "write"} => i < NumRoots /\ Have(i + 1)
  /\ pc = "print" /\ ok => Have(NumRoots)

LogOK ==
  /\ pc = "draw" => IF logging /\ file # <<>>
                    THEN file = <<log>> /\ log.params = params /\ Len(log.runs) = rootStart
                    ELSE rootStart = 0
  /\ pc \in {"run", "log"} /\ logging =>
       /\ Len(log.runs) = i /\ log.params = params
       /\ file = <<>> \/ file = <<ZeroLog>>
            \/ (file[1].params = params /\ IsPrefix(file[1].runs, log.runs))
  /\ pc = "write" => logging /\ Len(log.runs) = i + 1 /\ log.params = params

DriverInv == TypesOK /\ FilesOK /\ RootsOK /\ TimesOK /\ LogOK

LEMMA ZeroLogGood ==
  ASSUME NEW d
  PROVE  GoodLog(d, ZeroLog)
  BY DEF GoodLog, ZeroLog, Logs

LEMMA CandidateType ==
  ASSUME NEW d \in [Params -> Draws], NEW p \in Params, NEW k \in Nat \ {0}
  PROVE  Drawn(d, p, k) \in Vertex /\ \E h \in DOMAIN d[p] : Drawn(d, p, k) = d[p][h]
  <1>1. d[p] \in Seq(Vertex) /\ d[p] # <<>>
    OBVIOUS
  <1>2. ((k - 1) % Len(d[p])) + 1 \in 1 .. Len(d[p])
    BY <1>1
  <1> QED BY <1>1, <1>2 DEF Drawn

\* A process that has ended.
LEMMA EndInv ==
  ASSUME DriverInv, End, UNCHANGED <<draws, file>>
  PROVE  DriverInv'
  <1>1. /\ pc' = "off" /\ logging' = FALSE /\ log' = ZeroLog
        /\ times' = [k \in Index |-> Unset]
        /\ rootStart' = 0 /\ roots' = <<>> /\ drawn' = 0 /\ i' = 0 /\ ok' = TRUE
        /\ UNCHANGED <<draws, file>>
    BY DEF End, Blank
  <1>2. TypesOK'
    <2>1. times' \in [Index -> Result \cup {Unset}]
      BY <1>1
    <2>2. roots' \in Seq(Vertex)
      BY <1>1
    <2> QED BY <1>1, <2>1, <2>2 DEF DriverInv, TypesOK
  <1>3. FilesOK'
    BY <1>1, ZeroLogGood DEF DriverInv, FilesOK
  <1>4. RootsOK'
    BY <1>1 DEF RootsOK
  <1>5. TimesOK'
    BY <1>1 DEF TimesOK
  <1>6. LogOK'
    BY <1>1 DEF LogOK
  <1> QED BY <1>2, <1>3, <1>4, <1>5, <1>6 DEF DriverInv

\* A process that starts.
LEMMA StartInv ==
  ASSUME DriverInv, NEW p \in Params, NEW l \in BOOLEAN, Start(p, l)
  PROVE  DriverInv'
  <1>1. /\ pc' = "read" /\ params' = p /\ logging' = l /\ log' = ZeroLog
        /\ times' = [k \in Index |-> Unset]
        /\ rootStart' = 0 /\ roots' = <<>> /\ drawn' = 0 /\ i' = 0 /\ ok' = TRUE
        /\ UNCHANGED <<draws, file>>
    BY DEF Start, Blank
  <1>2. TypesOK'
    <2>1. times' \in [Index -> Result \cup {Unset}]
      BY <1>1
    <2>2. roots' \in Seq(Vertex)
      BY <1>1
    <2> QED BY <1>1, <2>1, <2>2 DEF DriverInv, TypesOK
  <1>3. FilesOK'
    BY <1>1, ZeroLogGood DEF DriverInv, FilesOK
  <1>4. RootsOK'
    BY <1>1 DEF RootsOK
  <1>5. TimesOK'
    BY <1>1 DEF TimesOK
  <1>6. LogOK'
    BY <1>1 DEF LogOK
  <1> QED BY <1>2, <1>3, <1>4, <1>5, <1>6 DEF DriverInv

\* The log of a process before this one, if it is one of these parameters, has
\* results of its first roots.
LEMMA ReadInv ==
  ASSUME DriverInv, ReadLog
  PROVE  DriverInv'
  <1> USE DEF DriverInv
  <1>1. CASE End
    BY <1>1, EndInv DEF ReadLog
  <1>2. ASSUME pc' = "draw", roots' = roots, drawn' = drawn, params' = params,
               draws' = draws, pc = "read"
        PROVE  RootsOK'
    <2> DEFINE f == [m \in 0 .. 0 |-> <<>>]
    <2>1. roots' = <<>> /\ drawn' = 0
      BY <1>2 DEF RootsOK
    <2>2. Trace(draws, params, 0, f) /\ f[0] = <<>>
      <3>1. <<>> \in Seq(Vertex) /\ 0 .. 0 - 1 = {} /\ 0 \in 0 .. 0
        OBVIOUS
      <3> QED BY <3>1 DEF Trace
    <2>3. \E g : Trace(draws, params, drawn, g)' /\ g[drawn'] = roots'
      BY <1>2, <2>1, <2>2
    <2> QED BY <1>2, <2>3 DEF RootsOK
  <1>3. CASE pc' = "draw" /\ ~ (logging /\ file # <<>>) /\ UNCHANGED process
    <2>1. pc = "read" /\ UNCHANGED <<draws, file, process>>
      BY <1>3 DEF ReadLog
    <2> USE <1>3, <2>1 DEF process
    <2>2. TypesOK'
      BY DEF TypesOK
    <2>3. FilesOK'
      BY DEF FilesOK
    <2>4. RootsOK'
      BY <1>2
    <2>5. TimesOK'
      BY DEF TimesOK, TypesOK, Have, Index
    <2>6. LogOK'
      BY DEF LogOK, TimesOK
    <2> QED BY <2>2, <2>3, <2>4, <2>5, <2>6
  <1>4. CASE /\ logging /\ file # <<>> /\ OfThisRun
             /\ log' = file[1]
             /\ rootStart' = Len(file[1].runs)
             /\ times' = [k \in Index |-> IF k < Len(file[1].runs)
                                          THEN file[1].runs[k + 1] ELSE times[k]]
             /\ pc' = "draw"
             /\ UNCHANGED <<params, logging, roots, drawn, i, ok>>
    <2>1. pc = "read" /\ UNCHANGED <<draws, file>>
      BY DEF ReadLog
    <2>2. PICK l \in Logs : file = <<l>> /\ GoodLog(draws, l)
      BY <1>4 DEF FilesOK
    <2>3. file[1] = l /\ l.params = params /\ l.runs \in Seq(Result) /\ Len(l.runs) <= NumRoots
      BY <1>4, <2>2 DEF OfThisRun, GoodLog, Logs
    <2>4. \A k \in Index : k < Len(l.runs) =>
            l.runs[k + 1] \in Result /\ GoodRun(draws, params, k, l.runs[k + 1])
      <3> TAKE k \in Index
      <3> HAVE k < Len(l.runs)
      <3>1. k + 1 \in DOMAIN l.runs /\ (k + 1) - 1 = k
        BY <2>3 DEF Index
      <3> QED BY <2>2, <2>3, <3>1 DEF GoodLog
    <2>5. times' = [k \in Index |-> IF k < Len(l.runs) THEN l.runs[k + 1] ELSE times[k]]
      BY <1>4, <2>3
    <2>6. TypesOK'
      <3>1. times' \in [Index -> Result \cup {Unset}]
        BY <2>4, <2>5 DEF TypesOK
      <3>2. rootStart' \in Nat
        BY <1>4, <2>3
      <3> QED BY <1>4, <2>1, <3>1, <3>2 DEF TypesOK
    <2>7. FilesOK'
      BY <1>4, <2>1, <2>2, <2>3 DEF FilesOK
    <2>8. RootsOK'
      BY <1>4, <1>2, <2>1
    <2>9. TimesOK'
      <3>1. Have(rootStart)'
        BY <1>4, <2>1, <2>3, <2>4, <2>5 DEF Have
      <3> QED BY <1>4, <2>3, <3>1 DEF TimesOK
    <2>10. LogOK'
      BY <1>4, <2>1, <2>2, <2>3 DEF LogOK
    <2> QED BY <2>6, <2>7, <2>8, <2>9, <2>10
  <1> QED BY <1>1, <1>3, <1>4 DEF ReadLog

\* One candidate more.
LEMMA DrawInv ==
  ASSUME DriverInv, DrawRoot
  PROVE  DriverInv'
  <1> USE DEF DriverInv
  <1>1. /\ pc = "draw" /\ drawn' = drawn + 1
        /\ UNCHANGED <<draws, file, pc, params, logging, log, times, rootStart, i, ok>>
    BY DEF DrawRoot, Advance
  <1> DEFINE v == Candidate(drawn + 1)
  <1>2. v = Drawn(draws, params, drawn + 1)
    BY DEF Candidate, Drawn
  <1>3. v \in Vertex /\ \E h \in DOMAIN draws[params] : v = draws[params][h]
    BY <1>1, <1>2, CandidateType DEF TypesOK
  <1>4. roots' \in Seq(Vertex)
    BY <1>3 DEF DrawRoot, TypesOK
  <1>5. TypesOK'
    BY <1>1, <1>4 DEF TypesOK
  <1>6. FilesOK'
    BY <1>1 DEF FilesOK
  <1>7. RootsOK'
    <2> SUFFICES ASSUME ~ BoundaryDrawn(params)
                 PROVE  \E g : Trace(draws, params, drawn + 1, g) /\ g[drawn + 1] = roots'
      BY <1>1 DEF RootsOK, BoundaryDrawn
    <2>1. v \notin Boundary
      BY <1>3 DEF BoundaryDrawn
    <2>2. roots' = RootsAfter(draws, params, drawn + 1, roots)
      BY <1>2, <2>1 DEF DrawRoot, HasEdge, IsDuplicate, RootsAfter
    <2>3. PICK f : Trace(draws, params, drawn, f) /\ f[drawn] = roots
      BY <1>1 DEF RootsOK
    <2> DEFINE g == [m \in 0 .. drawn + 1 |-> IF m <= drawn THEN f[m] ELSE roots']
    <2>4. drawn \in Nat
      BY DEF TypesOK
    <2>5. g \in [0 .. drawn + 1 -> Seq(Vertex)]
      BY <1>4, <2>3, <2>4 DEF Trace
    <2>6. g[0] = <<>> /\ g[drawn + 1] = roots'
      BY <2>3, <2>4 DEF Trace
    <2>7. ASSUME NEW m \in 0 .. (drawn + 1) - 1
          PROVE  g[m + 1] = RootsAfter(draws, params, m + 1, g[m])
      <3>1. g[m] = f[m]
        BY <2>4
      <3>2. CASE m = drawn
        <4>1. g[m + 1] = roots'
          BY <2>4, <3>2
        <4> QED BY <2>2, <2>3, <3>1, <3>2, <4>1
      <3>3. CASE m # drawn
        <4>1. m \in 0 .. drawn - 1 /\ g[m + 1] = f[m + 1]
          BY <2>4, <3>3
        <4> HIDE DEF g
        <4> QED BY <2>3, <3>1, <4>1 DEF Trace
      <3> QED BY <3>2, <3>3
    <2>8. Trace(draws, params, drawn + 1, g)
      <3> HIDE DEF g
      <3> QED BY <2>5, <2>6, <2>7 DEF Trace
    <2> QED BY <2>6, <2>8
  <1>8. TimesOK'
    BY <1>1 DEF TimesOK, Have
  <1>9. LogOK'
    BY <1>1 DEF LogOK
  <1> QED BY <1>5, <1>6, <1>7, <1>8, <1>9

\* The log of the process starts, or goes on with what was read.
LEMMA BeginInv ==
  ASSUME DriverInv, BeginRuns
  PROVE  DriverInv'
  <1> USE DEF DriverInv
  <1>1. /\ pc = "draw" /\ Len(roots) = NumRoots /\ pc' = "run" /\ i' = rootStart
        /\ log' = IF rootStart = 0 THEN [params |-> params, runs |-> <<>>] ELSE log
        /\ UNCHANGED <<draws, file, params, logging, times, rootStart, roots, drawn, ok>>
    BY DEF BeginRuns, FirstLog, FirstRoot
  <1>2. TypesOK'
    BY <1>1 DEF TypesOK
  <1>3. GoodLog(draws, log')
    <2>1. CASE rootStart = 0
      BY <1>1, <2>1 DEF GoodLog, Logs, TypesOK
    <2>2. CASE rootStart # 0
      BY <1>1, <2>2 DEF FilesOK
    <2> QED BY <2>1, <2>2
  <1>4. FilesOK'
    BY <1>1, <1>3 DEF FilesOK
  <1>5. RootsOK'
    BY <1>1 DEF RootsOK, BoundaryDrawn
  <1>6. TimesOK'
    BY <1>1 DEF TimesOK, Have
  <1>7. LogOK'
    <2> SUFFICES ASSUME logging
                 PROVE  /\ Len(log'.runs) = rootStart /\ log'.params = params
                        /\ file = <<>> \/ file = <<ZeroLog>>
                             \/ (file[1].params = params /\ IsPrefix(file[1].runs, log'.runs))
      BY <1>1 DEF LogOK
    <2>1. CASE file = <<>>
      BY <1>1, <2>1 DEF LogOK
    <2>2. CASE file # <<>>
      <3>1. file = <<log>> /\ log.params = params /\ Len(log.runs) = rootStart
        BY <1>1, <2>2 DEF LogOK
      <3>2. log.runs \in Seq(Result)
        BY DEF FilesOK, GoodLog, Logs
      <3>3. CASE rootStart = 0
        <4>1. log.runs = <<>>
          BY <3>1, <3>2, <3>3
        <4>2. log'.runs = <<>> /\ log'.params = params
          BY <1>1, <3>3
        <4> QED BY <3>1, <3>3, <4>1, <4>2 DEF IsPrefix
      <3>4. CASE rootStart # 0
        <4>1. log' = log
          BY <1>1, <3>4
        <4>2. IsPrefix(log.runs, log.runs)
          BY <3>2 DEF IsPrefix
        <4> QED BY <3>1, <4>1, <4>2
      <3> QED BY <3>3, <3>4
    <2> QED BY <2>1, <2>2
  <1> QED BY <1>2, <1>4, <1>5, <1>6, <1>7

\* A root is searched and its result is validated.
LEMMA RunInv ==
  ASSUME DriverInv, RunRoot
  PROVE  DriverInv'
  <1> USE DEF DriverInv
  <1>1. PICK valid \in BOOLEAN :
           /\ times' = [times EXCEPT ![i] = [params |-> params, root |-> roots[i + 1],
                                             valid |-> valid]]
           /\ ok' = valid
           /\ pc' = IF valid THEN "log" ELSE "print"
    BY DEF RunRoot
  <1>2. /\ pc = "run" /\ i < NumRoots
        /\ UNCHANGED <<draws, file, params, logging, log, rootStart, roots, drawn, i>>
    BY DEF RunRoot
  <1>3. i \in Index /\ Len(roots) = NumRoots /\ roots \in Seq(Vertex)
        /\ i + 1 \in DOMAIN roots /\ params \in Params
    BY <1>2 DEF TypesOK, RootsOK, Index
  <1> DEFINE run == [params |-> params, root |-> roots[i + 1], valid |-> valid]
  <1>4. run \in Result
    BY <1>3 DEF Result
  <1>5. times \in [Index -> Result \cup {Unset}]
    BY DEF TypesOK
  <1>6. TypesOK'
    <2>1. times' \in [Index -> Result \cup {Unset}]
      BY <1>1, <1>3, <1>4, <1>5
    <2> QED BY <1>1, <1>2, <2>1 DEF TypesOK
  <1>7. FilesOK'
    BY <1>2 DEF FilesOK
  <1>8. RootsOK'
    BY <1>1, <1>2 DEF RootsOK, BoundaryDrawn
  <1>9. valid => GoodRun(draws, params, i, run)
    <2>1. ~ BoundaryDrawn(params) => RootAt(draws, params, i + 1, roots[i + 1])
      <3> HAVE ~ BoundaryDrawn(params)
      <3>1. PICK f : Trace(draws, params, drawn, f) /\ f[drawn] = roots
        BY <1>2 DEF RootsOK
      <3>2. drawn \in Nat /\ f \in [0 .. drawn -> Seq(Vertex)]
        BY <3>1 DEF TypesOK, Trace
      <3> QED BY <1>3, <3>1, <3>2 DEF RootAt
    <2> QED BY <1>4, <2>1 DEF GoodRun, BoundaryDrawn
  <1>10. TimesOK'
    <2>1. valid => Have(i + 1)'
      <3> HAVE valid
      <3> SUFFICES ASSUME NEW k \in Index, k < i + 1
                   PROVE  GoodRun(draws, params, k, times'[k])
        BY <1>2 DEF Have
      <3>1. CASE k = i
        <4>1. times'[k] = run
          BY <1>1, <1>3, <1>5, <3>1
        <4> QED BY <1>9, <3>1, <4>1
      <3>2. CASE k # i
        <4>1. times'[k] = times[k] /\ k < i
          BY <1>1, <1>3, <1>5, <3>2 DEF Index
        <4> QED BY <1>2, <4>1 DEF TimesOK, Have
      <3> QED BY <3>1, <3>2
    <2>2. valid => TimesOK'
      BY <1>1, <1>2, <2>1 DEF TimesOK
    <2>3. ~ valid => TimesOK'
      BY <1>1, <1>2 DEF TimesOK
    <2> QED BY <2>2, <2>3
  <1>11. LogOK'
    BY <1>1, <1>2 DEF LogOK
  <1> QED BY <1>6, <1>7, <1>8, <1>10, <1>11

LEMMA EndRunsInv ==
  ASSUME DriverInv, EndRuns
  PROVE  DriverInv'
  <1> USE DEF DriverInv
  <1>1. /\ pc = "run" /\ i = NumRoots /\ pc' = "print"
        /\ UNCHANGED <<draws, file, params, logging, log, times, rootStart, roots, drawn, i, ok>>
    BY DEF EndRuns, process
  <1>2. TypesOK'
    BY <1>1 DEF TypesOK
  <1>3. FilesOK'
    BY <1>1 DEF FilesOK
  <1>4. RootsOK'
    BY <1>1 DEF RootsOK, BoundaryDrawn
  <1>5. TimesOK'
    BY <1>1 DEF TimesOK, Have
  <1>6. LogOK'
    BY <1>1 DEF LogOK
  <1> QED BY <1>2, <1>3, <1>4, <1>5, <1>6

\* The result is in the log of the process; the file is truncated, or stays
\* behind for good.
LEMMA UpdateInv ==
  ASSUME DriverInv, UpdateLog
  PROVE  DriverInv'
  <1> USE DEF DriverInv
  <1>1. /\ pc = "log"
        /\ UNCHANGED <<draws, params, logging, times, rootStart, roots, drawn, ok>>
    BY DEF UpdateLog
  <1>2. i \in Index /\ i < NumRoots /\ Have(i + 1)
    BY <1>1 DEF TimesOK, TypesOK, Index
  <1>3. CASE ~ logging
    <2>1. pc' = "run" /\ i' = i + 1 /\ UNCHANGED <<log, file>>
      BY <1>3 DEF UpdateLog
    <2> USE <1>1, <1>2, <1>3, <2>1
    <2>2. TypesOK'
      BY DEF TypesOK
    <2>3. FilesOK'
      BY DEF FilesOK
    <2>4. RootsOK'
      BY DEF RootsOK, BoundaryDrawn
    <2>5. TimesOK'
      BY DEF TimesOK, Have, TypesOK
    <2>6. LogOK'
      BY DEF LogOK
    <2> QED BY <2>2, <2>3, <2>4, <2>5, <2>6
  <1>4. CASE logging
    <2>1. /\ log' = [log EXCEPT !.runs = Append(@, times[i])]
          /\ \/ file' = <<ZeroLog>> /\ pc' = "write" /\ i' = i
             \/ pc' = "run" /\ i' = i + 1 /\ file' = file
      BY <1>4 DEF UpdateLog
    <2>2. log \in Logs /\ log.runs \in Seq(Result) /\ GoodLog(draws, log)
      BY DEF FilesOK, GoodLog, Logs
    <2>3. Len(log.runs) = i /\ log.params = params
          /\ (file = <<>> \/ file = <<ZeroLog>>
               \/ (file[1].params = params /\ IsPrefix(file[1].runs, log.runs)))
      BY <1>1, <1>4 DEF LogOK
    <2>4. GoodRun(draws, params, i, times[i]) /\ times[i] \in Result
      BY <1>2 DEF Have, TypesOK, GoodRun
    <2>5. log'.runs = Append(log.runs, times[i]) /\ log'.params = params /\ log' \in Logs
      <3> DEFINE rs == Append(log.runs, times[i])
      <3>1. log = [params |-> log.params, runs |-> log.runs]
            /\ log.params \in Params \cup {NoParams}
        BY <2>2 DEF Logs
      <3>2. rs \in Seq(Result)
        BY <2>2, <2>4
      <3>3. log' = [log EXCEPT !.runs = rs]
        BY <2>1
      <3> HIDE DEF rs
      <3>4. log' = [params |-> log.params, runs |-> rs]
        BY <3>1, <3>3
      <3> QED BY <2>3, <3>1, <3>2, <3>4 DEF Logs, rs
    <2>6. Len(log'.runs) = i + 1 /\ log'.runs \in Seq(Result)
      BY <2>2, <2>3, <2>4, <2>5
    <2>7. GoodLog(draws, log')
      <3> SUFFICES ASSUME NEW k \in DOMAIN log'.runs
                   PROVE  GoodRun(draws, params, k - 1, log'.runs[k])
        BY <1>2, <2>5, <2>6 DEF GoodLog, Index
      <3>1. CASE k = i + 1
        <4>1. log'.runs[k] = times[i] /\ k - 1 = i
          BY <1>2, <2>2, <2>3, <2>5, <3>1 DEF Index
        <4> QED BY <2>4, <4>1
      <3>2. CASE k # i + 1
        <4>1. k \in DOMAIN log.runs /\ log'.runs[k] = log.runs[k]
          BY <1>2, <2>2, <2>3, <2>4, <2>5, <2>6, <3>2
        <4> QED BY <2>2, <2>3, <4>1 DEF GoodLog
      <3> QED BY <3>1, <3>2
    <2>8. TypesOK'
      BY <1>1, <2>1 DEF TypesOK
    <2>9. FilesOK'
      <3>1. ZeroLog \in Logs
        BY DEF ZeroLog, Logs
      <3> QED BY <1>1, <2>1, <2>7, <3>1, ZeroLogGood DEF FilesOK
    <2>10. RootsOK'
      BY <1>1, <2>1 DEF RootsOK, BoundaryDrawn
    <2>11. TimesOK'
      BY <1>1, <1>2, <2>1 DEF TimesOK, Have, TypesOK
    <2>12. LogOK'
      <3>1. CASE pc' = "write"
        BY <1>4, <1>1, <2>1, <2>5, <2>6, <3>1 DEF LogOK
      <3>2. CASE pc' = "run" /\ i' = i + 1 /\ file' = file
        <4>1. ASSUME file[1].params = params, IsPrefix(file[1].runs, log.runs), file # <<>>
              PROVE  IsPrefix(file[1].runs, log'.runs)
          <5>1. PICK l \in Logs : file = <<l>>
            BY <4>1 DEF FilesOK
          <5>2. file[1].runs \in Seq(Result)
            BY <5>1 DEF Logs
          <5> DEFINE s == file[1].runs
          <5>3. Len(s) <= Len(log.runs) /\ SubSeq(s, 1, Len(s)) = SubSeq(log.runs, 1, Len(s))
            BY <4>1 DEF IsPrefix
          <5>4. SubSeq(log'.runs, 1, Len(s)) = SubSeq(log.runs, 1, Len(s))
            <6> HIDE DEF s
            <6> QED BY <2>2, <2>4, <2>5, <5>2, <5>3
          <5> QED BY <2>2, <2>3, <2>6, <5>2, <5>3, <5>4 DEF IsPrefix
        <4> QED BY <1>1, <1>4, <2>3, <2>5, <2>6, <3>2, <4>1 DEF LogOK
      <3> QED BY <2>1, <3>1, <3>2
    <2> QED BY <2>8, <2>9, <2>10, <2>11, <2>12
  <1> QED BY <1>3, <1>4

LEMMA WriteInv ==
  ASSUME DriverInv, WriteLog
  PROVE  DriverInv'
  <1> USE DEF DriverInv
  <1>1. /\ pc = "write" /\ file' = <<log>> /\ i' = i + 1 /\ pc' = "run"
        /\ UNCHANGED <<draws, params, logging, log, times, rootStart, roots, drawn, ok>>
    BY DEF WriteLog
  <1>2. TypesOK'
    BY <1>1 DEF TypesOK
  <1>3. FilesOK'
    BY <1>1 DEF FilesOK, GoodLog
  <1>4. RootsOK'
    BY <1>1 DEF RootsOK, BoundaryDrawn
  <1>5. TimesOK'
    BY <1>1 DEF TimesOK, Have, TypesOK
  <1>6. LogOK'
    <2>1. log.runs \in Seq(Result) /\ Len(log.runs) = i + 1 /\ log.params = params
      BY <1>1 DEF FilesOK, GoodLog, Logs, LogOK
    <2>2. IsPrefix(log.runs, log.runs)
      BY <2>1 DEF IsPrefix
    <2> QED BY <1>1, <2>1, <2>2 DEF LogOK
  <1> QED BY <1>2, <1>3, <1>4, <1>5, <1>6
-----------------------------------------------------------------------------
(* Theorems *)

\* Logs and results belong to the parameters and to the roots, at any time.
THEOREM Invariance == Spec => []DriverInv
  <1>1. Init => DriverInv
    <2> SUFFICES ASSUME Init PROVE DriverInv
      OBVIOUS
    <2> USE DEF Init
    <2>1. TypesOK
      <3>1. times \in [Index -> Result \cup {Unset}] /\ roots \in Seq(Vertex)
        OBVIOUS
      <3> QED BY <3>1 DEF TypesOK
    <2>2. FilesOK
      BY ZeroLogGood DEF FilesOK
    <2>3. RootsOK /\ TimesOK /\ LogOK
      BY DEF RootsOK, TimesOK, LogOK
    <2> QED BY <2>1, <2>2, <2>3 DEF DriverInv
  <1>2. DriverInv /\ [Next]_vars => DriverInv'
    <2> SUFFICES ASSUME DriverInv, [Next]_vars PROVE DriverInv'
      OBVIOUS
    <2>1. CASE Kill
      BY <2>1, EndInv DEF Kill
    <2>2. CASE ReadLog
      BY <2>2, ReadInv
    <2>3. CASE DrawRoot
      BY <2>3, DrawInv
    <2>4. CASE BeginRuns
      BY <2>4, BeginInv
    <2>5. CASE RunRoot
      BY <2>5, RunInv
    <2>6. CASE EndRuns
      BY <2>6, EndRunsInv
    <2>7. CASE UpdateLog
      BY <2>7, UpdateInv
    <2>8. CASE WriteLog
      BY <2>8, WriteInv
    <2>9. CASE PrintResult
      BY <2>9, EndInv DEF PrintResult
    <2>10. CASE \E p \in Params, l \in BOOLEAN : Start(p, l)
      BY <2>10, StartInv
    <2>11. CASE UNCHANGED vars
      BY <2>11 DEF vars, process, DriverInv, TypesOK, FilesOK, RootsOK, TimesOK, LogOK,
                   Have, BoundaryDrawn
    <2> QED BY <2>1, <2>2, <2>3, <2>4, <2>5, <2>6, <2>7, <2>8, <2>9, <2>10, <2>11
            DEF Next, Work
  <1> QED BY <1>1, <1>2, PTL DEF Spec

\* update_log_file writes the entry of the root that was run, in every process:
\* the log and the loop of main agree, and the file is never ahead.
THEOREM LogFollowsLoop == Spec => []LogInStep
  <1>1. DriverInv => LogInStep
    <2> SUFFICES ASSUME DriverInv, pc \in {"run", "log"}, logging
                 PROVE  /\ Len(log.runs) = i
                        /\ log.params = params
                        /\ file = <<>> \/ file[1] = ZeroLog
                             \/ (file[1].params = params /\ IsPrefix(file[1].runs, log.runs))
      BY DEF LogInStep
    <2> QED BY DEF DriverInv, LogOK
  <1> QED BY <1>1, Invariance, PTL

\* What print_bfs_result prints was searched and validated with the parameters
\* of the process, entry by entry from the roots it has itself drawn, although
\* some of it may come from the log of an earlier process.
THEOREM PrintedIsReal == Spec => []PrintedResults
  <1>1. DriverInv => PrintedResults
    <2> SUFFICES ASSUME DriverInv, pc = "print", ok, NEW k \in Index
                 PROVE  /\ times[k].params = params /\ times[k].valid
                        /\ BoundaryDrawn(params) \/ times[k].root = roots[k + 1]
      BY DEF PrintedResults
    <2>1. GoodRun(draws, params, k, times[k])
      BY DEF DriverInv, TimesOK, Have, Index
    <2>2. ASSUME ~ BoundaryDrawn(params)
          PROVE  times[k].root = roots[k + 1]
      <3>1. RootAt(draws, params, k + 1, times[k].root)
        BY <2>1, <2>2 DEF GoodRun, BoundaryDrawn
      <3>2. PICK f : Trace(draws, params, drawn, f) /\ f[drawn] = roots
        BY <2>2 DEF DriverInv, RootsOK
      <3>3. drawn \in Nat /\ f \in [0 .. drawn -> Seq(Vertex)] /\ k + 1 \in DOMAIN roots
            /\ params \in Params /\ draws \in [Params -> Draws]
        BY <3>2 DEF DriverInv, TypesOK, RootsOK, Trace, Index
      <3>4. RootAt(draws, params, k + 1, roots[k + 1])
        BY <3>2, <3>3 DEF RootAt
      <3> QED BY <3>1, <3>3, <3>4, OneRoot
    <2> QED BY <2>1, <2>2 DEF GoodRun
  <1> QED BY <1>1, Invariance, PTL

\* find_roots gives distinct roots that have an edge, while the random numbers
\* suffice, in every process.
THEOREM RootsAreChosen == Spec => []RootsChosen
  <1>1. Init => RootsChosen
    BY DEF Init, RootsChosen
  <1>2. DriverInv /\ RootsChosen /\ [Next]_vars => RootsChosen'
    <2> SUFFICES ASSUME DriverInv, RootsChosen, [Next]_vars,
                        pc' \notin {"off", "read"}, ~ Exhausted(drawn')
                 PROVE  IsInjective(roots') /\ ToSet(roots') \subseteq EdgeVertex \cup Boundary
      BY DEF RootsChosen, Exhausted
    <2>1. CASE DrawRoot
      <3> DEFINE v == Candidate(drawn + 1)
      <3>1. drawn' = drawn + 1 /\ drawn \in Nat /\ roots \in Seq(Vertex) /\ pc = "draw"
        BY <2>1 DEF DrawRoot, Advance, DriverInv, TypesOK
      <3>2. ~ Exhausted(drawn) /\ ~ Exhausted(drawn + 1)
        BY <3>1, FS_CardinalityType DEF Exhausted
      <3>3. IsInjective(roots) /\ ToSet(roots) \subseteq EdgeVertex \cup Boundary
        BY <3>1, <3>2 DEF RootsChosen
      <3>4. CASE roots' = roots
        BY <3>3, <3>4
      <3>5. CASE roots' = Append(roots, v) /\ v \notin ToSet(roots)
                 /\ v \in EdgeVertex \cup Boundary
        <4>1. \A k \in DOMAIN roots' : \/ k \in DOMAIN roots /\ roots'[k] = roots[k]
                                       \/ k = Len(roots) + 1 /\ roots'[k] = v
          BY <3>1, <3>5
        <4>2. \A k \in DOMAIN roots : roots[k] \in ToSet(roots)
          BY DEF ToSet
        <4> QED BY <3>3, <3>5, <4>1, <4>2 DEF IsInjective, ToSet
      <3> QED BY <2>1, <3>2, <3>4, <3>5 DEF DrawRoot, HasEdge, IsDuplicate
    <2>2. CASE ReadLog
      <3>1. roots' = <<>>
        BY <2>2 DEF ReadLog, process, DriverInv, RootsOK, End, Blank
      <3> QED BY <3>1 DEF IsInjective, ToSet
    <2>3. CASE Kill \/ PrintResult \/ \E p \in Params, l \in BOOLEAN : Start(p, l)
      BY <2>3 DEF Kill, PrintResult, End, Start
    <2>4. CASE BeginRuns \/ RunRoot \/ EndRuns \/ UpdateLog \/ WriteLog \/ UNCHANGED vars
      <3>1. UNCHANGED <<roots, drawn>> /\ pc \notin {"off", "read"}
        BY <2>4 DEF BeginRuns, RunRoot, EndRuns, UpdateLog, WriteLog, vars, process
      <3> QED BY <3>1 DEF RootsChosen, Exhausted
    <2> QED BY <2>1, <2>2, <2>3, <2>4 DEF Next, Work
  <1> QED BY <1>1, <1>2, Invariance, PTL DEF Spec
=============================================================================
