--------------------------- MODULE RangeBansProofs ---------------------------
(***************************************************************************)
(* Proofs about RangeBans and the functions of PrefixRange it is built on,  *)
(* for addresses of any width.                                              *)
(***************************************************************************)
EXTENDS RangeBans, TLAPS, FiniteSetTheorems, WellFoundedInduction

-----------------------------------------------------------------------------
(* Induction and recursion.                                                *)

\* A set of naturals that is not empty has a least element.
LEMMA LeastNat ==
  ASSUME NEW S, S \subseteq Nat, S # {}
  PROVE  \E n \in S : \A m \in S : n <= m
<1>1. PICK k \in S : TRUE
  OBVIOUS
<1> DEFINE T == { 0 .. m : m \in { x \in S : x <= k } }
<1>2. T \subseteq FiniteSubsetsOf(0 .. k)
  <2>1. IsFiniteSet(0 .. k)
    BY FS_Interval
  <2>2. \A t \in T : t \subseteq 0 .. k
    OBVIOUS
  <2> QED
    BY <2>1, <2>2, FS_Subset DEF FiniteSubsetsOf
<1>3. T # {} /\ k \in Nat
  OBVIOUS
<1>4. PICK t \in T : \A s \in T : ~(<<s, t>> \in StrictSubsetOrdering(0 .. k))
  <2> HIDE DEF T
  <2>1. IsWellFoundedOn(StrictSubsetOrdering(0 .. k), FiniteSubsetsOf(0 .. k))
    BY FS_StrictSubsetOrderingWellFounded
  <2> QED
    BY <1>2, <1>3, <2>1, WFMin
<1>5. PICK n \in S : n <= k /\ t = 0 .. n
  OBVIOUS
<1>6. ASSUME NEW m \in S, m < n PROVE FALSE
  <2>1. m \in Nat /\ n \in Nat /\ m <= k
    BY <1>3, <1>5, <1>6
  <2>2. 0 .. m \in T
    BY <2>1
  <2>3. 0 .. m \subseteq 0 .. n /\ 0 .. n \subseteq 0 .. k /\ 0 .. m \subseteq 0 .. k
    BY <1>3, <1>5, <1>6, <2>1
  <2>4. n \in 0 .. n /\ n \notin 0 .. m
    BY <1>6, <2>1
  <2>5. 0 .. m # 0 .. n
    BY <2>4
  <2>6. <<0 .. m, t>> \in StrictSubsetOrdering(0 .. k)
    <3> HIDE DEF T
    <3> DEFINE u == 0 .. m
               v == 0 .. n
               d == 0 .. k
    <3>1. u \in SUBSET d /\ v \in SUBSET d /\ u \subseteq v /\ u # v /\ t = v
      BY <1>5, <2>3, <2>5
    <3> HIDE DEF u, v, d
    <3>2. <<u, t>> \in StrictSubsetOrdering(d)
      BY <3>1 DEF StrictSubsetOrdering
    <3> QED
      BY <3>2 DEF u, d
  <2> QED
    BY <1>4, <2>2, <2>6
<1>7. \A m \in S : m \in Nat /\ n \in Nat
  OBVIOUS
<1> QED
  BY <1>6, <1>7

\* g is a solution of the recursive equation whose right-hand side is H.
Solves(g, I, H) == \A i \in I : g[i] = H[<<i, g>>]

\* A solution as far as the elements whose rank is below n.
SolvesBelow(g, I, H, rank, n) == \A i \in I : rank[i] < n => g[i] = H[<<i, g>>]

\* Right-hand sides that only look at elements of a smaller rank.
WellFounded(I, A, rank, H) ==
  /\ rank \in [I -> Nat]
  /\ \A i \in I : \A f \in [I -> A] : H[<<i, f>>] \in A
  /\ \A i \in I : \A f, g \in [I -> A] :
       (\A j \in I : rank[j] < rank[i] => f[j] = g[j]) => H[<<i, f>>] = H[<<i, g>>]

\* Two solutions agree as far as they go.
LEMMA SolutionsAgree ==
  ASSUME NEW I, NEW A, NEW rank, NEW H, WellFounded(I, A, rank, H),
         NEW f \in [I -> A], NEW g \in [I -> A], NEW n \in Nat,
         SolvesBelow(f, I, H, rank, n), SolvesBelow(g, I, H, rank, n)
  PROVE  \A i \in I : rank[i] < n => f[i] = g[i]
<1> DEFINE Bad == { k \in Nat : \E i \in I : rank[i] = k /\ rank[i] < n /\ f[i] # g[i] }
<1>1. CASE Bad # {}
  <2>1. PICK k \in Bad : \A m \in Bad : k <= m
    <3>1. Bad \subseteq Nat
      OBVIOUS
    <3> HIDE DEF Bad
    <3> QED
      BY <1>1, <3>1, LeastNat
  <2>2. PICK i \in I : rank[i] = k /\ rank[i] < n /\ f[i] # g[i]
    BY <2>1
  <2>3. ASSUME NEW j \in I, rank[j] < rank[i] PROVE f[j] = g[j]
    <3>1. rank[j] \in Nat /\ rank[i] \in Nat
      BY DEF WellFounded
    <3>2. rank[j] < n /\ ~(k <= rank[j])
      BY <2>2, <2>3, <3>1
    <3> QED
      BY <2>1, <3>1, <3>2
  <2>4. H[<<i, f>>] = H[<<i, g>>]
    BY <2>3 DEF WellFounded
  <2> QED
    BY <2>2, <2>4 DEF SolvesBelow
<1>2. CASE Bad = {}
  BY <1>2 DEF WellFounded
<1> QED
  BY <1>1, <1>2

\* There is a solution as far as any rank.
LEMMA SolutionsExist ==
  ASSUME NEW I, NEW A, A # {}, NEW rank, NEW H, WellFounded(I, A, rank, H), NEW n \in Nat
  PROVE  \E f \in [I -> A] : SolvesBelow(f, I, H, rank, n)
<1> DEFINE Bad == { k \in Nat : ~ \E f \in [I -> A] : SolvesBelow(f, I, H, rank, k) }
<1>1. ASSUME Bad # {} PROVE FALSE
  <2>1. PICK k \in Bad : \A m \in Bad : k <= m
    <3>1. Bad \subseteq Nat
      OBVIOUS
    <3> HIDE DEF Bad
    <3> QED
      BY <1>1, <3>1, LeastNat
  <2>2. k # 0
    <3>1. PICK a \in A : TRUE
      OBVIOUS
    <3>2. SolvesBelow([i \in I |-> a], I, H, rank, 0)
      BY DEF SolvesBelow, WellFounded
    <3>3. [i \in I |-> a] \in [I -> A]
      BY <3>1
    <3> QED
      BY <2>1, <3>2, <3>3
  <2>3. k - 1 \in Nat /\ k - 1 \notin Bad
    BY <2>1, <2>2
  <2>4. PICK f \in [I -> A] : SolvesBelow(f, I, H, rank, k - 1)
    BY <2>3
  <2> DEFINE g == [i \in I |-> IF rank[i] < k - 1 THEN f[i] ELSE H[<<i, f>>]]
  <2>5. g \in [I -> A]
    BY DEF WellFounded
  <2>6. ASSUME NEW i \in I, rank[i] < k PROVE g[i] = H[<<i, g>>]
    <3>1. ASSUME NEW j \in I, rank[j] < rank[i] PROVE f[j] = g[j]
      <4>1. rank[j] \in Nat /\ rank[i] \in Nat /\ k \in Nat
        BY <2>1 DEF WellFounded
      <4>2. rank[j] < k - 1
        BY <2>6, <3>1, <4>1
      <4> QED
        BY <4>2
    <3>2. H[<<i, f>>] = H[<<i, g>>]
      <4> HIDE DEF g
      <4> QED
        BY <2>5, <3>1 DEF WellFounded
    <3>3. g[i] = H[<<i, f>>]
      BY <2>4 DEF SolvesBelow
    <3> QED
      BY <3>2, <3>3
  <2> HIDE DEF g
  <2>7. SolvesBelow(g, I, H, rank, k)
    BY <2>6 DEF SolvesBelow
  <2> QED
    BY <2>1, <2>5, <2>7
<1> QED
  BY <1>1

\* A recursive equation over a rank has a solution.
LEMMA RecursionExists ==
  ASSUME NEW I, NEW A, A # {}, NEW rank, NEW H, WellFounded(I, A, rank, H)
  PROVE  \E g \in [I -> A] : Solves(g, I, H)
<1> DEFINE Part(n) == CHOOSE f \in [I -> A] : SolvesBelow(f, I, H, rank, n)
           g == [i \in I |-> Part(rank[i] + 1)[i]]
<1>1. ASSUME NEW n \in Nat
      PROVE  Part(n) \in [I -> A] /\ SolvesBelow(Part(n), I, H, rank, n)
  BY SolutionsExist
<1> HIDE DEF Part
<1>2. \A i \in I : rank[i] \in Nat /\ rank[i] + 1 \in Nat
  BY DEF WellFounded
<1>3. g \in [I -> A]
  BY <1>1, <1>2
<1>4. ASSUME NEW i \in I PROVE g[i] = H[<<i, g>>]
  <2> DEFINE f == Part(rank[i] + 1)
  <2>1. f \in [I -> A] /\ SolvesBelow(f, I, H, rank, rank[i] + 1)
    BY <1>1, <1>2
  <2>2. ASSUME NEW j \in I, rank[j] < rank[i] PROVE f[j] = g[j]
    <3> DEFINE e == Part(rank[j] + 1)
    <3>1. e \in [I -> A] /\ SolvesBelow(e, I, H, rank, rank[j] + 1)
      BY <1>1, <1>2
    <3>2. g[j] = e[j]
      OBVIOUS
    <3> HIDE DEF e, f
    <3>3. SolvesBelow(f, I, H, rank, rank[j] + 1)
      <4>1. \A x \in I : rank[x] < rank[j] + 1 => rank[x] < rank[i] + 1
        BY <1>2, <2>2
      <4> QED
        BY <2>1, <4>1 DEF SolvesBelow
    <3>4. rank[j] < rank[j] + 1
      BY <1>2
    <3>5. f[j] = e[j]
      BY <1>2, <2>1, <3>1, <3>3, <3>4, SolutionsAgree
    <3> QED
      BY <3>2, <3>5
  <2>3. g[i] = f[i]
    OBVIOUS
  <2> HIDE DEF f, g
  <2>4. H[<<i, f>>] = H[<<i, g>>]
    BY <1>3, <2>1, <2>2 DEF WellFounded
  <2>5. f[i] = H[<<i, f>>]
    BY <1>2, <2>1 DEF SolvesBelow
  <2> QED
    BY <2>3, <2>4, <2>5
<1> HIDE DEF g
<1> QED
  BY <1>3, <1>4 DEF Solves

-----------------------------------------------------------------------------
(* Blocks of addresses.                                                    *)

\* The powers of two satisfy their equation.
LEMMA PowerIs ==
  /\ Power \in [0 .. AddrBits -> Nat]
  /\ \A k \in 0 .. AddrBits : Power[k] = IF k = 0 THEN 1 ELSE 2 * Power[k - 1]
<1> DEFINE I == 0 .. AddrBits
           rank == [i \in I |-> i]
           H == [x \in I \X [I -> Nat] |-> IF x[1] = 0 THEN 1 ELSE 2 * x[2][x[1] - 1]]
<1>1. \A i \in I : \A f \in [I -> Nat] : H[<<i, f>>] = IF i = 0 THEN 1 ELSE 2 * f[i - 1]
  OBVIOUS
<1>2. \A i \in I : i \in Nat /\ rank[i] = i /\ (i # 0 => i - 1 \in I /\ i - 1 < i)
  BY AddressAssumption
<1>3. WellFounded(I, Nat, rank, H)
  <2>1. rank \in [I -> Nat]
    BY <1>2
  <2>2. ASSUME NEW i \in I, NEW f \in [I -> Nat] PROVE H[<<i, f>>] \in Nat
    <3> HIDE DEF H
    <3>1. i # 0 => f[i - 1] \in Nat
      BY <1>2
    <3>2. H[<<i, f>>] = IF i = 0 THEN 1 ELSE 2 * f[i - 1]
      BY <1>1
    <3> QED
      BY <3>1, <3>2
  <2>3. ASSUME NEW i \in I, NEW f \in [I -> Nat], NEW g \in [I -> Nat],
               \A j \in I : rank[j] < rank[i] => f[j] = g[j]
        PROVE  H[<<i, f>>] = H[<<i, g>>]
    <3> HIDE DEF H, rank
    <3>1. i # 0 => f[i - 1] = g[i - 1]
      BY <1>2, <2>3
    <3>2. H[<<i, f>>] = IF i = 0 THEN 1 ELSE 2 * f[i - 1]
      BY <1>1
    <3>3. H[<<i, g>>] = IF i = 0 THEN 1 ELSE 2 * g[i - 1]
      BY <1>1
    <3> QED
      BY <3>1, <3>2, <3>3
  <2> HIDE DEF H, rank
  <2> QED
    BY <2>1, <2>2, <2>3 DEF WellFounded
<1>4. PICK g \in [I -> Nat] : Solves(g, I, H)
  <2> HIDE DEF H, rank
  <2> QED
    BY <1>3, RecursionExists
<1>5. \A i \in I : g[i] = IF i = 0 THEN 1 ELSE 2 * g[i - 1]
  BY <1>1, <1>4 DEF Solves
<1> HIDE DEF H, rank
<1>6. g = [k \in I |-> IF k = 0 THEN 1 ELSE 2 * g[k - 1]]
  BY <1>5
<1>7. Power = [k \in I |-> IF k = 0 THEN 1 ELSE 2 * Power[k - 1]]
  BY <1>6 DEF Power
<1>8. \A i \in I : Power[i] = IF i = 0 THEN 1 ELSE 2 * Power[i - 1]
  BY <1>7
<1>9. DOMAIN Power = I /\ Power = [i \in I |-> Power[i]]
  BY <1>7
<1>10. \A k \in I : Power[k] \in Nat
  <2> DEFINE Bad == { k \in I : Power[k] \notin Nat }
  <2>1. CASE Bad # {}
    <3>1. PICK k \in Bad : \A m \in Bad : k <= m
      <4>1. Bad \subseteq Nat
        BY <1>2
      <4> HIDE DEF Bad
      <4> QED
        BY <2>1, <4>1, LeastNat
    <3>2. k # 0 => k - 1 \in I /\ k - 1 \notin Bad
      BY <1>2, <3>1
    <3>3. k # 0 => Power[k - 1] \in Nat
      BY <3>2
    <3>4. Power[k] = IF k = 0 THEN 1 ELSE 2 * Power[k - 1]
      BY <1>8
    <3> QED
      BY <3>1, <3>3, <3>4
  <2> QED
    BY <2>1
<1> QED
  BY <1>8, <1>9, <1>10

Lens == 0 .. AddrBits

\* A block of one address, and a block is twice as large as that of the next length.
LEMMA BlockSizes ==
  /\ \A len \in Lens : BlockSize(len) \in Nat /\ BlockSize(len) >= 1
  /\ BlockSize(AddrBits) = 1 /\ BlockSize(0) = Top + 1 /\ Top \in Nat
  /\ \A len \in Lens : len # AddrBits =>
       len + 1 \in Lens /\ BlockSize(len) = 2 * BlockSize(len + 1)
<1>1. \A k \in 0 .. AddrBits : k \in Nat /\ AddrBits - k \in 0 .. AddrBits
  BY AddressAssumption
<1>2. ASSUME NEW k \in 0 .. AddrBits PROVE Power[k] >= 1
  <2> DEFINE Bad == { j \in 0 .. AddrBits : ~(Power[j] >= 1) }
  <2>1. CASE Bad # {}
    <3>1. PICK j \in Bad : \A m \in Bad : j <= m
      <4>1. Bad \subseteq Nat
        BY <1>1
      <4> HIDE DEF Bad
      <4> QED
        BY <2>1, <4>1, LeastNat
    <3>2. j # 0 => j - 1 \in 0 .. AddrBits /\ j - 1 \notin Bad
      <4>1. j \in 0 .. AddrBits /\ j \in Nat /\ AddrBits \in Nat
        BY <1>1, <3>1, AddressAssumption
      <4>2. j # 0 => j - 1 \in 0 .. AddrBits
        BY <4>1
      <4>3. ~(j <= j - 1)
        BY <4>1
      <4> HIDE DEF Bad
      <4> QED
        BY <3>1, <4>2, <4>3
    <3>3. j # 0 => Power[j - 1] >= 1 /\ Power[j - 1] \in Nat
      BY <3>2, PowerIs
    <3>4. Power[j] = IF j = 0 THEN 1 ELSE 2 * Power[j - 1]
      BY <3>1, PowerIs
    <3> QED
      BY <3>1, <3>3, <3>4
  <2> QED
    BY <2>1
<1>3. \A len \in Lens : BlockSize(len) \in Nat /\ BlockSize(len) >= 1
  BY <1>1, <1>2, PowerIs DEF BlockSize, Lens
<1>4. 0 \in 0 .. AddrBits /\ AddrBits \in 0 .. AddrBits /\ AddrBits - AddrBits = 0 /\ AddrBits - 0 = AddrBits
  BY AddressAssumption
<1>5. BlockSize(AddrBits) = 1
  BY <1>4, PowerIs DEF BlockSize
<1>6. BlockSize(0) = Top + 1 /\ Top \in Nat
  BY <1>2, <1>4, PowerIs DEF BlockSize, Top
<1>7. ASSUME NEW len \in Lens, len # AddrBits
      PROVE  len + 1 \in Lens /\ BlockSize(len) = 2 * BlockSize(len + 1)
  <2>1. /\ len + 1 \in Lens /\ AddrBits - len # 0
        /\ AddrBits - len \in 0 .. AddrBits /\ (AddrBits - len) - 1 = AddrBits - (len + 1)
    BY <1>7, AddressAssumption DEF Lens
  <2> QED
    BY <2>1, PowerIs DEF BlockSize
<1> QED
  BY <1>3, <1>5, <1>6, <1>7

\* What remains of a division, and that it is the only such number.
LEMMA Remainder ==
  ASSUME NEW m \in Nat, m >= 1, NEW a \in Nat
  PROVE  /\ a % m \in 0 .. m - 1
         /\ \E q \in Nat : a = m * q + (a % m)
<1> DEFINE q == a \div m
           r == a % m
<1>1. r \in 0 .. m - 1
  OBVIOUS
<1>2. q \in Nat
  OBVIOUS
<1>3. r = a - m * q
  OBVIOUS
<1> HIDE DEF q, r
<1>4. m * q \in Nat
  BY <1>2
<1>5. a = m * q + r
  BY <1>1, <1>3, <1>4
<1>6. r \in 0 .. m - 1 /\ \E x \in Nat : a = m * x + r
  BY <1>1, <1>2, <1>5
<1> QED
  BY <1>6 DEF r

\* Of the numbers that leave the same remainder there is one in every stretch.
LEMMA RemainderUnique ==
  ASSUME NEW m \in Nat, m >= 1, NEW q \in Nat, NEW p \in Nat,
         NEW r \in 0 .. m - 1, NEW s \in 0 .. m - 1, m * q + r = m * p + s
  PROVE  q = p /\ r = s
<1>1. ASSUME NEW x \in Nat, NEW y \in Nat, x < y PROVE m * x + m <= m * y
  <2>1. PICK d \in Nat : y = x + 1 + d
    <3>1. y - x - 1 \in Nat
      BY <1>1
    <3> QED
      BY <3>1
  <2>2. m * y = m * x + m + m * d
    BY <2>1
  <2>3. m * d \in Nat /\ m * x \in Nat
    OBVIOUS
  <2> QED
    BY <2>2, <2>3
<1>2. m * q \in Nat /\ m * p \in Nat
  OBVIOUS
<1>3. ~(q < p)
  BY <1>1, <1>2
<1>4. ~(p < q)
  BY <1>1, <1>2
<1> QED
  BY <1>2, <1>3, <1>4

\* Blocks of twice the size: an address lies in the first half of one or in the
\* second, and a number that begins the larger one begins the smaller one.
LEMMA Halving ==
  ASSUME NEW m \in Nat, m >= 1, NEW a \in Nat
  PROVE  a % (2 * m) = a % m \/ a % (2 * m) = (a % m) + m
<1>1. 2 * m \in Nat /\ 2 * m >= 1
  OBVIOUS
<1> DEFINE r == a % m
           s == a % (2 * m)
<1>2. PICK q \in Nat : a = m * q + r
  BY Remainder
<1>3. PICK p \in Nat : a = (2 * m) * p + s
  BY <1>1, Remainder
<1>4. r \in 0 .. m - 1 /\ s \in 0 .. (2 * m) - 1
  BY <1>1, Remainder
<1> HIDE DEF r, s
<1>5. CASE s < m
  <2>1. 2 * p \in Nat /\ s \in 0 .. m - 1 /\ m * (2 * p) + s = a
    BY <1>3, <1>4, <1>5
  <2>2. s = r
    BY <1>2, <1>4, <2>1, RemainderUnique
  <2> QED
    BY <2>2 DEF r, s
<1>6. CASE ~(s < m)
  <2>1. 2 * p + 1 \in Nat /\ s - m \in 0 .. m - 1
    BY <1>3, <1>4, <1>6
  <2>2. m * (2 * p + 1) = (2 * m) * p + m
    BY <1>3
  <2>3. m * (2 * p + 1) + (s - m) = a
    <3>1. (2 * m) * p \in Nat
      BY <1>3
    <3> QED
      BY <1>3, <1>4, <2>2, <3>1
  <2>4. s - m = r
    <3> DEFINE u == 2 * p + 1
               w == s - m
    <3>1. u \in Nat /\ w \in 0 .. m - 1 /\ m * q + r = m * u + w
      BY <1>2, <2>1, <2>3
    <3> HIDE DEF u, w
    <3>2. r = w
      BY <1>2, <1>4, <3>1, RemainderUnique
    <3> QED
      BY <3>2 DEF w
  <2> QED
    BY <1>4, <2>4 DEF r, s
<1> QED
  BY <1>5, <1>6

\* The address where the block of an address begins.
Base(a, len) == a - (a % BlockSize(len))

\* A block begins at an aligned address and holds the addresses up to the next one.
LEMMA BaseIs ==
  ASSUME NEW a \in Nat, NEW len \in Lens
  PROVE  /\ Base(a, len) \in Nat
         /\ Base(a, len) <= a /\ a < Base(a, len) + BlockSize(len)
         /\ Base(a, len) % BlockSize(len) = 0
<1> DEFINE m == BlockSize(len)
           r == a % m
<1>1. m \in Nat /\ m >= 1
  BY BlockSizes
<1> HIDE DEF m
<1>2. r \in 0 .. m - 1 /\ \E q \in Nat : a = m * q + r
  BY <1>1, Remainder
<1>3. PICK q \in Nat : a = m * q + r
  BY <1>2
<1> HIDE DEF r
<1>4. m * q \in Nat
  BY <1>1
<1>5. a - r = m * q
  BY <1>2, <1>3, <1>4
<1>6. (m * q) % m = 0
  <2> DEFINE b == m * q
             s == b % m
  <2>1. b \in Nat
    BY <1>4
  <2> HIDE DEF b
  <2>2. s \in 0 .. m - 1 /\ \E p \in Nat : b = m * p + s
    BY <1>1, <2>1, Remainder
  <2>3. PICK p \in Nat : b = m * p + s
    BY <2>2
  <2> HIDE DEF s
  <2>4. m * q + 0 = m * p + s
    BY <1>4, <2>3 DEF b
  <2>5. s = 0
    BY <1>1, <2>2, <2>4, RemainderUnique
  <2> QED
    BY <2>5 DEF s, b
<1>7. /\ a - r \in Nat /\ a - r <= a /\ a < (a - r) + m
      /\ (a - r) % m = 0
  <2>1. a - r \in Nat /\ a - r <= a /\ a < (a - r) + m
    BY <1>1, <1>2, <1>3, <1>4, <1>5
  <2>2. (a - r) % m = 0
    BY <1>5, <1>6
  <2> QED
    BY <2>1, <2>2
<1> QED
  BY <1>7 DEF Base, m, r

\* There is only one aligned address whose block holds a given one.
LEMMA BaseUnique ==
  ASSUME NEW a \in Nat, NEW len \in Lens, NEW b \in Nat, b % BlockSize(len) = 0,
         b <= a, a < b + BlockSize(len)
  PROVE  Base(a, len) = b
<1> DEFINE m == BlockSize(len)
           r == a % m
<1>1. m \in Nat /\ m >= 1
  BY BlockSizes
<1>2. b % m = 0 /\ b <= a /\ a < b + m
  OBVIOUS
<1> HIDE DEF m
<1>3. r \in 0 .. m - 1 /\ \E q \in Nat : a = m * q + r
  BY <1>1, Remainder
<1>4. PICK p \in Nat : b = m * p + (b % m)
  BY <1>1, Remainder
<1>5. PICK q \in Nat : a = m * q + r
  BY <1>3
<1> HIDE DEF r
<1>6. m * p \in Nat /\ m * q \in Nat
  BY <1>1
<1>7. b = m * p
  BY <1>2, <1>4, <1>6
<1> DEFINE s == a - b
<1>8. s \in 0 .. m - 1 /\ m * q + r = m * p + s
  BY <1>1, <1>2, <1>5, <1>6, <1>7
<1> HIDE DEF s
<1>9. r = s
  BY <1>1, <1>3, <1>8, RemainderUnique
<1>10. a - r = b
  BY <1>9 DEF s
<1> QED
  BY <1>10 DEF Base, m, r

\* An aligned address is aligned for the smaller blocks, and its block lies within
\* the larger one it is in.
LEMMA Nesting ==
  ASSUME NEW a \in Nat, NEW len \in Lens, a % BlockSize(len) = 0,
         NEW k \in Lens, k <= len
  PROVE  a + BlockSize(len) <= Base(a, k) + BlockSize(k)
<1> DEFINE Bad == { n \in Nat : \E j \in Lens : j + n = len
                       /\ ~(a + BlockSize(len) <= Base(a, j) + BlockSize(j)) }
<1>1. CASE Bad # {}
  <2>1. PICK n \in Bad : \A x \in Bad : n <= x
    <3>1. Bad \subseteq Nat
      OBVIOUS
    <3> HIDE DEF Bad
    <3> QED
      BY <1>1, <3>1, LeastNat
  <2>2. PICK j \in Lens : j + n = len /\ ~(a + BlockSize(len) <= Base(a, j) + BlockSize(j))
    BY <2>1
  <2>3. j \in Nat /\ n \in Nat /\ len \in Nat /\ AddrBits \in Nat /\ len <= AddrBits
    BY <2>1, AddressAssumption DEF Lens
  <2>4. n # 0
    <3>1. BlockSize(len) \in Nat /\ BlockSize(len) >= 1
      BY BlockSizes
    <3>2. Base(a, len) = a
      <4>1. a <= a /\ a < a + BlockSize(len)
        BY <3>1
      <4> QED
        BY <4>1, BaseUnique
    <3>3. n = 0 => j = len
      BY <2>2, <2>3
    <3> QED
      BY <2>2, <3>1, <3>2, <3>3
  <2>5. j # AddrBits /\ n - 1 \in Nat /\ (j + 1) + (n - 1) = len /\ ~(n <= n - 1)
    BY <2>2, <2>3, <2>4
  <2>6. j + 1 \in Lens /\ BlockSize(j) = 2 * BlockSize(j + 1)
    BY <2>5, BlockSizes
  <2>7. a + BlockSize(len) <= Base(a, j + 1) + BlockSize(j + 1)
    <3>1. n - 1 \notin Bad
      <4> HIDE DEF Bad
      <4> QED
        BY <2>1, <2>5
    <3> QED
      BY <2>5, <2>6, <3>1
  <2>8. Base(a, j) = Base(a, j + 1) \/ Base(a, j) = Base(a, j + 1) - BlockSize(j + 1)
    <3> DEFINE m == BlockSize(j + 1)
    <3>1. m \in Nat /\ m >= 1 /\ BlockSize(j) = 2 * m
      BY <2>6, BlockSizes
    <3> HIDE DEF m
    <3>2. a % (2 * m) = a % m \/ a % (2 * m) = (a % m) + m
      BY <3>1, Halving
    <3>3. a % m \in Nat
      BY <3>1, Remainder
    <3> DEFINE r == a % m
               s == a % (2 * m)
    <3>4. (s = r \/ s = r + m) /\ r \in Nat
      BY <3>2, <3>3
    <3> HIDE DEF r, s
    <3>5. a - s = a - r \/ a - s = (a - r) - m
      BY <3>1, <3>4
    <3> QED
      BY <3>1, <3>5 DEF Base, m, r, s
  <2>9. /\ Base(a, j) \in Nat /\ Base(a, j + 1) \in Nat
        /\ BlockSize(j + 1) \in Nat /\ BlockSize(len) \in Nat
    BY <2>6, BaseIs, BlockSizes
  <2> QED
    BY <2>2, <2>6, <2>7, <2>8, <2>9
<1>2. CASE Bad = {}
  <2>1. len - k \in Nat /\ k + (len - k) = len
    BY DEF Lens
  <2> QED
    BY <1>2, <2>1
<1> QED
  BY <1>1, <1>2

-----------------------------------------------------------------------------
(* Prefixes.                                                               *)

\* An aligned address and a length make a prefix.
LEMMA PrefixMade ==
  ASSUME NEW a \in Addresses, NEW len \in Lens, a % BlockSize(len) = 0
  PROVE  [addr |-> a, len |-> len] \in Prefixes
<1>1. Masked(a, len) = [addr |-> a, len |-> len]
  BY BlockSizes DEF Masked, Addresses
<1> QED
  BY <1>1 DEF Prefixes, Lens

\* A prefix begins at an aligned address and its block ends within the addresses.
LEMMA PrefixIs ==
  ASSUME NEW p \in Prefixes
  PROVE  /\ p.len \in Lens /\ p.addr \in Addresses /\ p.addr \in Nat
         /\ p = [addr |-> p.addr, len |-> p.len]
         /\ p.addr % BlockSize(p.len) = 0
         /\ Base(p.addr, p.len) = p.addr
         /\ p.addr + BlockSize(p.len) <= Top + 1
<1>1. PICK a \in Addresses, len \in Lens : p = Masked(a, len)
  BY DEF Prefixes, Lens
<1>2. a \in Nat /\ a <= Top /\ Top \in Nat /\ BlockSize(0) = Top + 1
  BY BlockSizes DEF Addresses
<1>3. p.addr = Base(a, len) /\ p.len = len /\ p = [addr |-> p.addr, len |-> p.len]
  BY <1>1 DEF Masked, Base
<1>4. p.addr \in Nat /\ p.addr <= a /\ p.addr % BlockSize(len) = 0
  BY <1>2, <1>3, BaseIs
<1>5. p.addr \in Addresses
  BY <1>2, <1>4 DEF Addresses
<1>6. 0 \in Lens /\ 0 <= len
  BY AddressAssumption DEF Lens
<1>7. Base(p.addr, 0) = 0
  <2>1. 0 % BlockSize(0) = 0
    <3>1. BlockSize(0) \in Nat /\ BlockSize(0) >= 1
      BY <1>6, BlockSizes
    <3> QED
      BY <3>1
  <2>2. 0 <= p.addr /\ p.addr < 0 + BlockSize(0)
    BY <1>2, <1>4
  <2> QED
    BY <1>4, <1>6, <2>1, <2>2, BaseUnique
<1>8. p.addr + BlockSize(len) <= Base(p.addr, 0) + BlockSize(0)
  BY <1>4, <1>6, Nesting
<1>9. Base(p.addr, len) = p.addr
  <2>1. BlockSize(len) \in Nat /\ BlockSize(len) >= 1
    BY BlockSizes
  <2>2. p.addr <= p.addr /\ p.addr < p.addr + BlockSize(len)
    BY <1>4, <2>1
  <2> QED
    BY <1>4, <2>2, BaseUnique
<1> QED
  BY <1>2, <1>3, <1>4, <1>5, <1>7, <1>8, <1>9

\* The addresses a prefix covers.
LEMMA CoversIs ==
  ASSUME NEW p \in Prefixes, NEW a \in Nat
  PROVE  Covers(p, a) <=> p.addr <= a /\ a < p.addr + BlockSize(p.len)
<1>1. p.len \in Lens /\ p.addr \in Nat /\ p.addr % BlockSize(p.len) = 0
  BY PrefixIs
<1>2. Covers(p, a) <=> Base(a, p.len) = p.addr
  BY DEF Covers, Base
<1> QED
  BY <1>1, <1>2, BaseIs, BaseUnique

\* The block of a prefix is an interval of as many addresses as its size says.
LEMMA BlockIs ==
  ASSUME NEW p \in Prefixes
  PROVE  /\ Block(p) = p.addr .. p.addr + BlockSize(p.len) - 1
         /\ IsFiniteSet(Block(p)) /\ Cardinality(Block(p)) = BlockSize(p.len)
<1>1. /\ p.len \in Lens /\ p.addr \in Nat
      /\ p.addr + BlockSize(p.len) <= Top + 1 /\ Top \in Nat
      /\ BlockSize(p.len) \in Nat /\ BlockSize(p.len) >= 1
  BY PrefixIs, BlockSizes
<1> DEFINE n == BlockSize(p.len)
           b == p.addr
<1>2. \A a \in Nat : Covers(p, a) <=> b <= a /\ a < b + n
  BY CoversIs
<1>3. b \in Nat /\ n \in Nat /\ n >= 1 /\ b + n <= Top + 1 /\ Top \in Nat
  BY <1>1
<1> HIDE DEF n, b
<1>4. Block(p) = b .. b + n - 1
  <2>1. Block(p) = { a \in 0 .. Top : b <= a /\ a < b + n }
    BY <1>2, <1>3 DEF Block, Addresses
  <2> QED
    BY <1>3, <2>1
<1>5. IsFiniteSet(b .. b + n - 1) /\ Cardinality(b .. b + n - 1) = n
  <2>1. b + n - 1 \in Int /\ b \in Int /\ ~(b > b + n - 1) /\ (b + n - 1) - b + 1 = n
    BY <1>3
  <2> QED
    BY <2>1, FS_Interval
<1> QED
  BY <1>4, <1>5 DEF n, b

\* Of two prefixes that share an address, the one of greater length lies within the other.
LEMMA SharedNests ==
  ASSUME NEW p \in Prefixes, NEW q \in Prefixes, p.len <= q.len,
         NEW a \in Nat, Covers(p, a), Covers(q, a)
  PROVE  Base(q.addr, p.len) = p.addr
<1>1. /\ p.len \in Lens /\ q.len \in Lens /\ p.addr \in Nat /\ q.addr \in Nat
      /\ p.addr % BlockSize(p.len) = 0 /\ q.addr % BlockSize(q.len) = 0
  BY PrefixIs
<1> DEFINE c == Base(q.addr, p.len)
<1>2. c \in Nat /\ c <= q.addr /\ c % BlockSize(p.len) = 0
  BY <1>1, BaseIs
<1>3. q.addr + BlockSize(q.len) <= c + BlockSize(p.len)
  BY <1>1, Nesting
<1>4. q.addr <= a /\ a < q.addr + BlockSize(q.len)
  BY CoversIs
<1>5. BlockSize(p.len) \in Nat /\ BlockSize(q.len) \in Nat
  BY <1>1, BlockSizes
<1> HIDE DEF c
<1>6. c <= a /\ a < c + BlockSize(p.len)
  BY <1>1, <1>2, <1>3, <1>4, <1>5
<1>7. Base(a, p.len) = c
  BY <1>1, <1>2, <1>6, BaseUnique
<1>8. Base(a, p.len) = p.addr
  BY DEF Covers, Base
<1> QED
  BY <1>7, <1>8 DEF c

\* Prefixes that share an address overlap in the sense of netip.
LEMMA SharedOverlaps ==
  ASSUME NEW p \in Prefixes, NEW q \in Prefixes, NEW a \in Nat, Covers(p, a), Covers(q, a)
  PROVE  Overlaps(p, q)
<1>1. /\ Base(p.addr, p.len) = p.addr /\ Base(q.addr, q.len) = q.addr
      /\ p.len \in Nat /\ q.len \in Nat
  BY PrefixIs DEF Lens
<1>2. CASE p.len <= q.len
  <2>1. Base(q.addr, p.len) = p.addr
    BY <1>2, SharedNests
  <2>2. Masked(p.addr, p.len) = Masked(q.addr, p.len)
    BY <1>1, <2>1 DEF Masked, Base
  <2>3. p.len < q.len \/ p.len = q.len
    BY <1>1, <1>2
  <2> QED
    BY <1>1, <2>2, <2>3 DEF Overlaps
<1>3. CASE q.len < p.len
  <2>1. Base(p.addr, q.len) = q.addr
    BY <1>1, <1>3, SharedNests
  <2>2. Masked(p.addr, q.len) = Masked(q.addr, q.len)
    BY <1>1, <2>1 DEF Masked, Base
  <2> QED
    BY <1>1, <1>3, <2>2 DEF Overlaps
<1> QED
  BY <1>1, <1>2, <1>3

\* And prefixes that overlap share an address.
LEMMA OverlapIsShared ==
  ASSUME NEW p \in Prefixes, NEW q \in Prefixes, Overlaps(p, q)
  PROVE  \E a \in Addresses : Covers(p, a) /\ Covers(q, a)
<1>1. /\ Base(p.addr, p.len) = p.addr /\ Base(q.addr, q.len) = q.addr
      /\ p.len \in Nat /\ q.len \in Nat
      /\ p.addr \in Addresses /\ q.addr \in Addresses
  BY PrefixIs DEF Lens
<1>2. Covers(p, p.addr) /\ Covers(q, q.addr)
  BY <1>1 DEF Covers, Base
<1>3. CASE p.len < q.len
  <2>1. Base(p.addr, p.len) = Base(q.addr, p.len)
    BY <1>3 DEF Overlaps, Masked, Base
  <2>2. Covers(p, q.addr)
    BY <1>1, <2>1 DEF Covers, Base
  <2> QED
    BY <1>1, <1>2, <2>2
<1>4. CASE ~(p.len < q.len)
  <2>1. Base(p.addr, q.len) = Base(q.addr, q.len)
    BY <1>4 DEF Overlaps, Masked, Base
  <2>2. Covers(q, p.addr)
    BY <1>1, <2>1 DEF Covers, Base
  <2> QED
    BY <1>1, <1>2, <2>2
<1> QED
  BY <1>3, <1>4

-----------------------------------------------------------------------------
(* From a range to its prefixes.                                           *)

\* The largest block: it begins at the start, ends within the range, and no
\* larger one does both.
LEMMA LargestLenIs ==
  ASSUME NEW a \in Addresses, NEW e \in Addresses, a <= e
  PROVE  /\ LargestLen(a, e) \in Lens
         /\ a % BlockSize(LargestLen(a, e)) = 0
         /\ a + BlockSize(LargestLen(a, e)) <= e + 1
         /\ \A k \in Lens : a % BlockSize(k) = 0 /\ a + BlockSize(k) <= e + 1
                              => LargestLen(a, e) <= k
<1> DEFINE S == { len \in 0 .. AddrBits : a % BlockSize(len) = 0 /\ BlockSize(len) <= e - a + 1 }
<1>1. a \in Nat /\ e \in Nat /\ AddrBits \in Nat
  BY BlockSizes, AddressAssumption DEF Addresses
<1>2. AddrBits \in S
  <2>1. BlockSize(AddrBits) = 1
    BY BlockSizes
  <2>2. a % 1 = 0
    BY <1>1
  <2> QED
    BY <1>1, <2>1, <2>2
<1>3. S \subseteq Nat
  BY <1>1
<1>4. LargestLen(a, e) = CHOOSE x \in S : \A y \in S : x <= y
  BY DEF LargestLen, Min
<1>5. \A k \in 0 .. AddrBits : BlockSize(k) \in Nat
  BY BlockSizes DEF Lens
<1>6. \A k : k \in S <=> k \in 0 .. AddrBits /\ a % BlockSize(k) = 0 /\ a + BlockSize(k) <= e + 1
  BY <1>1, <1>5
<1> HIDE DEF S
<1>7. LargestLen(a, e) \in S /\ \A y \in S : LargestLen(a, e) <= y
  BY <1>2, <1>3, <1>4, LeastNat
<1> QED
  BY <1>6, <1>7 DEF Lens

\* Prefixes in the order of their addresses, without an address in common, for
\* the addresses from a to e, each the largest that fits.
Cuts(s, a, e) ==
  /\ s \in Seq(Prefixes)
  /\ \A i \in 1 .. Len(s) :
       /\ a <= s[i].addr /\ s[i].addr + BlockSize(s[i].len) <= e + 1
       /\ s[i].len = LargestLen(s[i].addr, e)
  /\ \A i, j \in 1 .. Len(s) : i < j => s[i].addr + BlockSize(s[i].len) <= s[j].addr
  /\ \A x \in a .. e : \E i \in 1 .. Len(s) : Covers(s[i], x)

\* The largest block, followed by the prefixes of what is left.
LEMMA CutsCons ==
  ASSUME NEW a \in Addresses, NEW e \in Addresses, a <= e,
         NEW t \in Seq(Prefixes),
         LET next == a + BlockSize(LargestLen(a, e))
         IN  IF next > e THEN t = << >> ELSE Cuts(t, next, e)
  PROVE  Cuts(<<[addr |-> a, len |-> LargestLen(a, e)]>> \o t, a, e)
<1> DEFINE len  == LargestLen(a, e)
           p    == [addr |-> a, len |-> len]
           next == a + BlockSize(len)
           s    == <<p>> \o t
<1>1. /\ len \in Lens /\ next <= e + 1 /\ p \in Prefixes
      /\ BlockSize(len) \in Nat /\ BlockSize(len) >= 1
  BY LargestLenIs, PrefixMade, BlockSizes
<1>2. IF next > e THEN t = << >> ELSE Cuts(t, next, e)
  OBVIOUS
<1>3. a \in Nat /\ e \in Nat /\ Top \in Nat /\ e <= Top
  BY BlockSizes DEF Addresses
<1>4. /\ p.addr = a /\ p.len = len /\ p.len = LargestLen(a, e)
      /\ next = a + BlockSize(p.len) /\ next \in Nat /\ a < next
  BY <1>1, <1>3
<1>5. /\ s \in Seq(Prefixes) /\ Len(s) = Len(t) + 1 /\ Len(t) \in Nat
      /\ s[1] = p /\ \A i \in 2 .. Len(t) + 1 : s[i] = t[i - 1] /\ i - 1 \in 1 .. Len(t)
  <2> HIDE DEF p
  <2> QED
    BY <1>1
<1> HIDE DEF s, p, next, len
<1>6. \A i \in 1 .. Len(s) : i = 1 \/ (i \in 2 .. Len(t) + 1 /\ s[i] = t[i - 1] /\ i - 1 \in 1 .. Len(t))
  BY <1>5
<1>7. ASSUME NEW j \in 1 .. Len(t) PROVE s[j + 1] = t[j] /\ j + 1 \in 1 .. Len(s)
  <2>1. j + 1 \in 2 .. Len(t) + 1 /\ (j + 1) - 1 = j /\ j + 1 \in 1 .. Len(s)
    BY <1>5
  <2> QED
    BY <1>5, <2>1
<1>8. ASSUME NEW j \in 1 .. Len(t)
      PROVE  /\ next <= t[j].addr /\ t[j].addr + BlockSize(t[j].len) <= e + 1
             /\ t[j].len = LargestLen(t[j].addr, e)
             /\ t[j] \in Prefixes /\ t[j].addr \in Nat
  <2>1. Cuts(t, next, e)
    BY <1>2
  <2> QED
    BY <2>1, PrefixIs DEF Cuts
<1>9. ASSUME NEW i \in 1 .. Len(s)
      PROVE  /\ a <= s[i].addr /\ s[i].addr + BlockSize(s[i].len) <= e + 1
             /\ s[i].len = LargestLen(s[i].addr, e)
  <2>1. CASE i = 1
    BY <1>1, <1>3, <1>4, <1>5, <2>1
  <2>2. CASE i # 1
    BY <1>3, <1>4, <1>6, <1>8, <2>2
  <2> QED
    BY <2>1, <2>2
<1>10. ASSUME NEW i \in 1 .. Len(s), NEW j \in 1 .. Len(s), i < j
       PROVE  s[i].addr + BlockSize(s[i].len) <= s[j].addr
  <2>1. j # 1 /\ i \in Nat /\ j \in Nat
    BY <1>10
  <2>2. s[j] = t[j - 1] /\ j - 1 \in 1 .. Len(t)
    BY <1>6, <2>1
  <2>3. CASE i = 1
    BY <1>4, <1>5, <1>8, <2>2, <2>3
  <2>4. CASE i # 1
    <3>1. s[i] = t[i - 1] /\ i - 1 \in 1 .. Len(t) /\ i - 1 < j - 1
      BY <1>6, <1>10, <2>1, <2>4
    <3>2. Cuts(t, next, e)
      BY <1>2, <2>2
    <3> QED
      BY <2>2, <3>1, <3>2 DEF Cuts
  <2> QED
    BY <2>3, <2>4
<1>11. ASSUME NEW x \in a .. e PROVE \E i \in 1 .. Len(s) : Covers(s[i], x)
  <2>1. x \in Nat /\ a <= x /\ x <= e
    BY <1>3
  <2>2. CASE x < next
    <3>1. Covers(p, x)
      BY <1>1, <1>4, <2>1, <2>2, CoversIs
    <3> QED
      BY <1>5, <3>1
  <2>3. CASE ~(x < next)
    <3>1. Cuts(t, next, e) /\ x \in next .. e
      BY <1>2, <1>3, <1>4, <2>1, <2>3
    <3>2. PICK j \in 1 .. Len(t) : Covers(t[j], x)
      BY <3>1 DEF Cuts
    <3> QED
      BY <1>7, <3>2
  <2> QED
    BY <2>2, <2>3
<1>12. Cuts(s, a, e)
  BY <1>5, <1>9, <1>10, <1>11 DEF Cuts
<1> QED
  BY <1>12 DEF s, p, len

\* What the recursion says about the prefixes from each start.
CutEquation(g, first, end) ==
  g = [start \in first .. end |->
         <<[addr |-> start, len |-> LargestLen(start, end)]>> \o
           IF start + BlockSize(LargestLen(start, end)) > Top \/ start + BlockSize(LargestLen(start, end)) > end
           THEN << >> ELSE g[start + BlockSize(LargestLen(start, end))]]

\* The recursion of rangeToCIDRs has a solution.
LEMMA CutsExist ==
  ASSUME NEW first \in Addresses, NEW end \in Addresses
  PROVE  \E g \in [first .. end -> Seq(Prefixes)] : CutEquation(g, first, end)
<1> DEFINE I == first .. end
           A == Seq(Prefixes)
           rank == [i \in I |-> end - i]
           next(i) == i + BlockSize(LargestLen(i, end))
           block(i) == [addr |-> i, len |-> LargestLen(i, end)]
           done(i) == next(i) > Top \/ next(i) > end
           H == [x \in I \X [I -> A] |->
                   <<block(x[1])>> \o IF done(x[1]) THEN << >> ELSE x[2][next(x[1])]]
<1>1. first \in Nat /\ end \in Nat /\ end <= Top /\ Top \in Nat
  BY BlockSizes DEF Addresses
<1>2. ASSUME NEW i \in I
      PROVE  /\ i \in Addresses /\ i \in Nat /\ rank[i] \in Nat /\ i <= end
             /\ block(i) \in Prefixes
             /\ ~done(i) => next(i) \in I /\ rank[next(i)] < rank[i]
  <2>1. i \in Addresses /\ i \in Nat /\ i <= end /\ first <= i
    BY <1>1 DEF Addresses
  <2>2. LargestLen(i, end) \in Lens /\ i % BlockSize(LargestLen(i, end)) = 0
    BY <2>1, LargestLenIs
  <2>3. block(i) \in Prefixes
    BY <2>1, <2>2, PrefixMade
  <2>4. BlockSize(LargestLen(i, end)) \in Nat /\ BlockSize(LargestLen(i, end)) >= 1
    BY <2>2, BlockSizes
  <2>5. next(i) \in Nat /\ i < next(i)
    BY <2>1, <2>4
  <2>6. ~done(i) => next(i) \in I
    <3> DEFINE n == next(i)
    <3>1. n \in Nat /\ i < n
      BY <2>5
    <3> HIDE DEF n
    <3>2. ~(n > end) => n \in first .. end
      BY <1>1, <2>1, <3>1
    <3> QED
      BY <3>2 DEF n
  <2>7. ~done(i) => rank[next(i)] < rank[i]
    <3> DEFINE n == next(i)
    <3>1. n \in Nat /\ i < n /\ (~done(i) => n \in I)
      BY <2>5, <2>6
    <3> HIDE DEF n
    <3>2. n \in I => rank[n] = end - n
      OBVIOUS
    <3>3. rank[i] = end - i
      OBVIOUS
    <3> HIDE DEF rank, done
    <3>4. ~done(i) => rank[n] < rank[i]
      BY <1>1, <2>1, <3>1, <3>2, <3>3
    <3> QED
      BY <3>4 DEF n
  <2>8. rank[i] \in Nat
    BY <1>1, <2>1
  <2> QED
    BY <2>1, <2>3, <2>6, <2>7, <2>8
<1>3. ASSUME NEW i \in I, NEW f \in [I -> A]
      PROVE  H[<<i, f>>] = <<block(i)>> \o IF done(i) THEN << >> ELSE f[next(i)]
  <2> HIDE DEF block, done, next, A, I
  <2> QED
    OBVIOUS
<1>4. A # {} /\ << >> \in A
  <2>1. << >> \in A
    OBVIOUS
  <2> HIDE DEF A
  <2> QED
    BY <2>1
<1>5. \A s \in A : \A i \in I : <<block(i)>> \o s \in A
  <2> HIDE DEF block, I
  <2>1. \A i \in I : block(i) \in Prefixes
    BY <1>2
  <2> QED
    BY <2>1
<1>6. WellFounded(I, A, rank, H)
  <2>1. rank \in [I -> Nat]
    <3> HIDE DEF I
    <3>1. \A i \in I : rank[i] \in Nat
      BY <1>2
    <3> QED
      BY <3>1
  <2> HIDE DEF H, rank, block, done, next, A, I
  <2>2. ASSUME NEW i \in I, NEW f \in [I -> A] PROVE H[<<i, f>>] \in A
    <3>1. ~done(i) => f[next(i)] \in A
      BY <1>2
    <3> QED
      BY <1>3, <1>4, <1>5, <3>1
  <2>3. ASSUME NEW i \in I, NEW f \in [I -> A], NEW g \in [I -> A],
               \A j \in I : rank[j] < rank[i] => f[j] = g[j]
        PROVE  H[<<i, f>>] = H[<<i, g>>]
    <3>1. ~done(i) => f[next(i)] = g[next(i)]
      BY <1>2, <2>3
    <3>2. H[<<i, f>>] = <<block(i)>> \o IF done(i) THEN << >> ELSE f[next(i)]
      BY <1>3
    <3>3. H[<<i, g>>] = <<block(i)>> \o IF done(i) THEN << >> ELSE g[next(i)]
      BY <1>3
    <3> QED
      BY <3>1, <3>2, <3>3
  <2> QED
    BY <2>1, <2>2, <2>3 DEF WellFounded
<1> HIDE DEF H, rank, A
<1>7. PICK g \in [I -> A] : Solves(g, I, H)
  BY <1>4, <1>6, RecursionExists
<1>8. \A i \in I : g[i] = <<block(i)>> \o IF done(i) THEN << >> ELSE g[next(i)]
  <2> HIDE DEF block, done, next, I
  <2> QED
    BY <1>3, <1>7 DEF Solves
<1>9. g = [i \in I |-> <<block(i)>> \o IF done(i) THEN << >> ELSE g[next(i)]]
  <2> HIDE DEF block, done, next, I
  <2> QED
    BY <1>8
<1> QED
  BY Zenon, <1>9 DEF CutEquation, A

\* The prefixes of a range are the largest that fit, in order, for all its addresses.
LEMMA RangeIsCut ==
  ASSUME NEW first \in Addresses, NEW end \in Addresses, first <= end
  PROVE  Cuts(rangeToCIDRs(first, end), first, end)
<1> DEFINE I == first .. end
           next(i) == i + BlockSize(LargestLen(i, end))
           block(i) == [addr |-> i, len |-> LargestLen(i, end)]
           g == CHOOSE h : CutEquation(h, first, end)
           Good(i) == Cuts(g[i], i, end)
<1>1. first \in Nat /\ end \in Nat /\ end <= Top /\ Top \in Nat
  BY BlockSizes DEF Addresses
<1>2. rangeToCIDRs(first, end) = g[first]
  BY Zenon DEF rangeToCIDRs, CutEquation
<1>3. CutEquation(g, first, end)
  BY CutsExist
<1> HIDE DEF g
<1>4. ASSUME NEW i \in I
      PROVE  g[i] = <<block(i)>> \o IF next(i) > Top \/ next(i) > end THEN << >> ELSE g[next(i)]
  <2>1. g = [j \in I |-> <<block(j)>> \o IF next(j) > Top \/ next(j) > end THEN << >> ELSE g[next(j)]]
    BY Zenon, <1>3 DEF CutEquation
  <2> HIDE DEF block, next, I
  <2> QED
    BY <2>1
<1> DEFINE Bad == { k \in Nat : \E i \in I : end - i = k /\ ~Good(i) }
<1>5. ASSUME Bad # {} PROVE FALSE
  <2>1. PICK k \in Bad : \A m \in Bad : k <= m
    <3>1. Bad \subseteq Nat
      OBVIOUS
    <3> HIDE DEF Bad
    <3> QED
      BY <1>5, <3>1, LeastNat
  <2>2. PICK i \in I : end - i = k /\ ~Good(i)
    BY <2>1
  <2>3. i \in Addresses /\ i \in Nat /\ i <= end /\ first <= i
    BY <1>1 DEF Addresses
  <2>4. LargestLen(i, end) \in Lens
    BY <2>3, LargestLenIs
  <2> DEFINE n == next(i)
  <2>5. n \in Nat /\ i < n
    <3>1. BlockSize(LargestLen(i, end)) \in Nat /\ BlockSize(LargestLen(i, end)) >= 1
      BY <2>4, BlockSizes
    <3> QED
      BY <2>3, <3>1
  <2> HIDE DEF n
  <2>6. ~(n > end) => n \in I /\ ~(n > Top)
    BY <1>1, <2>3, <2>5
  <2>7. ~(n > end) => Good(n)
    <3>1. ASSUME ~(n > end) PROVE end - n \in Nat /\ ~(k <= end - n) /\ n \in I
      BY <1>1, <2>2, <2>3, <2>5, <2>6, <3>1
    <3>2. ASSUME ~(n > end) PROVE end - n \notin Bad
      <4> HIDE DEF Bad
      <4> QED
        BY <2>1, <3>1, <3>2
    <3> HIDE DEF Good
    <3> QED
      BY <3>1, <3>2
  <2> DEFINE t == IF n > Top \/ n > end THEN << >> ELSE g[n]
  <2>8. g[i] = <<block(i)>> \o t
    BY <1>4 DEF n
  <2>9. IF n > end THEN t = << >> ELSE Cuts(t, n, end)
    <3> HIDE DEF I
    <3> QED
      BY <2>6, <2>7
  <2>10. t \in Seq(Prefixes)
    <3>1. << >> \in Seq(Prefixes)
      OBVIOUS
    <3> HIDE DEF t
    <3> QED
      BY <2>9, <3>1 DEF Cuts
  <2> HIDE DEF t
  <2>11. Cuts(<<[addr |-> i, len |-> LargestLen(i, end)]>> \o t, i, end)
    BY <2>3, <2>9, <2>10, CutsCons DEF n
  <2> QED
    BY <2>2, <2>8, <2>11
<1>6. Good(first)
  <2>1. first \in I /\ end - first \in Nat
    BY <1>1
  <2>2. end - first \notin Bad
    BY <1>5
  <2> HIDE DEF Good, I
  <2> QED
    BY <2>1, <2>2
<1> QED
  BY <1>2, <1>6

-----------------------------------------------------------------------------
(* Folds over finite sets, an element at a time.                           *)

\* A choice of an element from every subset that has one.
Picks(pick, D) == \A s \in SUBSET D : s # {} => pick[s] \in s

\* A property of the empty set that comes with each element holds for every subset.
LEMMA FoldInduction ==
  ASSUME NEW D, IsFiniteSet(D), NEW pick, Picks(pick, D), NEW T,
         {} \in T, \A s \in SUBSET D : s # {} /\ s \ {pick[s]} \in T => s \in T
  PROVE  \A s \in SUBSET D : s \in T
<1> DEFINE Bad == { k \in Nat : \E s \in SUBSET D : Cardinality(s) = k /\ s \notin T }
<1>1. ASSUME NEW s \in SUBSET D PROVE IsFiniteSet(s) /\ Cardinality(s) \in Nat
  BY FS_Subset, FS_CardinalityType
<1>2. ASSUME Bad # {} PROVE FALSE
  <2>1. PICK k \in Bad : \A m \in Bad : k <= m
    <3>1. Bad \subseteq Nat
      OBVIOUS
    <3> HIDE DEF Bad
    <3> QED
      BY <1>2, <3>1, LeastNat
  <2>2. PICK s \in SUBSET D : Cardinality(s) = k /\ s \notin T
    BY <2>1
  <2>3. s # {}
    BY <2>2
  <2> DEFINE u == s \ {pick[s]}
  <2>4. u \in SUBSET D /\ pick[s] \in s
    BY <2>3 DEF Picks
  <2>5. Cardinality(u) = k - 1
    BY <1>1, <2>2, <2>4, FS_RemoveElement
  <2>6. u \notin T
    BY <2>2, <2>3
  <2>7. Cardinality(u) \in Nat /\ ~(k <= k - 1) /\ k \in Nat
    BY <1>1, <2>1, <2>4
  <2> HIDE DEF u
  <2>8. k - 1 \in Bad
    BY <2>4, <2>5, <2>6, <2>7
  <2> HIDE DEF Bad
  <2> QED
    BY <2>1, <2>7, <2>8
<1> QED
  BY <1>1, <1>2

\* The equation of a fold.
Folds(g, D, pick, step, base) ==
  \A s \in SUBSET D : g[s] = IF s = {} THEN base ELSE step[<<pick[s], g[s \ {pick[s]}]>>]

\* Every fold over a finite set has a solution.
LEMMA FoldExists ==
  ASSUME NEW D, IsFiniteSet(D), NEW pick, Picks(pick, D),
         NEW A, NEW base \in A, NEW step \in [D \X A -> A]
  PROVE  \E g \in [SUBSET D -> A] : Folds(g, D, pick, step, base)
<1> DEFINE I == SUBSET D
           rank == [s \in I |-> Cardinality(s)]
           H == [x \in I \X [I -> A] |->
                   IF x[1] = {} THEN base ELSE step[<<pick[x[1]], x[2][x[1] \ {pick[x[1]]}]>>]]
<1>1. ASSUME NEW s \in I, NEW f \in [I -> A]
      PROVE  H[<<s, f>>] = IF s = {} THEN base ELSE step[<<pick[s], f[s \ {pick[s]}]>>]
  OBVIOUS
<1>2. ASSUME NEW s \in I PROVE rank[s] \in Nat
  BY FS_Subset, FS_CardinalityType
<1>3. ASSUME NEW s \in I, s # {}
      PROVE  pick[s] \in D /\ s \ {pick[s]} \in I /\ rank[s \ {pick[s]}] < rank[s]
  <2>1. pick[s] \in s /\ pick[s] \in D
    BY <1>3 DEF Picks
  <2>2. IsFiniteSet(s) /\ Cardinality(s) \in Nat
    BY FS_Subset, FS_CardinalityType
  <2>3. Cardinality(s \ {pick[s]}) = Cardinality(s) - 1
    BY <2>1, <2>2, FS_RemoveElement
  <2> QED
    BY <2>1, <2>2, <2>3
<1>4. WellFounded(I, A, rank, H)
  <2>1. rank \in [I -> Nat]
    BY <1>2
  <2> HIDE DEF H, rank, I
  <2>2. ASSUME NEW s \in I, NEW f \in [I -> A] PROVE H[<<s, f>>] \in A
    <3>1. s # {} => <<pick[s], f[s \ {pick[s]}]>> \in D \X A
      BY <1>3
    <3> QED
      BY <1>1, <3>1
  <2>3. ASSUME NEW s \in I, NEW f \in [I -> A], NEW g \in [I -> A],
               \A t \in I : rank[t] < rank[s] => f[t] = g[t]
        PROVE  H[<<s, f>>] = H[<<s, g>>]
    <3>1. s # {} => f[s \ {pick[s]}] = g[s \ {pick[s]}]
      BY <1>3, <2>3
    <3>2. H[<<s, f>>] = IF s = {} THEN base ELSE step[<<pick[s], f[s \ {pick[s]}]>>]
      BY <1>1
    <3>3. H[<<s, g>>] = IF s = {} THEN base ELSE step[<<pick[s], g[s \ {pick[s]}]>>]
      BY <1>1
    <3> QED
      BY <3>1, <3>2, <3>3
  <2> QED
    BY <2>1, <2>2, <2>3 DEF WellFounded
<1> HIDE DEF H, rank
<1>5. PICK g \in [I -> A] : Solves(g, I, H)
  BY <1>4, RecursionExists
<1>6. ASSUME NEW s \in I
      PROVE  g[s] = IF s = {} THEN base ELSE step[<<pick[s], g[s \ {pick[s]}]>>]
  <2> HIDE DEF I
  <2>1. g[s] = H[<<s, g>>]
    BY <1>5 DEF Solves
  <2> QED
    BY <1>1, <2>1
<1> QED
  BY <1>5, <1>6 DEF Folds

-----------------------------------------------------------------------------
(* Merging ranges.                                                         *)

Spans == { r \in [start : Addresses, end : Addresses] : r.start <= r.end }

Within(x, r) == r.start <= x /\ x <= r.end

\* Ranges in order, with a gap between any two, for the addresses of the set S.
MergedOf(m, S) ==
  /\ m \in Seq(Spans)
  /\ \A i, j \in 1 .. Len(m) : i < j => m[i].end + 1 < m[j].start
  /\ \A x \in Nat : (\E i \in 1 .. Len(m) : Within(x, m[i])) <=> (\E r \in S : Within(x, r))
  /\ \A i \in 1 .. Len(m) : \E r \in S : r.start = m[i].start

\* A range is an interval of addresses.
LEMMA SpanIs ==
  ASSUME NEW r \in Spans
  PROVE  /\ r = [start |-> r.start, end |-> r.end]
         /\ r.start \in Nat /\ r.end \in Nat /\ r.start <= r.end /\ r.end <= Top /\ Top \in Nat
BY BlockSizes DEF Spans, Addresses

\* A range that begins last joins the last of the merged ranges or follows it.
LEMMA AbsorbIs ==
  ASSUME NEW S, S \subseteq Spans, NEW m, MergedOf(m, S),
         NEW r \in Spans, \A s \in S : s.start <= r.start
  PROVE  MergedOf(Absorb(r, m), S \union {r})
<1> DEFINE last == Len(m)
<1>1. /\ last \in Nat /\ m \in Seq(Spans)
      /\ \A i \in 1 .. last : m[i] \in Spans
  BY DEF MergedOf
<1>2. /\ r.start \in Nat /\ r.end \in Nat /\ r.start <= r.end /\ r.end <= Top /\ Top \in Nat
      /\ \A i \in 1 .. last : /\ m[i].start \in Nat /\ m[i].end \in Nat
                              /\ m[i].start <= m[i].end /\ m[i].end <= Top
  BY <1>1, SpanIs
<1>3. \A i \in 1 .. last : m[i].start <= r.start
  BY DEF MergedOf
<1>4. \A i, j \in 1 .. last : i < j => m[i].end + 1 < m[j].start
  BY DEF MergedOf
<1>5. CASE last > 0 /\ Meets(m[last], r)
  <2> DEFINE n == [m EXCEPT ![last].end = IF r.end > @ THEN r.end ELSE @]
             e == IF r.end > m[last].end THEN r.end ELSE m[last].end
  <2>1. Absorb(r, m) = n
    BY <1>5 DEF Absorb
  <2>2. last \in 1 .. last
    BY <1>1, <1>5
  <2>3. /\ e \in Nat /\ e <= Top /\ m[last].end <= e /\ r.end <= e
        /\ (e = r.end \/ e = m[last].end) /\ m[last].start <= e
        /\ e \in Addresses /\ m[last].start \in Addresses
    BY <1>2, <2>2 DEF Addresses
  <2>4. /\ n[last] = [start |-> m[last].start, end |-> e]
        /\ \A i \in 1 .. last : i # last => n[i] = m[i]
        /\ Len(n) = last /\ DOMAIN n = 1 .. last
    <3>1. m[last] = [start |-> m[last].start, end |-> m[last].end]
      BY <1>1, <2>2, SpanIs
    <3> QED
      BY <1>1, <2>2, <3>1
  <2>5. n[last] \in Spans /\ n[last].start = m[last].start /\ n[last].end = e
    BY <2>3, <2>4 DEF Spans
  <2>6. n \in Seq(Spans)
    <3>1. \A i \in 1 .. last : n[i] \in Spans
      BY <1>1, <2>4, <2>5
    <3>2. n = [i \in 1 .. last |-> n[i]]
      BY <1>1
    <3> HIDE DEF n
    <3> QED
      BY <1>1, <3>1, <3>2
  <2> HIDE DEF n, e
  <2>7. ASSUME NEW i \in 1 .. last, NEW j \in 1 .. last, i < j
        PROVE  n[i].end + 1 < n[j].start
    <3>1. i # last
      BY <1>1, <2>7
    <3>2. n[i] = m[i]
      BY <2>4, <3>1
    <3>3. n[j].start = m[j].start
      BY <2>4, <2>5
    <3> QED
      BY <1>4, <2>7, <3>2, <3>3
  <2>8. ASSUME NEW x \in Nat
        PROVE  Within(x, n[last]) <=> Within(x, m[last]) \/ Within(x, r)
    <3>1. r.start <= m[last].end + 1 /\ m[last].start <= r.start
      BY <1>2, <1>3, <1>5, <2>2 DEF Meets
    <3> QED
      BY <1>2, <2>2, <2>3, <2>5, <3>1 DEF Within
  <2>9. ASSUME NEW x \in Nat
        PROVE  (\E i \in 1 .. last : Within(x, n[i])) <=> (\E s \in S \union {r} : Within(x, s))
    <3>1. (\E i \in 1 .. last : Within(x, m[i])) <=> (\E s \in S : Within(x, s))
      BY DEF MergedOf
    <3> HIDE DEF last
    <3>2. (\E i \in 1 .. last : Within(x, n[i])) <=> (\E i \in 1 .. last : Within(x, m[i])) \/ Within(x, r)
      BY <2>2, <2>4, <2>8
    <3> QED
      BY <3>1, <3>2
  <2>10. \A i \in 1 .. last : \E s \in S \union {r} : s.start = n[i].start
    BY <2>2, <2>4, <2>5 DEF MergedOf
  <2> QED
    BY <2>1, <2>4, <2>6, <2>7, <2>9, <2>10 DEF MergedOf
<1>6. CASE ~(last > 0 /\ Meets(m[last], r))
  <2> DEFINE n == Append(m, r)
  <2>1. Absorb(r, m) = n
    BY <1>6 DEF Absorb
  <2>2. /\ n \in Seq(Spans) /\ Len(n) = last + 1 /\ n[last + 1] = r
        /\ \A i \in 1 .. last : n[i] = m[i]
    BY <1>1
  <2> HIDE DEF n
  <2>3. \A i \in 1 .. last + 1 : i \in 1 .. last \/ i = last + 1
    BY <1>1
  <2>4. 1 .. last \subseteq 1 .. last + 1 /\ last + 1 \in 1 .. last + 1
    BY <1>1
  <2>5. ASSUME NEW i \in 1 .. last PROVE m[i].end + 1 < r.start
    <3>1. last \in 1 .. last /\ last > 0
      BY <1>1
    <3>2. m[last].end + 1 < r.start
      BY <1>2, <1>6, <3>1, SMTT(30) DEF Meets
    <3>3. i # last => m[i].end + 1 < m[last].start
      BY <1>4, <3>1
    <3> QED
      BY <1>2, <3>1, <3>2, <3>3, SMTT(30)
  <2>6. ASSUME NEW i \in 1 .. last + 1, NEW j \in 1 .. last + 1, i < j
        PROVE  n[i].end + 1 < n[j].start
    <3>1. i \in 1 .. last
      BY <1>1, <2>6
    <3>2. CASE j \in 1 .. last
      BY <1>4, <2>2, <2>6, <3>1, <3>2
    <3>3. CASE j = last + 1
      BY <2>2, <2>5, <3>1, <3>3
    <3> QED
      BY <2>3, <3>2, <3>3
  <2>7. ASSUME NEW x \in Nat
        PROVE  (\E i \in 1 .. last + 1 : Within(x, n[i])) <=> (\E s \in S \union {r} : Within(x, s))
    <3>1. (\E i \in 1 .. last : Within(x, m[i])) <=> (\E s \in S : Within(x, s))
      BY DEF MergedOf
    <3>2. (\E i \in 1 .. last + 1 : Within(x, n[i])) <=> (\E i \in 1 .. last : Within(x, m[i])) \/ Within(x, r)
      <4> HIDE DEF last
      <4> QED
        BY <2>2, <2>3, <2>4
    <3> QED
      BY <3>1, <3>2
  <2>8. \A i \in 1 .. last + 1 : \E s \in S \union {r} : s.start = n[i].start
    BY <2>2, <2>3 DEF MergedOf
  <2> QED
    BY <2>1, <2>2, <2>6, <2>7, <2>8 DEF MergedOf
<1> QED
  BY <1>5, <1>6

\* There are finitely many ranges.
LEMMA SpansFinite == IsFiniteSet(Spans)
<1> DEFINE P == Addresses \X Addresses
           f == [p \in { q \in P : q[1] <= q[2] } |-> [start |-> p[1], end |-> p[2]]]
<1>1. IsFiniteSet(Addresses)
  BY BlockSizes, FS_Interval DEF Addresses
<1>2. IsFiniteSet(P)
  BY <1>1, FS_Product
<1>3. IsFiniteSet({ q \in P : q[1] <= q[2] })
  <2> HIDE DEF P
  <2> QED
    BY <1>2, FS_Subset
<1>4. f \in Surjection({ q \in P : q[1] <= q[2] }, Spans)
  <2>1. f \in [{ q \in P : q[1] <= q[2] } -> Spans]
    BY DEF Spans
  <2>2. ASSUME NEW r \in Spans PROVE \E p \in { q \in P : q[1] <= q[2] } : f[p] = r
    <3>1. r = [start |-> r.start, end |-> r.end] /\ r.start <= r.end
          /\ r.start \in Addresses /\ r.end \in Addresses
      BY SpanIs DEF Spans
    <3>2. <<r.start, r.end>> \in { q \in P : q[1] <= q[2] } /\ f[<<r.start, r.end>>] = r
      BY <3>1
    <3> QED
      BY <3>2
  <2> QED
    BY <2>1, <2>2 DEF Surjection
<1> HIDE DEF P, f
<1> QED
  BY <1>3, <1>4, FS_Surjection

\* Among some ranges there is one that begins last.
LEMMA LastIs ==
  ASSUME NEW S, S \subseteq Spans, S # {}
  PROVE  LastOf(S) \in S /\ \A s \in S : s.start <= LastOf(S).start
<1> DEFINE T == { Top - r.start : r \in S }
<1>1. \A r \in S : r.start \in Nat /\ r.start <= Top /\ Top \in Nat
  BY SpanIs
<1>2. PICK n \in T : \A m \in T : n <= m
  <2>1. T \subseteq Nat /\ T # {}
    BY <1>1
  <2> HIDE DEF T
  <2> QED
    BY <2>1, LeastNat
<1>3. PICK r \in S : n = Top - r.start
  BY <1>2
<1>4. ASSUME NEW s \in S PROVE s.start <= r.start
  <2>1. n <= Top - s.start
    BY <1>2
  <2> QED
    BY <1>1, <1>3, <2>1
<1> QED
  BY <1>3, <1>4 DEF LastOf

\* The fold that merges some ranges.
MergeEquation(g, ranges) ==
  g = [s \in SUBSET ranges |->
         IF s = {} THEN << >> ELSE Absorb(LastOf(s), g[s \ {LastOf(s)}])]

\* Joining a range to a sequence of ranges gives one again.
LEMMA AbsorbType ==
  ASSUME NEW r \in Spans, NEW m \in Seq(Spans)
  PROVE  Absorb(r, m) \in Seq(Spans)
<1> DEFINE last == Len(m)
<1>1. last \in Nat /\ \A i \in 1 .. last : m[i] \in Spans
  OBVIOUS
<1>2. CASE last > 0 /\ Meets(m[last], r)
  <2> DEFINE e == IF r.end > m[last].end THEN r.end ELSE m[last].end
             n == [m EXCEPT ![last].end = IF r.end > @ THEN r.end ELSE @]
  <2>1. last \in 1 .. last /\ m[last] \in Spans
    BY <1>1, <1>2
  <2>2. e \in Addresses /\ m[last].start <= e
    BY <2>1, SpanIs DEF Spans
  <2>3. n[last] = [start |-> m[last].start, end |-> e] /\ \A i \in 1 .. last : i # last => n[i] = m[i]
    <3>1. m[last] = [start |-> m[last].start, end |-> m[last].end]
      BY <2>1, SpanIs
    <3> QED
      BY <2>1, <3>1
  <2>4. n = [i \in 1 .. last |-> n[i]]
    OBVIOUS
  <2>5. Absorb(r, m) = n
    BY <1>2 DEF Absorb
  <2> HIDE DEF n, e
  <2>6. n[last] \in Spans
    BY <2>1, <2>2, <2>3 DEF Spans
  <2>7. \A i \in 1 .. last : n[i] \in Spans
    BY <1>1, <2>3, <2>6
  <2> QED
    BY <1>1, <2>4, <2>5, <2>7
<1>3. CASE ~(last > 0 /\ Meets(m[last], r))
  BY <1>3 DEF Absorb
<1> QED
  BY <1>2, <1>3

\* Merging gives the addresses of the ranges, in order and with gaps in between.
LEMMA MergedIs ==
  ASSUME NEW R, R \subseteq Spans
  PROVE  MergedOf(Merged(R), R)
<1> DEFINE A == Seq(Spans)
           pick == [s \in SUBSET R |-> LastOf(s)]
           step == [x \in R \X A |-> Absorb(x[1], x[2])]
           g == CHOOSE h : MergeEquation(h, R)
           T == { s \in SUBSET R : MergedOf(g[s], s) }
<1>1. IsFiniteSet(R)
  BY SpansFinite, FS_Subset
<1>2. Picks(pick, R)
  BY LastIs DEF Picks
<1>3. Merged(R) = g[R]
  BY Zenon DEF Merged, MapThenFoldSet, MergeEquation
<1>4. MergeEquation(g, R)
  <2>1. step \in [R \X A -> A]
    <3>1. \A r \in R : \A m \in A : Absorb(r, m) \in A
      BY AbsorbType
    <3> HIDE DEF A
    <3> QED
      BY <3>1
  <2>2. << >> \in A
    OBVIOUS
  <2>3. \A r \in R : \A m \in A : step[<<r, m>>] = Absorb(r, m)
    OBVIOUS
  <2>4. \A s \in SUBSET R : pick[s] = LastOf(s)
    OBVIOUS
  <2> HIDE DEF A, pick, step
  <2>5. PICK h \in [SUBSET R -> A] : Folds(h, R, pick, step, << >>)
    BY <1>1, <1>2, <2>1, <2>2, FoldExists
  <2>6. ASSUME NEW s \in SUBSET R
        PROVE  h[s] = IF s = {} THEN << >> ELSE Absorb(LastOf(s), h[s \ {LastOf(s)}])
    <3>1. s # {} => LastOf(s) \in R /\ s \ {LastOf(s)} \in SUBSET R
      BY LastIs
    <3>2. s # {} => step[<<LastOf(s), h[s \ {LastOf(s)}]>>] = Absorb(LastOf(s), h[s \ {LastOf(s)}])
      BY <2>3, <3>1
    <3> QED
      BY <2>4, <2>5, <3>2 DEF Folds
  <2>7. MergeEquation(h, R)
    BY <2>6 DEF MergeEquation
  <2> QED
    BY <2>7
<1> HIDE DEF g
<1>5. \A s \in SUBSET R : g[s] = IF s = {} THEN << >> ELSE Absorb(LastOf(s), g[s \ {LastOf(s)}])
  BY <1>4 DEF MergeEquation
<1>6. {} \in T
  <2>1. g[{}] = << >>
    BY <1>5
  <2>2. MergedOf(<< >>, {})
    BY DEF MergedOf
  <2> QED
    BY <2>1, <2>2
<1>7. ASSUME NEW s \in SUBSET R, s # {}, s \ {pick[s]} \in T PROVE s \in T
  <2> DEFINE r == LastOf(s)
             u == s \ {r}
  <2>1. r \in s /\ r \in Spans /\ (\A t \in s : t.start <= r.start) /\ pick[s] = r
    BY <1>7, LastIs
  <2>2. MergedOf(g[u], u)
    BY <1>7, <2>1
  <2>3. g[s] = Absorb(r, g[u])
    BY <1>5, <1>7
  <2>4. u \subseteq Spans /\ u \union {r} = s
    BY <2>1
  <2> HIDE DEF r, u
  <2>5. \A t \in u : t.start <= r.start
    BY <2>1 DEF u
  <2>6. MergedOf(Absorb(r, g[u]), u \union {r})
    BY <2>1, <2>2, <2>4, <2>5, AbsorbIs
  <2> QED
    BY <2>3, <2>4, <2>6
<1>8. R \in T
  <2> HIDE DEF T, pick
  <2> QED
    BY <1>1, <1>2, <1>6, <1>7, FoldInduction
<1> QED
  BY <1>3, <1>8

-----------------------------------------------------------------------------
(* The prefixes of the merged ranges.                                      *)

\* Prefixes in the order of their addresses, without an address in common, for
\* the ranges of m with an index in s, each the largest that fits into its range.
CutOf(out, m, s) ==
  /\ out \in Seq(Prefixes)
  /\ \A k \in 1 .. Len(out) : \E i \in s :
       /\ m[i].start <= out[k].addr /\ out[k].addr + BlockSize(out[k].len) <= m[i].end + 1
       /\ out[k].len = LargestLen(out[k].addr, m[i].end)
  /\ \A k, l \in 1 .. Len(out) : k < l => out[k].addr + BlockSize(out[k].len) <= out[l].addr
  /\ \A i \in s : \A x \in m[i].start .. m[i].end : \E k \in 1 .. Len(out) : Covers(out[k], x)

\* The prefixes of one more range, which lies beyond the others.
LEMMA CutRange ==
  ASSUME NEW R, NEW m, MergedOf(m, R), NEW i \in 1 .. Len(m),
         NEW s, s \subseteq 1 .. Len(m), \A j \in s : j < i,
         NEW out, CutOf(out, m, s)
  PROVE  CutOf(out \o rangeToCIDRs(m[i].start, m[i].end), m, s \union {i})
<1> DEFINE t == rangeToCIDRs(m[i].start, m[i].end)
           a == Len(out)
           b == Len(t)
           all == out \o t
<1>1. \A j \in 1 .. Len(m) : m[j] \in Spans
  BY DEF MergedOf
<1>2. \A j \in 1 .. Len(m) : /\ m[j].start \in Nat /\ m[j].end \in Nat /\ m[j].start <= m[j].end
                             /\ m[j].start \in Addresses /\ m[j].end \in Addresses
  BY <1>1, SpanIs DEF Spans
<1>3. Cuts(t, m[i].start, m[i].end)
  BY <1>2, RangeIsCut
<1> HIDE DEF t
<1>4. /\ out \in Seq(Prefixes) /\ t \in Seq(Prefixes) /\ a \in Nat /\ b \in Nat
      /\ all \in Seq(Prefixes) /\ Len(all) = a + b
      /\ \A k \in 1 .. a : all[k] = out[k] /\ out[k] \in Prefixes
      /\ \A k \in 1 .. b : all[a + k] = t[k] /\ t[k] \in Prefixes
  BY <1>3 DEF Cuts, CutOf
<1> HIDE DEF all, a, b
<1>5. ASSUME NEW k \in 1 .. a + b, k \notin 1 .. a
      PROVE  k - a \in 1 .. b /\ all[k] = t[k - a]
  <2>1. k - a \in 1 .. b /\ a + (k - a) = k
    BY <1>4, <1>5
  <2> QED
    BY <1>4, <2>1
<1>6. ASSUME NEW k \in 1 .. a
      PROVE  /\ out[k].addr \in Nat /\ BlockSize(out[k].len) \in Nat
             /\ out[k].addr + BlockSize(out[k].len) <= m[i].start
  <2>1. PICK j \in s : out[k].addr + BlockSize(out[k].len) <= m[j].end + 1
    BY DEF CutOf, a
  <2>2. m[j].end + 1 < m[i].start
    BY DEF MergedOf
  <2>3. out[k].addr \in Nat /\ BlockSize(out[k].len) \in Nat
    BY <1>4, PrefixIs, BlockSizes
  <2>4. m[j].end \in Nat /\ m[i].start \in Nat
    BY <1>2
  <2> QED
    BY <2>1, <2>2, <2>3, <2>4, SMTT(30)
<1>7. ASSUME NEW k \in 1 .. b
      PROVE  /\ m[i].start <= t[k].addr /\ t[k].addr + BlockSize(t[k].len) <= m[i].end + 1
             /\ t[k].len = LargestLen(t[k].addr, m[i].end) /\ t[k].addr \in Nat
  BY <1>3, <1>4, PrefixIs DEF Cuts, b
<1>8. ASSUME NEW k \in 1 .. a + b
      PROVE  \E j \in s \union {i} :
               /\ m[j].start <= all[k].addr /\ all[k].addr + BlockSize(all[k].len) <= m[j].end + 1
               /\ all[k].len = LargestLen(all[k].addr, m[j].end)
  <2>1. CASE k \in 1 .. a
    BY <1>4, <2>1, SMTT(30) DEF CutOf, a
  <2>2. CASE k \notin 1 .. a
    BY <1>5, <1>7, <2>2
  <2> QED
    BY <2>1, <2>2
<1>9. ASSUME NEW k \in 1 .. a + b, NEW l \in 1 .. a + b, k < l
      PROVE  all[k].addr + BlockSize(all[k].len) <= all[l].addr
  <2>1. CASE l \in 1 .. a
    <3>1. k \in 1 .. a
      BY <1>4, <1>9, <2>1
    <3> QED
      BY <1>4, <1>9, <2>1, <3>1 DEF CutOf, a
  <2>2. CASE l \notin 1 .. a /\ k \in 1 .. a
    <3>1. l - a \in 1 .. b /\ all[l] = t[l - a] /\ all[k] = out[k]
      BY <1>4, <1>5, <2>2
    <3> QED
      BY <1>2, <1>6, <1>7, <2>2, <3>1, SMTT(30)
  <2>3. CASE l \notin 1 .. a /\ k \notin 1 .. a
    <3>1. l - a \in 1 .. b /\ all[l] = t[l - a] /\ k - a \in 1 .. b /\ all[k] = t[k - a]
      BY <1>5, <2>3
    <3>2. k - a < l - a
      BY <1>4, <1>9
    <3> QED
      BY <1>3, <3>1, <3>2 DEF Cuts, b
  <2> QED
    BY <2>1, <2>2, <2>3
<1>10. ASSUME NEW j \in s \union {i}, NEW x \in m[j].start .. m[j].end
       PROVE  \E k \in 1 .. a + b : Covers(all[k], x)
  <2>1. CASE j \in s
    <3>1. PICK k \in 1 .. a : Covers(out[k], x)
      BY <2>1 DEF CutOf, a
    <3>2. k \in 1 .. a + b
      BY <1>4
    <3> QED
      BY <1>4, <3>1, <3>2
  <2>2. CASE j = i
    <3>1. PICK k \in 1 .. b : Covers(t[k], x)
      BY <1>3, <2>2 DEF Cuts, b
    <3>2. a + k \in 1 .. a + b
      BY <1>4
    <3> QED
      BY <1>4, <3>1, <3>2
  <2> QED
    BY <2>1, <2>2
<1>11. CutOf(all, m, s \union {i})
  BY <1>4, <1>8, <1>9, <1>10 DEF CutOf
<1> QED
  BY <1>11 DEF all, t

\* The largest of some naturals up to n.
LEMMA MaxIs ==
  ASSUME NEW n \in Nat, NEW s, s \subseteq 1 .. n, s # {}
  PROVE  Max(s) \in s /\ \A j \in s : j <= Max(s)
<1> DEFINE T == { n - j : j \in s }
<1>1. PICK k \in T : \A l \in T : k <= l
  <2>1. \A j \in s : n - j \in Nat
    OBVIOUS
  <2>2. T \subseteq Nat /\ T # {}
    BY <2>1
  <2> HIDE DEF T
  <2> QED
    BY <2>2, LeastNat
<1>2. PICK i \in s : k = n - i
  BY <1>1
<1>3. ASSUME NEW j \in s PROVE i >= j
  <2>1. n - i <= n - j /\ i \in Nat /\ j \in Nat
    BY <1>1, <1>2
  <2> QED
    BY <2>1
<1>4. Max(s) \in s /\ \A j \in s : Max(s) >= j
  BY <1>3 DEF Max
<1>5. \A j \in s : j \in Nat
  OBVIOUS
<1> QED
  BY <1>4, <1>5

\* The fold that strings the prefixes of the ranges together.
CutAllEquation(g, m) ==
  g = [s \in SUBSET DOMAIN m |->
         IF s = {} THEN << >>
         ELSE g[s \ {Max(s)}] \o rangeToCIDRs(m[Max(s)].start, m[Max(s)].end)]

\* The prefixes of some merged ranges are those of each, in their order.
LEMMA AllIsCut ==
  ASSUME NEW R, NEW m, MergedOf(m, R)
  PROVE  CutOf(allCIDRs(m), m, 1 .. Len(m))
<1> DEFINE A == Seq(Prefixes)
           D == 1 .. Len(m)
           cidrs(i) == rangeToCIDRs(m[i].start, m[i].end)
           pick == [s \in SUBSET D |-> Max(s)]
           step == [x \in D \X A |-> x[2] \o cidrs(x[1])]
           g == CHOOSE h : CutAllEquation(h, m)
           T == { s \in SUBSET D : CutOf(g[s], m, s) }
<1>1. IsFiniteSet(D) /\ DOMAIN m = D /\ Len(m) \in Nat
  BY FS_Interval DEF MergedOf
<1>2. \A s \in SUBSET D : s # {} => Max(s) \in s /\ \A j \in s : j <= Max(s)
  BY <1>1, MaxIs
<1>3. Picks(pick, D)
  <2> HIDE DEF D
  <2> QED
    BY <1>2 DEF Picks
<1>4. allCIDRs(m) = g[D]
  <2>1. allCIDRs(m) = g[DOMAIN m]
    BY Zenon DEF allCIDRs, MapThenFoldSet, CutAllEquation
  <2> QED
    BY <1>1, <2>1
<1>5. CutAllEquation(g, m)
  <2>1. \A i \in D : cidrs(i) \in A
    <3>1. \A i \in D : m[i] \in Spans
      BY DEF MergedOf
    <3>2. \A i \in D : m[i].start \in Addresses /\ m[i].end \in Addresses /\ m[i].start <= m[i].end
      BY <3>1, SpanIs DEF Spans
    <3> QED
      BY <3>2, RangeIsCut DEF Cuts
  <2>2. step \in [D \X A -> A]
    <3>1. \A i \in D : \A out \in A : out \o cidrs(i) \in A
      <4> HIDE DEF cidrs, D
      <4> QED
        BY <2>1
    <3> HIDE DEF A, cidrs, D
    <3> QED
      BY <3>1
  <2>3. << >> \in A
    OBVIOUS
  <2>4. \A i \in D : \A out \in A : step[<<i, out>>] = out \o cidrs(i)
    <3> HIDE DEF A, cidrs, D
    <3> QED
      OBVIOUS
  <2>5. \A s \in SUBSET D : pick[s] = Max(s)
    <3> HIDE DEF D
    <3> QED
      OBVIOUS
  <2> HIDE DEF A, D, pick, step, cidrs
  <2>6. PICK h \in [SUBSET D -> A] : Folds(h, D, pick, step, << >>)
    BY <1>1, <1>3, <2>2, <2>3, FoldExists
  <2>7. ASSUME NEW s \in SUBSET D
        PROVE  h[s] = IF s = {} THEN << >> ELSE h[s \ {Max(s)}] \o cidrs(Max(s))
    <3>1. s # {} => Max(s) \in D /\ s \ {Max(s)} \in SUBSET D
      BY <1>2
    <3>2. s # {} => step[<<Max(s), h[s \ {Max(s)}]>>] = h[s \ {Max(s)}] \o cidrs(Max(s))
      BY <2>4, <3>1
    <3> QED
      BY <2>5, <2>6, <3>2 DEF Folds
  <2>8. CutAllEquation(h, m)
    BY <1>1, <2>7 DEF CutAllEquation, cidrs
  <2> QED
    BY <2>8
<1> HIDE DEF g
<1>6. \A s \in SUBSET D : g[s] = IF s = {} THEN << >> ELSE g[s \ {Max(s)}] \o cidrs(Max(s))
  <2> HIDE DEF D
  <2> QED
    BY <1>1, <1>5 DEF CutAllEquation
<1>7. {} \in T
  <2>1. g[{}] = << >>
    BY <1>6
  <2>2. CutOf(<< >>, m, {})
    BY DEF CutOf
  <2> QED
    BY <2>1, <2>2
<1>8. ASSUME NEW s \in SUBSET D, s # {}, s \ {pick[s]} \in T PROVE s \in T
  <2> DEFINE i == Max(s)
             u == s \ {i}
  <2>1. i \in s /\ i \in 1 .. Len(m) /\ (\A j \in s : j <= i) /\ pick[s] = i
    BY <1>2, <1>8
  <2>2. CutOf(g[u], m, u)
    BY <1>8, <2>1
  <2>3. g[s] = g[u] \o rangeToCIDRs(m[i].start, m[i].end)
    BY <1>6, <1>8
  <2>4. u \subseteq 1 .. Len(m) /\ u \union {i} = s /\ i \notin u
    BY <2>1
  <2> HIDE DEF i, u
  <2>5. \A j \in u : j < i
    <3>1. \A j \in u : j \in s /\ j \in Nat /\ i \in Nat /\ j # i
      BY <2>1, <2>4
    <3> QED
      BY <2>1, <3>1
  <2>6. CutOf(g[u] \o rangeToCIDRs(m[i].start, m[i].end), m, u \union {i})
    BY <2>1, <2>2, <2>4, <2>5, CutRange
  <2> QED
    BY <2>3, <2>4, <2>6
<1>9. D \in T
  <2> HIDE DEF T, pick, D
  <2> QED
    BY <1>1, <1>3, <1>7, <1>8, FoldInduction
<1> QED
  BY <1>4, <1>9

\* One prefix twice as large would have been taken in place of two.
LEMMA NoSiblings ==
  ASSUME NEW R, NEW m, MergedOf(m, R), NEW out, CutOf(out, m, 1 .. Len(m)),
         NEW k \in 1 .. Len(out), NEW l \in 1 .. Len(out), k < l,
         out[k].len = out[l].len,
         Masked(out[k].addr, out[k].len - 1) = Masked(out[l].addr, out[l].len - 1)
  PROVE  FALSE
<1> DEFINE p == out[k]
           q == out[l]
           c == p.len - 1
           n == BlockSize(p.len)
<1>1. p \in Prefixes /\ q \in Prefixes /\ out \in Seq(Prefixes)
  BY DEF CutOf
<1>2. p.addr + n <= q.addr /\ q.len = p.len
  BY DEF CutOf
<1>3. /\ p.len \in Lens /\ p.addr \in Nat /\ p.addr % n = 0 /\ Base(p.addr, p.len) = p.addr
      /\ q.addr \in Nat /\ q.addr <= Top /\ q.addr % n = 0
  <2> HIDE DEF p, q
  <2> QED
    BY <1>1, <1>2, PrefixIs, BlockSizes DEF Addresses
<1>4. n \in Nat /\ n >= 1 /\ BlockSize(0) = Top + 1 /\ Top \in Nat
  BY <1>3, BlockSizes
<1>5. PICK i \in 1 .. Len(m) : /\ m[i].start <= p.addr /\ p.addr + n <= m[i].end + 1
                               /\ p.len = LargestLen(p.addr, m[i].end)
  BY DEF CutOf
<1>6. PICK j \in 1 .. Len(m) : m[j].start <= q.addr /\ q.addr + BlockSize(q.len) <= m[j].end + 1
  BY DEF CutOf
<1>7. Masked(p.addr, c) = Masked(q.addr, c)
  BY <1>2
<1> HIDE DEF p, q, n
<1>8. p.len # 0
  BY <1>2, <1>3, <1>4 DEF n
<1>9. c \in Lens /\ c < p.len /\ BlockSize(c) = 2 * n /\ c <= p.len
  <2>1. c \in Lens /\ c < p.len /\ c # AddrBits /\ c + 1 = p.len /\ c <= p.len
    BY <1>3, <1>8, AddressAssumption, SMTT(30) DEF Lens
  <2> HIDE DEF c
  <2> QED
    BY <2>1, BlockSizes DEF n
<1> HIDE DEF c
<1> DEFINE z == Base(p.addr, c)
<1>10. z = Base(q.addr, c)
  BY <1>7 DEF Masked, Base
<1>11. /\ z \in Nat /\ z <= p.addr /\ z % (2 * n) = 0
       /\ q.addr + n <= z + 2 * n
  <2>1. q.addr + BlockSize(q.len) <= Base(q.addr, c) + BlockSize(c)
    BY <1>2, <1>3, <1>9, Nesting DEF n
  <2>2. z \in Nat /\ z <= p.addr /\ z % BlockSize(c) = 0
    BY <1>3, <1>9, BaseIs
  <2> HIDE DEF z
  <2> QED
    BY <1>2, <1>9, <1>10, <2>1, <2>2 DEF n
<1> HIDE DEF z
<1>12. z % n = 0
  <2> DEFINE r == z % n
             s == z % (2 * n)
  <2>1. s = r \/ s = r + n
    BY <1>4, <1>11, Halving
  <2>2. r \in Nat /\ s = 0
    BY <1>4, <1>11, Remainder
  <2> HIDE DEF r, s
  <2>3. r = 0
    BY <1>4, <2>1, <2>2
  <2> QED
    BY <2>3 DEF r
<1>13. z <= p.addr /\ p.addr < z + n
  BY <1>2, <1>3, <1>4, <1>11, SMTT(30)
<1>14. p.addr = z
  BY <1>3, <1>11, <1>12, <1>13, BaseUnique DEF n
<1> DEFINE x == p.addr
           y == q.addr
<1>15. x \in Nat /\ y \in Nat /\ n \in Nat /\ n >= 1 /\ y = x + n
  <2>1. x \in Nat /\ y \in Nat
    BY <1>3
  <2>2. x + n <= y /\ y + n <= z + 2 * n /\ z = x
    BY <1>2, <1>11, <1>14
  <2> HIDE DEF x, y
  <2> QED
    BY <1>4, <2>1, <2>2
<1>16. \A h \in 1 .. Len(m) : /\ m[h] \in Spans /\ m[h].end \in Addresses
                              /\ m[h].end \in Nat /\ m[h].start \in Nat
  <2>1. \A h \in 1 .. Len(m) : m[h] \in Spans
    BY DEF MergedOf
  <2> QED
    BY <2>1, SpanIs DEF Spans
<1>17. ~(x + 2 * n <= m[i].end + 1)
  <2>1. p.addr \in Addresses /\ m[i].end \in Addresses
    BY <1>1, <1>16, PrefixIs
  <2>2. p.addr <= m[i].end
    BY <1>5, <1>15, <1>16
  <2>3. p.addr % BlockSize(c) = 0
    BY <1>9, <1>11, <1>14
  <2>4. x + 2 * n <= m[i].end + 1 => LargestLen(p.addr, m[i].end) <= c
    BY <1>9, <2>1, <2>2, <2>3, LargestLenIs
  <2>5. c \in Nat /\ p.len \in Nat
    BY <1>3, <1>9 DEF Lens
  <2> QED
    BY <1>5, <1>9, <2>4, <2>5
<1>18. /\ m[i].start <= x /\ x + n <= m[i].end + 1
       /\ m[j].start <= y /\ y + n <= m[j].end + 1
  BY <1>2, <1>5, <1>6 DEF n
<1> HIDE DEF x, y
<1>19. CASE i = j
  BY <1>15, <1>16, <1>17, <1>18, <1>19
<1>20. CASE i < j
  <2>1. m[i].end + 1 < m[j].start
    BY <1>20 DEF MergedOf
  <2> QED
    BY <1>15, <1>16, <1>18, <2>1, SMTT(30)
<1>21. CASE j < i
  <2>1. m[j].end + 1 < m[i].start
    BY <1>21 DEF MergedOf
  <2> QED
    BY <1>15, <1>16, <1>18, <2>1, SMTT(30)
<1> QED
  BY <1>19, <1>20, <1>21

Rows(cidrs) == { cidrs[i] : i \in DOMAIN cidrs }

Reached(cidrs) == UNION { Block(p) : p \in Rows(cidrs) }

\* Prefixes in the order of their addresses, none reaching into the next.
InOrder(cidrs) ==
  \A i, j \in DOMAIN cidrs : i < j => cidrs[i].addr + BlockSize(cidrs[i].len) <= cidrs[j].addr

\* Resolution gives prefixes in order, in the fewest prefixes, for the addresses
\* of the records that match.
LEMMA ResolveIs ==
  ASSUME NEW db, db \subseteq Entries, NEW sel
  PROVE  LET cidrs == Resolve(db, sel) IN
         /\ cidrs \in Seq(Prefixes)
         /\ InOrder(cidrs)
         /\ Reached(cidrs) = { a \in Addresses : \E e \in candidates(db, sel) : Within(a, e) }
         /\ Minimal(Rows(cidrs))
<1> DEFINE R == { [start |-> e.start, end |-> e.end] : e \in candidates(db, sel) }
           m == Merged(R)
           out == Resolve(db, sel)
<1>1. R \subseteq Spans
  BY DEF candidates, Entries, Lines, Spans
<1>2. out = allCIDRs(m)
  BY DEF Resolve
<1>3. \A a : (\E r \in R : Within(a, r)) <=> (\E e \in candidates(db, sel) : Within(a, e))
  <2>1. \A e : [start |-> e.start, end |-> e.end].start = e.start
               /\ [start |-> e.start, end |-> e.end].end = e.end
    OBVIOUS
  <2>2. \A r \in R : \E e \in candidates(db, sel) : r.start = e.start /\ r.end = e.end
    BY <2>1
  <2>3. \A e \in candidates(db, sel) : \E r \in R : r.start = e.start /\ r.end = e.end
    BY <2>1
  <2> HIDE DEF R
  <2> QED
    BY <2>2, <2>3 DEF Within
<1> HIDE DEF R, m, out
<1>4. MergedOf(m, R)
  BY <1>1, MergedIs DEF m
<1>5. CutOf(out, m, 1 .. Len(m))
  BY <1>2, <1>4, AllIsCut
<1>6. /\ out \in Seq(Prefixes) /\ DOMAIN out = 1 .. Len(out) /\ Len(out) \in Nat
      /\ \A k \in 1 .. Len(out) : out[k] \in Prefixes
  BY <1>5 DEF CutOf
<1>7. InOrder(out)
  BY <1>5, <1>6 DEF CutOf, InOrder
<1>8. ASSUME NEW a \in Addresses
      PROVE  (\E k \in 1 .. Len(out) : Covers(out[k], a)) <=> (\E i \in 1 .. Len(m) : Within(a, m[i]))
  <2>1. a \in Nat /\ \A i \in 1 .. Len(m) : m[i].start \in Nat /\ m[i].end \in Nat
    <3>1. \A i \in 1 .. Len(m) : m[i] \in Spans
      BY <1>4 DEF MergedOf
    <3> QED
      BY <3>1, SpanIs, BlockSizes DEF Addresses
  <2>2. ASSUME NEW k \in 1 .. Len(out), Covers(out[k], a)
        PROVE  \E i \in 1 .. Len(m) : Within(a, m[i])
    <3>1. PICK i \in 1 .. Len(m) : /\ m[i].start <= out[k].addr
                                   /\ out[k].addr + BlockSize(out[k].len) <= m[i].end + 1
      BY <1>5 DEF CutOf
    <3>2. out[k].addr <= a /\ a < out[k].addr + BlockSize(out[k].len)
      BY <1>6, <2>1, <2>2, CoversIs
    <3>3. out[k].addr \in Nat /\ BlockSize(out[k].len) \in Nat
      BY <1>6, PrefixIs, BlockSizes
    <3> QED
      BY <2>1, <3>1, <3>2, <3>3, SMTT(30) DEF Within
  <2>3. ASSUME NEW i \in 1 .. Len(m), Within(a, m[i])
        PROVE  \E k \in 1 .. Len(out) : Covers(out[k], a)
    <3>1. a \in m[i].start .. m[i].end
      BY <2>1, <2>3 DEF Within
    <3> QED
      BY <1>5, <3>1 DEF CutOf
  <2> QED
    BY <2>2, <2>3
<1>9. Reached(out) = { a \in Addresses : \E e \in candidates(db, sel) : Within(a, e) }
  <2>1. \A a : a \in Reached(out) <=> a \in Addresses /\ \E k \in 1 .. Len(out) : Covers(out[k], a)
    BY <1>6 DEF Reached, Rows, Block
  <2>2. \A a \in Addresses : (\E i \in 1 .. Len(m) : Within(a, m[i])) <=> (\E r \in R : Within(a, r))
    BY <1>4, BlockSizes DEF MergedOf, Addresses
  <2>3. \A a : a \in Reached(out) <=> a \in Addresses /\ \E e \in candidates(db, sel) : Within(a, e)
    BY <1>3, <1>8, <2>1, <2>2
  <2> QED
    BY <2>3
<1>10. Minimal(Rows(out))
  <2>1. ASSUME NEW k \in 1 .. Len(out), NEW l \in 1 .. Len(out), k < l
        PROVE  ~Overlaps(out[k], out[l]) /\ ~Overlaps(out[l], out[k])
    <3>1. ASSUME NEW a \in Addresses, Covers(out[k], a), Covers(out[l], a) PROVE FALSE
      <4>1. a \in Nat
        BY BlockSizes DEF Addresses
      <4>2. a < out[k].addr + BlockSize(out[k].len) /\ out[l].addr <= a
        BY <1>6, <3>1, <4>1, CoversIs
      <4>3. out[k].addr + BlockSize(out[k].len) <= out[l].addr
        BY <1>6, <1>7, <2>1 DEF InOrder
      <4>4. out[k].addr \in Nat /\ BlockSize(out[k].len) \in Nat /\ out[l].addr \in Nat
        BY <1>6, PrefixIs, BlockSizes
      <4> QED
        BY <4>1, <4>2, <4>3, <4>4
    <3> QED
      BY <1>6, <3>1, OverlapIsShared
  <2>2. ASSUME NEW p \in Rows(out), NEW q \in Rows(out), p # q
        PROVE  /\ ~Overlaps(p, q)
               /\ ~(p.len = q.len /\ Masked(p.addr, p.len - 1) = Masked(q.addr, q.len - 1))
    <3>1. PICK k \in 1 .. Len(out) : p = out[k]
      BY <1>6 DEF Rows
    <3>2. PICK l \in 1 .. Len(out) : q = out[l]
      BY <1>6 DEF Rows
    <3>3. k < l \/ l < k
      BY <1>6, <2>2, <3>1, <3>2
    <3>4. ~Overlaps(p, q)
      BY <2>1, <3>1, <3>2, <3>3
    <3>5. ASSUME p.len = q.len /\ Masked(p.addr, p.len - 1) = Masked(q.addr, q.len - 1)
          PROVE  FALSE
      <4>1. CASE k < l
        BY <1>4, <1>5, <3>1, <3>2, <3>5, <4>1, NoSiblings
      <4>2. CASE l < k
        BY <1>4, <1>5, <3>1, <3>2, <3>5, <4>2, NoSiblings
      <4> QED
        BY <3>3, <4>1, <4>2
    <3> QED
      BY <3>4, <3>5
  <2> QED
    BY <2>2 DEF Minimal
<1> QED
  BY <1>6, <1>7, <1>9, <1>10 DEF out

-----------------------------------------------------------------------------
(* What a library says about an address.                                   *)

\* The end of a registry's record: past the last address it comes round to before
\* the start.
LEMMA DelegatedEndIs ==
  ASSUME NEW d \in Delegations, d.count # 0
  PROVE  /\ DelegatedEnd(d) \in Addresses
         /\ DelegatedEnd(d) >= d.start <=> d.start + d.count - 1 <= Top
         /\ d.start + d.count - 1 <= Top => DelegatedEnd(d) = d.start + d.count - 1
<1> DEFINE m == Top + 1
           s == d.start + d.count - 1
           r == s % m
<1>1. /\ Top \in Nat /\ m \in Nat /\ m >= 1 /\ m = Top + 1
      /\ d.start \in Nat /\ d.start <= Top /\ s \in Nat
      /\ d.start <= s /\ s - d.start < m /\ s < m + d.start
  BY BlockSizes DEF Delegations, Addresses
<1>2. DelegatedEnd(d) = r
  BY DEF DelegatedEnd
<1> HIDE DEF s, m
<1>3. r \in 0 .. m - 1 /\ \E q \in Nat : s = m * q + r
  BY <1>1, Remainder
<1>4. PICK q \in Nat : s = m * q + r
  BY <1>3
<1> HIDE DEF r
<1>5. r \in Addresses
  BY <1>1, <1>3 DEF Addresses
<1>6. CASE s <= Top
  <2>1. m * q + r = m * 0 + s /\ s \in 0 .. m - 1 /\ 0 \in Nat
    BY <1>1, <1>4, <1>6
  <2>2. r = s
    BY <1>1, <1>3, <2>1, RemainderUnique
  <2> QED
    BY <1>1, <1>2, <1>5, <1>6, <2>2 DEF s
<1>7. CASE ~(s <= Top)
  <2> DEFINE t == s - m
  <2>1. t \in 0 .. m - 1 /\ t < d.start /\ m * 1 + t = s /\ 1 \in Nat
    BY <1>1, <1>7
  <2> HIDE DEF t
  <2>2. r = t
    BY <1>1, <1>3, <1>4, <2>1, RemainderUnique
  <2>3. ~(r >= d.start)
    BY <1>1, <2>1, <2>2
  <2> QED
    BY <1>2, <1>5, <1>7, <2>3 DEF s
<1> QED
  BY <1>6, <1>7

Given(ds) ==
  { [start |-> d.start, end |-> d.start + d.count - 1, country |-> d.country, asn |-> NoASN] :
      d \in { x \in ds : x.start + x.count - 1 <= Top } }

Holding(rules, a) == { o \in rules : Within(a, o) }

\* The records of a library are well formed, and those that hold an address are
\* the lines and the registry's records that do not run past the last address.
LEMMA LoadIs ==
  ASSUME NEW lib \in LibraryRecords
  PROVE  LET load == Load(lib.lines \union Delegated(lib.delegations)) IN
         /\ load \subseteq Entries
         /\ \A a \in Nat : \A e : Within(a, e) =>
              (e \in load <=> e \in lib.lines \union Given(lib.delegations))
<1> DEFINE ds == lib.delegations
           rec(d, end) == [start |-> d.start, end |-> end, country |-> d.country, asn |-> NoASN]
           load == Load(lib.lines \union Delegated(ds))
<1>1. lib.lines \subseteq Lines /\ ds \subseteq Delegations
  BY DEF LibraryRecords
<1>2. ASSUME NEW e \in Delegated(ds)
      PROVE  \E d \in ds : /\ d.count # 0 /\ d.start + d.count - 1 <= Top
                           /\ e = rec(d, d.start + d.count - 1) /\ e \in Entries
  <2>1. PICK d \in ds : d.count # 0 /\ DelegatedEnd(d) >= d.start /\ e = rec(d, DelegatedEnd(d))
    BY DEF Delegated
  <2>2. d \in Delegations
    BY <1>1
  <2>3. /\ DelegatedEnd(d) \in Addresses /\ d.start + d.count - 1 <= Top
        /\ DelegatedEnd(d) = d.start + d.count - 1
    BY <2>1, <2>2, DelegatedEndIs
  <2>4. d.start \in Addresses /\ d.country \in Countries
    BY <2>2 DEF Delegations
  <2>5. e.start = d.start /\ e.end = DelegatedEnd(d) /\ e \in Lines
    BY <2>1, <2>3, <2>4 DEF Lines
  <2>6. d.start \in Nat /\ DelegatedEnd(d) \in Nat
    BY <2>3, <2>4, BlockSizes DEF Addresses
  <2>7. e \in Entries
    BY <2>1, <2>5, <2>6 DEF Entries
  <2> QED
    BY <2>1, <2>3, <2>7
<1>3. ASSUME NEW d \in ds, d.start + d.count - 1 <= Top, d.count # 0
      PROVE  rec(d, d.start + d.count - 1) \in Delegated(ds)
  <2>1. d \in Delegations
    BY <1>1
  <2>2. DelegatedEnd(d) = d.start + d.count - 1 /\ DelegatedEnd(d) >= d.start
    BY <1>3, <2>1, DelegatedEndIs
  <2> QED
    BY <1>3, <2>2 DEF Delegated
<1>4. \A e \in Lines : e.start \in Nat /\ e.end \in Nat
  BY BlockSizes DEF Lines, Addresses
<1>5. \A e \in Delegated(ds) : e \in Entries /\ e \in Given(ds)
  BY <1>2 DEF Given
<1>6. load \subseteq Entries
  <2>1. \A e \in lib.lines : e.end >= e.start => e \in Entries
    BY <1>1, <1>4 DEF Entries
  <2> QED
    BY <1>5, <2>1 DEF Load
<1>7. ASSUME NEW a \in Nat, NEW e, Within(a, e)
      PROVE  e \in load <=> e \in lib.lines \union Given(ds)
  <2>1. e \in load => e \in lib.lines \union Given(ds)
    BY <1>5 DEF Load
  <2>2. ASSUME e \in lib.lines PROVE e \in load
    <3>1. e.start \in Nat /\ e.end \in Nat
      BY <1>1, <1>4, <2>2
    <3>2. e.end >= e.start
      BY <1>7, <3>1 DEF Within
    <3> QED
      BY <2>2, <3>2 DEF Load
  <2>3. ASSUME e \in Given(ds) PROVE e \in load
    <3>1. PICK d \in ds : d.start + d.count - 1 <= Top /\ e = rec(d, d.start + d.count - 1)
      BY <2>3 DEF Given
    <3>2. d.start \in Nat /\ d.count \in Nat
      BY <1>1, BlockSizes DEF Delegations, Addresses
    <3>3. e.start = d.start /\ e.end = d.start + d.count - 1
      BY <3>1
    <3>4. d.count # 0
      BY <1>7, <3>2, <3>3 DEF Within
    <3>5. e \in Delegated(ds)
      BY <1>3, <3>1, <3>4
    <3>6. e.end >= e.start
      BY <3>2, <3>3, <3>4
    <3> QED
      BY <3>5, <3>6 DEF Load
  <2> QED
    BY <2>1, <2>2, <2>3
<1> QED
  BY <1>6, <1>7

\* The records of the database that hold an address: the rules where there is one,
\* and elsewhere the records that no rule touches.
LEMMA DatabaseIs ==
  ASSUME NEW lib \in LibraryRecords
  PROVE  /\ Database(lib) \subseteq Entries
         /\ \A sel : { a \in Addresses : \E e \in candidates(Database(lib), sel) : Within(a, e) }
                       = Belongs(lib, sel)
<1> DEFINE load == Load(lib.lines \union Delegated(lib.delegations))
           rules == lib.rules
           records == lib.lines \union Given(lib.delegations)
           touched(e) == \E b \in Addresses : Within(b, e) /\ Holding(rules, b) # {}
<1>1. rules \subseteq Entries /\ load \subseteq Entries
  BY LoadIs DEF LibraryRecords
<1>2. Database(lib) = { e \in load : ~overlapsAny(e, rules) } \union rules
  BY DEF Database, applyOverrides
<1>3. \A a \in Nat : \A e : Within(a, e) => (e \in load <=> e \in records)
  BY LoadIs
<1> HIDE DEF load, records, rules
<1>4. \A e \in Entries : /\ e.start \in Nat /\ e.end \in Nat /\ e.start <= e.end
                         /\ e.start \in Addresses /\ e.end \in Addresses
  BY BlockSizes DEF Entries, Lines, Addresses
<1>5. \A a \in Addresses : a \in Nat
  BY BlockSizes DEF Addresses
<1>6. ASSUME NEW e \in Entries PROVE overlapsAny(e, rules) <=> touched(e)
  <2>1. ASSUME NEW o \in rules, e.start <= o.end, o.start <= e.end PROVE touched(e)
    <3> DEFINE b == IF e.start <= o.start THEN o.start ELSE e.start
    <3>1. b \in Addresses /\ Within(b, e) /\ Within(b, o)
      BY <1>1, <1>4, <2>1 DEF Within
    <3> QED
      BY <3>1 DEF Holding
  <2>2. ASSUME touched(e) PROVE overlapsAny(e, rules)
    <3>1. PICK b \in Addresses : Within(b, e) /\ Holding(rules, b) # {}
      BY <2>2
    <3>2. PICK o \in rules : Within(b, o)
      BY <3>1 DEF Holding
    <3>3. e.start <= o.end /\ o.start <= e.end
      BY <1>1, <1>4, <1>5, <3>1, <3>2 DEF Within
    <3> QED
      BY <3>3 DEF overlapsAny
  <2> QED
    BY <2>1, <2>2 DEF overlapsAny
<1> HIDE DEF touched
<1>7. ASSUME NEW sel, NEW a \in Addresses
      PROVE  (\E e \in candidates(Database(lib), sel) : Within(a, e)) <=>
             IF Holding(rules, a) # {} THEN \E o \in Holding(rules, a) : Matches(o, sel)
             ELSE \E e \in records : Within(a, e) /\ Matches(e, sel) /\ ~touched(e)
  <2>1. (\E e \in candidates(Database(lib), sel) : Within(a, e)) <=>
        \/ \E o \in Holding(rules, a) : Matches(o, sel)
        \/ \E e \in load : ~overlapsAny(e, rules) /\ Matches(e, sel) /\ Within(a, e)
    BY <1>2 DEF candidates, Holding
  <2>2. ASSUME Holding(rules, a) # {}, NEW e \in load, Within(a, e) PROVE overlapsAny(e, rules)
    <3>1. touched(e)
      BY <2>2 DEF touched
    <3> QED
      BY <1>1, <1>6, <3>1
  <2>3. ASSUME NEW e, Within(a, e)
        PROVE  (e \in load /\ ~overlapsAny(e, rules)) <=> (e \in records /\ ~touched(e))
    BY <1>1, <1>3, <1>5, <1>6, <2>3
  <2> QED
    BY <2>1, <2>2, <2>3
<1>8. ASSUME NEW sel
      PROVE  Belongs(lib, sel) =
               { a \in Addresses :
                   IF Holding(rules, a) # {} THEN \E o \in Holding(rules, a) : Matches(o, sel)
                   ELSE \E e \in records : Within(a, e) /\ Matches(e, sel) /\ ~touched(e) }
  BY DEF Belongs, Holding, Within, records, touched, Given, rules
<1>9. Database(lib) \subseteq Entries
  BY <1>1, <1>2
<1> QED
  BY <1>7, <1>8, <1>9

-----------------------------------------------------------------------------
(* Counting.                                                               *)

First(s) == CHOOSE x \in s : TRUE

\* The fold that adds the terms of f up.
SumEquation(g, f) ==
  g = [s \in SUBSET DOMAIN f |-> IF s = {} THEN 0 ELSE f[First(s)] + g[s \ {First(s)}]]

\* The number of addresses is at most the sum of the sizes of the blocks.
LEMMA ReachCounted ==
  ASSUME NEW cidrs \in Seq(Prefixes)
  PROVE  AddressCount(cidrs) \in Nat /\ Cardinality(Reached(cidrs)) <= AddressCount(cidrs)
<1> DEFINE D == DOMAIN cidrs
           f == [i \in D |-> BlockSize(cidrs[i].len)]
           pick == [s \in SUBSET D |-> First(s)]
           step == [x \in D \X Nat |-> f[x[1]] + x[2]]
           g == CHOOSE h : SumEquation(h, f)
           part(s) == UNION { Block(cidrs[i]) : i \in s }
           T == { s \in SUBSET D : IsFiniteSet(part(s)) /\ g[s] \in Nat /\ Cardinality(part(s)) <= g[s] }
<1>1. IsFiniteSet(D) /\ \A i \in D : cidrs[i] \in Prefixes
  BY FS_Interval
<1>2. Picks(pick, D)
  BY DEF Picks, First
<1>3. AddressCount(cidrs) = g[D]
  <2>1. SumFunction(f) = g[DOMAIN f]
    <3> HIDE DEF f
    <3> QED
      BY Zenon DEF SumFunction, SumFunctionOnSet, FoldFunctionOnSet, MapThenFoldSet, SumEquation, First
  <2> QED
    BY <2>1 DEF AddressCount
<1>4. \A i \in D : f[i] \in Nat /\ f[i] = BlockSize(cidrs[i].len)
  BY <1>1, PrefixIs, BlockSizes
<1>5. DOMAIN f = D
  OBVIOUS
<1> HIDE DEF f, D
<1>6. SumEquation(g, f)
  <2>1. step \in [D \X Nat -> Nat]
    BY <1>4
  <2>2. \A i \in D : \A n \in Nat : step[<<i, n>>] = f[i] + n
    OBVIOUS
  <2>3. \A s \in SUBSET D : pick[s] = First(s)
    OBVIOUS
  <2> HIDE DEF pick, step
  <2>4. PICK h \in [SUBSET D -> Nat] : Folds(h, D, pick, step, 0)
    BY <1>1, <1>2, <2>1, FoldExists
  <2>5. ASSUME NEW s \in SUBSET D
        PROVE  h[s] = IF s = {} THEN 0 ELSE f[First(s)] + h[s \ {First(s)}]
    <3>1. s # {} => First(s) \in D /\ s \ {First(s)} \in SUBSET D
      BY <1>2, <2>3 DEF Picks
    <3>2. s # {} => step[<<First(s), h[s \ {First(s)}]>>] = f[First(s)] + h[s \ {First(s)}]
      BY <2>2, <3>1
    <3> QED
      BY <2>3, <2>4, <3>2 DEF Folds
  <2>6. SumEquation(h, f)
    BY <1>5, <2>5 DEF SumEquation
  <2> QED
    BY <2>6
<1> HIDE DEF g
<1>7. \A s \in SUBSET D : g[s] = IF s = {} THEN 0 ELSE f[First(s)] + g[s \ {First(s)}]
  BY <1>5, <1>6 DEF SumEquation
<1>8. {} \in T
  <2>1. part({}) = {} /\ g[{}] = 0
    BY <1>7
  <2>2. IsFiniteSet(part({})) /\ Cardinality(part({})) = 0
    BY <2>1, FS_EmptySet
  <2> HIDE DEF part
  <2> QED
    BY <2>1, <2>2
<1>9. ASSUME NEW s \in SUBSET D, s # {}, s \ {pick[s]} \in T PROVE s \in T
  <2> DEFINE i == First(s)
             u == s \ {i}
             b == Block(cidrs[i])
  <2>1. i \in s /\ i \in D /\ pick[s] = i
    BY <1>9 DEF First
  <2>2. IsFiniteSet(part(u)) /\ g[u] \in Nat /\ Cardinality(part(u)) <= g[u]
    BY <1>9, <2>1
  <2>3. IsFiniteSet(b) /\ Cardinality(b) = f[i] /\ f[i] \in Nat
    BY <1>1, <1>4, <2>1, BlockIs
  <2>4. part(s) = part(u) \union b
    BY <2>1
  <2>5. g[s] = f[i] + g[u]
    BY <1>7, <1>9
  <2> HIDE DEF part, i, u, b
  <2> DEFINE p == part(u)
  <2> HIDE DEF p
  <2>6. /\ IsFiniteSet(p \union b) /\ IsFiniteSet(p \cap b)
        /\ Cardinality(p \union b) = Cardinality(p) + Cardinality(b) - Cardinality(p \cap b)
    BY <2>2, <2>3, FS_Union, FS_Intersection DEF p
  <2>7. Cardinality(p) \in Nat /\ Cardinality(p \cap b) \in Nat /\ Cardinality(p \union b) \in Nat
    BY <2>2, <2>6, FS_CardinalityType DEF p
  <2>8. Cardinality(p \union b) <= g[s] /\ g[s] \in Nat
    BY <2>2, <2>3, <2>5, <2>6, <2>7 DEF p
  <2> QED
    BY <2>4, <2>6, <2>8 DEF p
<1>10. D \in T
  <2>1. \A s \in SUBSET D : s # {} /\ s \ {pick[s]} \in T => s \in T
    BY <1>9
  <2> HIDE DEF D, T, pick
  <2>2. IsFiniteSet(D) /\ Picks(pick, D)
    BY <1>1, <1>2
  <2>3. \A s \in SUBSET D : s \in T
    BY <1>8, <2>1, <2>2, FoldInduction
  <2>4. D \in SUBSET D
    OBVIOUS
  <2> QED
    BY <2>3, <2>4
<1>11. part(D) = Reached(cidrs)
  BY DEF Reached, Rows, D
<1> QED
  BY <1>3, <1>10, <1>11

\* Prefixes in order are as many as their sequence is long.
LEMMA RowsCounted ==
  ASSUME NEW cidrs \in Seq(Prefixes), InOrder(cidrs)
  PROVE  IsFiniteSet(Rows(cidrs)) /\ Cardinality(Rows(cidrs)) = Len(cidrs)
<1> DEFINE D == 1 .. Len(cidrs)
           f == [i \in D |-> cidrs[i]]
<1>1. IsFiniteSet(D) /\ Cardinality(D) = Len(cidrs) /\ DOMAIN cidrs = D /\ Len(cidrs) \in Nat
  <2> DEFINE n == Len(cidrs)
  <2>1. n \in Nat /\ 1 \in Int /\ n \in Int /\ DOMAIN cidrs = D
    OBVIOUS
  <2> HIDE DEF n
  <2>2. IsFiniteSet(1 .. n) /\ Cardinality(1 .. n) = IF 1 > n THEN 0 ELSE n - 1 + 1
    BY <2>1, FS_Interval
  <2>3. Cardinality(1 .. n) = n
    BY <2>1, <2>2
  <2> QED
    BY <2>1, <2>2, <2>3 DEF n
<1>2. \A i \in D : /\ cidrs[i].addr \in Nat
                   /\ BlockSize(cidrs[i].len) \in Nat /\ BlockSize(cidrs[i].len) >= 1
  BY PrefixIs, BlockSizes
<1>3. ASSUME NEW i \in D, NEW j \in D, i < j PROVE cidrs[i] # cidrs[j]
  <2>1. cidrs[i].addr + BlockSize(cidrs[i].len) <= cidrs[j].addr
    BY <1>3 DEF InOrder
  <2>2. cidrs[i].addr # cidrs[j].addr
    BY <1>2, <2>1
  <2> QED
    BY <2>2
<1>4. f \in Bijection(D, Rows(cidrs))
  <2>1. f \in [D -> Rows(cidrs)]
    BY <1>1 DEF Rows
  <2>2. \A x \in Rows(cidrs) : \E i \in D : f[i] = x
    BY <1>1 DEF Rows
  <2>3. ASSUME NEW i \in D, NEW j \in D, i # j PROVE f[i] # f[j]
    <3>1. i < j \/ j < i
      BY <2>3
    <3> QED
      BY <1>3, <3>1
  <2> HIDE DEF D, f
  <2> QED
    BY <2>1, <2>2, <2>3 DEF Bijection, Injection, Surjection, IsInjective
<1>5. ExistsBijection(D, Rows(cidrs))
  BY <1>4 DEF ExistsBijection
<1> HIDE DEF D
<1> QED
  BY <1>1, <1>5, FS_Bijection

-----------------------------------------------------------------------------
(* The inductive invariant.                                                *)

\* The prefixes of a selector in a library.
Resolved(lib, sel) == Resolve(Database(lib), sel)

\* What a submission has established, in the library it was made with.
Confirmed(r) ==
  LET cidrs == Resolved(r.seen.library, r.sel) IN
  /\ Len(cidrs) <= PerRuleMax
  /\ RequiresOverride(cidrs) => r.share
  /\ \A a \in r.seen.operators : \A i \in DOMAIN cidrs : Covers(cidrs[i], a) => r.self

\* What the veto looked at, as far as it was protected all the time.
Kept(r) == HardCoded \union (IF r.guarded.read THEN r.guarded.throughout ELSE {})

\* What a dispatch has written: all rows or the first ones.
Written(r) ==
  LET cidrs == Resolved(r.guarded.library, r.sel) IN
  /\ r.rows \subseteq Rows(cidrs)
  /\ r.sent => r.rows = Rows(cidrs)
  /\ r.global /\ r.rows # {} => AssertSafeAll(cidrs, Kept(r))

\* What holds of the record of a ban, whatever the rest of the state.
RecordOK(r) ==
  /\ r.state # "none" => Confirmed(r)
  /\ Written(r)
  /\ r.state \in {"none", "pending"} => ~r.sent /\ r.rows = {}

\* What the handler carries of the ban r it is at: what r was resolved to, a guard
\* that has all that stayed protected, and the number of the rows of r.
Carries(r) ==
  /\ ~r.sent /\ r.state \notin {"none", "pending"}
  /\ r.guarded.throughout \subseteq protected
  /\ hand.step # "dispatch" => r.rows = {} /\ hand.done = 0
  /\ hand.step \in {"guard", "dispatch"} => hand.cidrs = Resolved(r.guarded.library, r.sel)
  /\ hand.step = "dispatch" =>
       /\ r.rows = { hand.cidrs[i] : i \in 1 .. hand.done }
       /\ hand.done <= Len(hand.cidrs)
       /\ Kept(r) \subseteq hand.shields

\* It has one ban at most.
HandOK ==
  /\ \A b, c \in hand.ban : b = c
  /\ \A b \in hand.ban : Carries(bans[b])

RangeInv ==
  /\ RangeTypeOK
  /\ \A b \in Bans : RecordOK(bans[b])
  /\ HandOK

\* For every library and selector, Resolve gives exactly the addresses that belong
\* to the selector, in order and in the fewest prefixes, none twice, and Preview
\* does not count too few of them.
THEOREM ResolutionIsExact ==
  ASSUME NEW lib \in Libraries, NEW sel
  PROVE  LET cidrs == Resolved(lib, sel) IN
         /\ cidrs \in Seq(Prefixes) /\ InOrder(cidrs) /\ Minimal(Rows(cidrs))
         /\ Reached(cidrs) = Belongs(lib, sel)
         /\ IsFiniteSet(Rows(cidrs)) /\ Cardinality(Rows(cidrs)) = Len(cidrs)
         /\ AddressCount(cidrs) \in Nat /\ Cardinality(Reached(cidrs)) <= AddressCount(cidrs)
         /\ Database(lib) \subseteq Entries
<1>1. lib \in LibraryRecords
  BY RangeBansAssumption DEF Libraries
<1> DEFINE cidrs == Resolved(lib, sel)
<1>2. /\ Database(lib) \subseteq Entries
      /\ { a \in Addresses : \E e \in candidates(Database(lib), sel) : Within(a, e) } = Belongs(lib, sel)
  BY <1>1, DatabaseIs
<1>3. /\ cidrs \in Seq(Prefixes) /\ InOrder(cidrs) /\ Minimal(Rows(cidrs))
      /\ Reached(cidrs) = Belongs(lib, sel)
  BY <1>2, ResolveIs DEF Resolved
<1> HIDE DEF cidrs
<1>4. /\ IsFiniteSet(Rows(cidrs)) /\ Cardinality(Rows(cidrs)) = Len(cidrs)
      /\ AddressCount(cidrs) \in Nat /\ Cardinality(Reached(cidrs)) <= AddressCount(cidrs)
  BY <1>3, RowsCounted, ReachCounted
<1> QED
  BY <1>2, <1>3, <1>4 DEF cidrs

\* A selector to start from.
LEMMA SomeSelector == (CHOOSE sel \in Selectors : TRUE) \in Selectors
<1>1. PICK c \in Countries : TRUE
  BY RangeAssumption
<1>2. [country |-> c, asn |-> NoASN] \in Selectors
  BY RangeAssumption DEF Selectors
<1> QED
  BY <1>2

\* The record of a ban that was not submitted.
LEMMA NoBanIs ==
  ASSUME library \in Libraries
  PROVE  NoBan \in BanRecords /\ RecordOK(NoBan)
<1>1. NoBan \in BanRecords
  BY SomeSelector DEF NoBan, BanRecords
<1>2. NoBan.state = "none" /\ NoBan.sent = FALSE /\ NoBan.rows = {}
  BY DEF NoBan
<1> HIDE DEF NoBan
<1> QED
  BY <1>1, <1>2 DEF RecordOK, Written

\* Initially no ban was submitted and the handler is free.
LEMMA RangeInitInv == RangeInit => RangeInv
<1> SUFFICES ASSUME RangeInit PROVE RangeInv
  OBVIOUS
<1>1. library \in Libraries /\ Database(library) \subseteq Entries
  BY ResolutionIsExact DEF RangeInit, Libraries
<1>2. NoBan \in BanRecords /\ RecordOK(NoBan)
  BY <1>1, NoBanIs
<1>3. Free \in Hands /\ Free.ban = {}
  BY DEF Free, Hands
<1>4. RangeTypeOK
  BY <1>1, <1>2, <1>3 DEF RangeInit, RangeTypeOK
<1>5. \A b \in Bans : RecordOK(bans[b])
  BY <1>2 DEF RangeInit
<1>6. HandOK
  BY <1>3 DEF RangeInit, HandOK
<1> QED
  BY <1>4, <1>5, <1>6 DEF RangeInv

\* A step that changes the record of one ban into another good one.
LEMMA OneRecord ==
  ASSUME RangeInv, NEW b \in Bans, NEW r \in BanRecords, RecordOK(r),
         bans' = [bans EXCEPT ![b] = r], UNCHANGED <<library, protected, peers>>,
         hand' \in Hands, HandOK'
  PROVE  RangeInv'
<1>1. bans' \in [Bans -> BanRecords] /\ \A c \in Bans : bans'[c] = IF c = b THEN r ELSE bans[c]
  BY DEF RangeInv, RangeTypeOK
<1>2. RangeTypeOK'
  BY <1>1 DEF RangeInv, RangeTypeOK
<1>3. \A c \in Bans : RecordOK(bans'[c])
  BY <1>1 DEF RangeInv
<1>4. (\A c \in Bans : RecordOK(bans[c]))'
  BY <1>3
<1> QED
  BY <1>2, <1>4 DEF RangeInv

\* A submission.
LEMMA CreateStep ==
  ASSUME RangeInv, NEW b \in Bans, NEW global \in BOOLEAN, NEW sel \in Selectors,
         NEW me \in Clients, scopedBanCreate(b, global, sel, me)
  PROVE  RangeInv'
<1> DEFINE cidrs == Cidrs(sel)
           r == [NoBan EXCEPT !.state = "pending", !.global = global, !.sel = sel,
                   !.self  = detectSelfLockout(cidrs, me),
                   !.share = RequiresOverride(cidrs),
                   !.count = Len(cidrs),
                   !.seen  = [library |-> library, operators |-> peers \union {me}]]
<1>1. /\ library \in Libraries /\ peers \union {me} \subseteq Clients
      /\ bans \in [Bans -> BanRecords] /\ hand \in Hands
  BY DEF RangeInv, RangeTypeOK
<1>2. cidrs = Resolved(library, sel) /\ cidrs \in Seq(Prefixes) /\ Len(cidrs) \in Nat
  BY <1>1, ResolutionIsExact DEF Cidrs, Resolved
<1>3. /\ bans[b].state = "none" /\ Len(cidrs) <= PerRuleMax
      /\ bans' = [bans EXCEPT ![b] = r] /\ UNCHANGED <<library, protected, peers, hand>>
  <2>1. Len(cidrs) \in 1 .. PerRuleMax
    BY DEF scopedBanCreate
  <2> QED
    BY <2>1, RangeBansAssumption DEF scopedBanCreate
<1> HIDE DEF cidrs
<1>4. r = [state |-> "pending", global |-> global, sel |-> sel,
           self |-> detectSelfLockout(cidrs, me), share |-> RequiresOverride(cidrs),
           count |-> Len(cidrs), sent |-> FALSE, rows |-> {},
           seen    |-> [library |-> library, operators |-> peers \union {me}],
           guarded |-> [library |-> library, throughout |-> {}, read |-> FALSE]]
  <2> DEFINE d == CHOOSE x \in Selectors : TRUE
  <2>1. NoBan = [state |-> "none", global |-> FALSE, sel |-> d, self |-> FALSE, share |-> FALSE,
                 count |-> 0, sent |-> FALSE, rows |-> {},
                 seen    |-> [library |-> library, operators |-> {}],
                 guarded |-> [library |-> library, throughout |-> {}, read |-> FALSE]]
    BY DEF NoBan
  <2> HIDE DEF d
  <2> DEFINE self  == detectSelfLockout(cidrs, me)
             share == RequiresOverride(cidrs)
             count == Len(cidrs)
             seen  == [library |-> library, operators |-> peers \union {me}]
  <2>2. r = [NoBan EXCEPT !.state = "pending", !.global = global, !.sel = sel, !.self = self,
               !.share = share, !.count = count, !.seen = seen]
    OBVIOUS
  <2> HIDE DEF self, share, count, seen, r
  <2>3. r = [state |-> "pending", global |-> global, sel |-> sel, self |-> self, share |-> share,
             count |-> count, sent |-> FALSE, rows |-> {}, seen |-> seen,
             guarded |-> [library |-> library, throughout |-> {}, read |-> FALSE]]
    BY <2>1, <2>2
  <2> QED
    BY <2>3 DEF self, share, count, seen
<1>5. detectSelfLockout(cidrs, me) \in BOOLEAN /\ RequiresOverride(cidrs) \in BOOLEAN
  BY DEF detectSelfLockout, RequiresOverride
<1> HIDE DEF r
<1>6. r \in BanRecords
  BY <1>1, <1>2, <1>4, <1>5 DEF BanRecords
<1>7. \A a \in peers \union {me} : \A i \in DOMAIN cidrs :
        Covers(cidrs[i], a) => detectSelfLockout(cidrs, me)
  BY DEF detectSelfLockout
<1>8. RecordOK(r)
  <2>1. Confirmed(r)
    BY <1>2, <1>3, <1>4, <1>7 DEF Confirmed
  <2>2. r.state = "pending" /\ r.sent = FALSE /\ r.rows = {}
    BY <1>4
  <2> QED
    BY <2>1, <2>2 DEF RecordOK, Written
<1>9. b \notin hand.ban
  BY <1>3 DEF RangeInv, HandOK, Carries
<1>10. HandOK'
  <2>1. \A c \in hand.ban : c \in Bans /\ bans'[c] = bans[c]
    BY <1>1, <1>3, <1>9 DEF Hands
  <2> QED
    BY <1>3, <2>1 DEF RangeInv, HandOK, Carries
<1> QED
  BY <1>1, <1>3, <1>6, <1>8, <1>10, OneRecord

\* A record whose state is the only change.
LEMMA NewState ==
  ASSUME NEW r \in BanRecords, RecordOK(r), r.state # "none",
         NEW st \in {"active", "rejected", "revoked", "safety_blocked"}
  PROVE  LET n == [r EXCEPT !.state = st] IN
         /\ n \in BanRecords /\ RecordOK(n) /\ n.state = st /\ n.sent = r.sent
         /\ n.sel = r.sel /\ n.guarded = r.guarded /\ n.rows = r.rows
<1> DEFINE n == [r EXCEPT !.state = st]
<1>1. /\ n.state = st /\ n.global = r.global /\ n.sel = r.sel /\ n.self = r.self
      /\ n.share = r.share /\ n.count = r.count /\ n.sent = r.sent /\ n.rows = r.rows
      /\ n.seen = r.seen /\ n.guarded = r.guarded
  BY DEF BanRecords
<1>2. n \in BanRecords
  BY DEF BanRecords
<1> HIDE DEF n
<1>3. RecordOK(n)
  BY <1>1 DEF RecordOK, Confirmed, Written, Kept
<1> QED
  BY <1>1, <1>2, <1>3 DEF n

\* A decision against a ban, or the end of one.
LEMMA CloseStep ==
  ASSUME RangeInv, NEW b \in Bans, Close(b)
  PROVE  RangeInv'
<1>1. PICK st \in {"rejected", "revoked"} :
        /\ bans[b].state \in {"pending", "active"}
        /\ bans' = [bans EXCEPT ![b].state = st] /\ UNCHANGED <<library, protected, peers, hand>>
  BY DEF Close
<1> DEFINE r == [bans[b] EXCEPT !.state = st]
<1>2. bans \in [Bans -> BanRecords] /\ hand \in Hands /\ RecordOK(bans[b])
  BY DEF RangeInv, RangeTypeOK
<1>3. bans' = [bans EXCEPT ![b] = r]
  BY <1>1
<1>4. /\ r \in BanRecords /\ RecordOK(r) /\ r.state = st /\ r.sent = bans[b].sent
      /\ r.sel = bans[b].sel /\ r.guarded = bans[b].guarded /\ r.rows = bans[b].rows
  <2>1. st \in {"active", "rejected", "revoked", "safety_blocked"}
    OBVIOUS
  <2>2. bans[b] \in BanRecords /\ bans[b].state # "none"
    BY <1>1, <1>2
  <2> QED
    BY <1>2, <2>1, <2>2, NewState
<1> HIDE DEF r
<1>5. HandOK'
  <2>1. \A c \in hand.ban : c \in Bans /\ bans'[c] = IF c = b THEN r ELSE bans[c]
    BY <1>2, <1>3 DEF Hands
  <2> QED
    BY <1>1, <1>4, <2>1 DEF RangeInv, HandOK, Carries, Kept
<1> QED
  BY <1>1, <1>2, <1>3, <1>4, <1>5, OneRecord

\* An approval takes the ban in hand.
LEMMA ApproveStep ==
  ASSUME RangeInv, NEW b \in Bans, scopedBanApprove(b)
  PROVE  RangeInv'
<1> DEFINE o == bans[b]
           r == [o EXCEPT !.state = "active", !.guarded.throughout = protected]
<1>1. /\ hand = Free /\ o.state = "pending"
      /\ bans' = [bans EXCEPT ![b].state = "active", ![b].guarded.throughout = protected]
      /\ hand' = [hand EXCEPT !.ban = {b}, !.step = "resolve"]
      /\ UNCHANGED <<library, protected, peers>>
  BY DEF scopedBanApprove
<1>2. /\ bans \in [Bans -> BanRecords] /\ hand \in Hands /\ o \in BanRecords
      /\ protected \subseteq Shields /\ ~o.sent /\ o.rows = {} /\ Confirmed(o)
  BY <1>1 DEF RangeInv, RangeTypeOK, RecordOK
<1>3. bans' = [bans EXCEPT ![b] = r]
  BY <1>1, <1>2
<1>4. o.guarded = [library |-> o.guarded.library, throughout |-> o.guarded.throughout,
                   read |-> o.guarded.read]
      /\ o.guarded.library \in Libraries /\ o.guarded.read \in BOOLEAN
  BY <1>2 DEF BanRecords
<1>5. /\ r.state = "active" /\ r.global = o.global /\ r.sel = o.sel /\ r.self = o.self
      /\ r.share = o.share /\ r.count = o.count /\ r.sent = o.sent /\ r.rows = o.rows
      /\ r.seen = o.seen /\ r.guarded.throughout = protected
  BY <1>2, <1>4 DEF BanRecords
<1>6. r \in BanRecords
  BY <1>2, <1>4 DEF BanRecords
<1> HIDE DEF o, r
<1>7. RecordOK(r)
  BY <1>2, <1>5 DEF RecordOK, Confirmed, Written
<1>8. /\ hand' \in Hands /\ hand'.ban = {b} /\ hand'.step = "resolve" /\ hand'.done = 0
  <2>1. hand' = [ban |-> {b}, step |-> "resolve", cidrs |-> << >>, shields |-> {}, done |-> 0]
    BY <1>1 DEF Free
  <2>2. << >> \in Seq(Prefixes)
    OBVIOUS
  <2> QED
    BY <2>1, <2>2 DEF Hands
<1>9. HandOK'
  <2>1. bans'[b] = r /\ protected' = protected
    BY <1>1, <1>2, <1>3
  <2> QED
    BY <1>2, <1>5, <1>8, <2>1 DEF HandOK, Carries
<1> QED
  BY <1>1, <1>3, <1>6, <1>7, <1>8, <1>9, OneRecord

\* A handler that lets its ban go.
LEMMA FreeHand == hand' = Free => hand' \in Hands /\ HandOK'
<1> SUFFICES ASSUME hand' = Free PROVE hand' \in Hands /\ HandOK'
  OBVIOUS
<1>1. << >> \in Seq(Prefixes)
  OBVIOUS
<1>2. hand' \in Hands /\ hand'.ban = {}
  BY <1>1 DEF Free, Hands
<1> QED
  BY <1>2 DEF HandOK

\* What there is to know of the ban a handler is at.
LEMMA InHand ==
  ASSUME RangeInv, NEW b \in Bans, NEW step, Holds(b, step)
  PROVE  /\ bans \in [Bans -> BanRecords] /\ bans[b] \in BanRecords /\ hand \in Hands
         /\ library \in Libraries /\ protected \subseteq Shields
         /\ RecordOK(bans[b]) /\ Confirmed(bans[b]) /\ Carries(bans[b])
         /\ hand.step = step /\ hand.ban = {b}
         /\ bans[b].guarded = [library |-> bans[b].guarded.library,
                               throughout |-> bans[b].guarded.throughout,
                               read |-> bans[b].guarded.read]
         /\ bans[b].guarded.library \in Libraries /\ bans[b].guarded.read \in BOOLEAN
         /\ bans[b].guarded.throughout \in SUBSET Shields
<1>1. /\ bans \in [Bans -> BanRecords] /\ bans[b] \in BanRecords /\ hand \in Hands
      /\ library \in Libraries /\ protected \subseteq Shields
      /\ RecordOK(bans[b]) /\ HandOK /\ hand.step = step /\ b \in hand.ban
  BY DEF RangeInv, RangeTypeOK, Holds
<1>2. Carries(bans[b]) /\ hand.ban = {b}
  BY <1>1 DEF HandOK
<1>3. Confirmed(bans[b])
  BY <1>1, <1>2 DEF RecordOK, Carries
<1>4. /\ bans[b].guarded = [library |-> bans[b].guarded.library,
                            throughout |-> bans[b].guarded.throughout,
                            read |-> bans[b].guarded.read]
      /\ bans[b].guarded.library \in Libraries /\ bans[b].guarded.read \in BOOLEAN
      /\ bans[b].guarded.throughout \in SUBSET Shields
  BY <1>1 DEF BanRecords
<1> QED
  BY <1>1, <1>2, <1>3, <1>4

\* The second resolution, or the one that no longer fits.
LEMMA ResolveStep ==
  ASSUME RangeInv, NEW b \in Bans, scopedBanApprove_Resolve(b)
  PROVE  RangeInv'
<1> DEFINE o == bans[b]
           cidrs == Cidrs(o.sel)
<1>1. /\ Holds(b, "resolve") /\ UNCHANGED <<library, protected, peers>>
      /\ \/ /\ hand' = [hand EXCEPT !.step = "guard", !.cidrs = cidrs]
            /\ \E count \in {o.count, Len(cidrs)} :
                 bans' = [bans EXCEPT ![b].count = count, ![b].guarded.library = library]
         \/ hand' = Free /\ UNCHANGED bans
  BY DEF scopedBanApprove_Resolve
<1>2. /\ bans \in [Bans -> BanRecords] /\ o \in BanRecords /\ hand \in Hands
      /\ library \in Libraries /\ Confirmed(o) /\ Carries(o)
      /\ hand.step = "resolve" /\ hand.ban = {b}
      /\ o.guarded = [library |-> o.guarded.library, throughout |-> o.guarded.throughout,
                      read |-> o.guarded.read]
      /\ o.guarded.read \in BOOLEAN /\ o.guarded.throughout \in SUBSET Shields
  BY <1>1, InHand
<1>3. /\ ~o.sent /\ o.rows = {} /\ o.state \notin {"none", "pending"}
      /\ o.guarded.throughout \subseteq protected /\ hand.done = 0
  BY <1>2 DEF Carries
<1>4. cidrs = Resolved(library, o.sel) /\ cidrs \in Seq(Prefixes) /\ Len(cidrs) \in Nat
  BY <1>2, ResolutionIsExact DEF Cidrs, Resolved
<1> HIDE DEF cidrs
<1>5. CASE hand' = Free /\ UNCHANGED bans
  BY <1>1, <1>5, FreeHand DEF RangeInv, RangeTypeOK
<1>6. CASE /\ hand' = [hand EXCEPT !.step = "guard", !.cidrs = cidrs]
           /\ \E count \in {o.count, Len(cidrs)} :
                bans' = [bans EXCEPT ![b].count = count, ![b].guarded.library = library]
  <2>1. PICK count \in {o.count, Len(cidrs)} :
          bans' = [bans EXCEPT ![b].count = count, ![b].guarded.library = library]
    BY <1>6
  <2> DEFINE r == [o EXCEPT !.count = count, !.guarded.library = library]
  <2>2. count \in Nat
    BY <1>2, <1>4 DEF BanRecords
  <2>3. bans' = [bans EXCEPT ![b] = r]
    BY <1>2, <2>1
  <2>4. /\ r.state = o.state /\ r.global = o.global /\ r.sel = o.sel /\ r.self = o.self
        /\ r.share = o.share /\ r.count = count /\ r.sent = o.sent /\ r.rows = o.rows
        /\ r.seen = o.seen /\ r.guarded.library = library
        /\ r.guarded.throughout = o.guarded.throughout
    BY <1>2 DEF BanRecords
  <2>5. r \in BanRecords
    BY <1>2, <2>2 DEF BanRecords
  <2> HIDE DEF r, o
  <2>6. RecordOK(r)
    BY <1>2, <1>3, <2>4 DEF RecordOK, Confirmed, Written
  <2>7. /\ hand' \in Hands /\ hand'.ban = {b} /\ hand'.step = "guard" /\ hand'.cidrs = cidrs
        /\ hand'.done = 0
    BY <1>2, <1>3, <1>4, <1>6 DEF Hands
  <2>8. bans'[b] = r /\ protected' = protected
    BY <1>1, <1>2, <2>3
  <2>9. HandOK'
    BY <1>3, <1>4, <2>4, <2>7, <2>8 DEF HandOK, Carries
  <2> QED
    BY <1>1, <2>3, <2>5, <2>6, <2>7, <2>9, OneRecord
<1> QED
  BY <1>1, <1>5, <1>6

\* The protected set is read, or not.
LEMMA GuardStep ==
  ASSUME RangeInv, NEW b \in Bans, dispatches(b)
  PROVE  RangeInv'
<1> DEFINE o == bans[b]
<1>1. PICK read \in BOOLEAN :
        /\ hand' = [hand EXCEPT !.step = "dispatch", !.shields = guard(read)]
        /\ bans' = [bans EXCEPT ![b].guarded.read = read]
  BY DEF dispatches
<1>2. Holds(b, "guard") /\ UNCHANGED <<library, protected, peers>>
  BY DEF dispatches
<1>3. /\ bans \in [Bans -> BanRecords] /\ o \in BanRecords /\ hand \in Hands
      /\ protected \subseteq Shields /\ Confirmed(o) /\ Carries(o)
      /\ hand.step = "guard" /\ hand.ban = {b}
      /\ o.guarded = [library |-> o.guarded.library, throughout |-> o.guarded.throughout,
                      read |-> o.guarded.read]
      /\ o.guarded.library \in Libraries /\ o.guarded.throughout \in SUBSET Shields
  BY <1>2, InHand
<1>4. /\ ~o.sent /\ o.rows = {} /\ o.state \notin {"none", "pending"}
      /\ o.guarded.throughout \subseteq protected /\ hand.done = 0
      /\ hand.cidrs = Resolved(o.guarded.library, o.sel)
  BY <1>3 DEF Carries
<1> DEFINE r == [o EXCEPT !.guarded.read = read]
<1>5. bans' = [bans EXCEPT ![b] = r]
  BY <1>1, <1>3
<1>6. /\ r.state = o.state /\ r.global = o.global /\ r.sel = o.sel /\ r.self = o.self
      /\ r.share = o.share /\ r.count = o.count /\ r.sent = o.sent /\ r.rows = o.rows
      /\ r.seen = o.seen /\ r.guarded.library = o.guarded.library
      /\ r.guarded.throughout = o.guarded.throughout /\ r.guarded.read = read
  BY <1>3 DEF BanRecords
<1>7. r \in BanRecords
  BY <1>3 DEF BanRecords
<1> HIDE DEF r, o
<1>8. RecordOK(r)
  BY <1>3, <1>4, <1>6 DEF RecordOK, Confirmed, Written
<1>9. /\ hand' \in Hands /\ hand'.ban = {b} /\ hand'.step = "dispatch"
      /\ hand'.cidrs = hand.cidrs /\ hand'.shields = guard(read) /\ hand'.done = 0
  BY <1>1, <1>3, <1>4 DEF Hands, guard
<1>10. HandOK'
  <2>1. bans'[b] = r /\ protected' = protected
    BY <1>2, <1>3, <1>5
  <2>2. Len(hand.cidrs) \in Nat
    BY <1>3 DEF Hands
  <2>3. { hand'.cidrs[i] : i \in 1 .. hand'.done } = {}
    BY <1>9
  <2>4. Kept(r) \subseteq hand'.shields
    BY <1>4, <1>6, <1>9 DEF Kept, guard
  <2>5. Carries(bans[b])'
    BY <1>4, <1>6, <1>9, <2>1, <2>2, <2>3, <2>4 DEF Carries
  <2> QED
    BY <1>9, <2>5 DEF HandOK
<1> QED
  BY <1>2, <1>5, <1>7, <1>8, <1>9, <1>10, OneRecord

\* The veto.
LEMMA VetoStep ==
  ASSUME RangeInv, NEW b \in Bans, CreateGlobalScopedDispatch_Veto(b)
  PROVE  RangeInv'
<1> DEFINE o == bans[b]
           r == [o EXCEPT !.state = "safety_blocked"]
<1>1. /\ Holds(b, "dispatch") /\ hand' = Free /\ UNCHANGED <<library, protected, peers>>
      /\ bans' = [bans EXCEPT ![b] = r]
  BY DEF CreateGlobalScopedDispatch_Veto
<1>2. o \in BanRecords /\ RecordOK(o) /\ o.state # "none"
  BY <1>1, InHand DEF Carries
<1>3. r \in BanRecords /\ RecordOK(r)
  BY <1>2, NewState
<1> HIDE DEF r
<1> QED
  BY <1>1, <1>3, FreeHand, OneRecord

\* The rows of a sequence are those of its first elements and the others.
LEMMA FirstRows ==
  ASSUME NEW s \in Seq(Prefixes), NEW n \in Nat, n <= Len(s)
  PROVE  LET first(k) == { s[i] : i \in 1 .. k } IN
         /\ first(n) \subseteq Rows(s)
         /\ n = Len(s) => first(n) = Rows(s)
         /\ n < Len(s) => first(n + 1) = first(n) \union {s[n + 1]} /\ s[n + 1] \in Prefixes
<1>1. Len(s) \in Nat /\ DOMAIN s = 1 .. Len(s)
  OBVIOUS
<1> DEFINE first(k) == { s[i] : i \in 1 .. k }
<1>2. Rows(s) = { s[i] : i \in 1 .. Len(s) }
  BY <1>1 DEF Rows
<1>3. first(n) \subseteq Rows(s)
  BY <1>1, <1>2
<1>4. n = Len(s) => first(n) = Rows(s)
  BY <1>2
<1>5. ASSUME n < Len(s)
      PROVE  first(n + 1) = first(n) \union {s[n + 1]} /\ s[n + 1] \in Prefixes
  <2>1. 1 .. (n + 1) = (1 .. n) \union {n + 1}
    OBVIOUS
  <2>2. n + 1 \in 1 .. Len(s)
    BY <1>1, <1>5
  <2>3. s[n + 1] \in Prefixes
    BY <2>2
  <2>4. first(n + 1) = first(n) \union {s[n + 1]}
    BY <2>1, Zenon
  <2> QED
    BY <2>3, <2>4
<1> QED
  BY <1>3, <1>4, <1>5

\* A row, or the end of the rows.
LEMMA RowStep ==
  ASSUME RangeInv, NEW b \in Bans, CreateGlobalScopedDispatch(b)
  PROVE  RangeInv'
<1> DEFINE o == bans[b]
           first(k) == { hand.cidrs[i] : i \in 1 .. k }
<1>1. /\ Holds(b, "dispatch") /\ UNCHANGED <<library, protected, peers>>
      /\ AssertSafeAll(hand.cidrs, hand.shields)
      /\ \/ /\ hand.done < Len(hand.cidrs)
            /\ bans' = [bans EXCEPT ![b].rows = @ \union {hand.cidrs[hand.done + 1]}]
            /\ hand' = [hand EXCEPT !.done = @ + 1]
         \/ /\ hand.done = Len(hand.cidrs)
            /\ bans' = [bans EXCEPT ![b].sent = TRUE]
            /\ hand' = Free
  BY DEF CreateGlobalScopedDispatch
<1>2. /\ bans \in [Bans -> BanRecords] /\ o \in BanRecords /\ hand \in Hands
      /\ RecordOK(o) /\ Confirmed(o) /\ Carries(o) /\ hand.step = "dispatch" /\ hand.ban = {b}
  BY <1>1, InHand
<1>3. /\ ~o.sent /\ o.state \notin {"none", "pending"}
      /\ o.guarded.throughout \subseteq protected
      /\ hand.cidrs = Resolved(o.guarded.library, o.sel)
      /\ o.rows = first(hand.done) /\ hand.done <= Len(hand.cidrs)
      /\ Kept(o) \subseteq hand.shields
  BY <1>2 DEF Carries
<1>4. /\ hand.cidrs \in Seq(Prefixes) /\ hand.done \in Nat /\ Len(hand.cidrs) \in Nat
      /\ o.rows \subseteq Prefixes
  BY <1>2 DEF Hands, BanRecords
<1>5. /\ first(hand.done) \subseteq Rows(hand.cidrs)
      /\ hand.done = Len(hand.cidrs) => first(hand.done) = Rows(hand.cidrs)
      /\ hand.done < Len(hand.cidrs) =>
           /\ first(hand.done + 1) = first(hand.done) \union {hand.cidrs[hand.done + 1]}
           /\ hand.cidrs[hand.done + 1] \in Prefixes
  BY <1>3, <1>4, FirstRows
<1>6. AssertSafeAll(hand.cidrs, Kept(o))
  BY <1>1, <1>3 DEF AssertSafeAll
<1>7. CASE /\ hand.done < Len(hand.cidrs)
           /\ bans' = [bans EXCEPT ![b].rows = @ \union {hand.cidrs[hand.done + 1]}]
           /\ hand' = [hand EXCEPT !.done = @ + 1]
  <2> DEFINE rows == first(hand.done + 1)
             r == [o EXCEPT !.rows = rows]
  <2>1. rows = o.rows \union {hand.cidrs[hand.done + 1]} /\ rows \subseteq Prefixes
    BY <1>3, <1>4, <1>5, <1>7
  <2>2. rows \subseteq Rows(hand.cidrs)
    <3>1. hand.done + 1 \in Nat /\ hand.done + 1 <= Len(hand.cidrs)
      BY <1>4, <1>7
    <3> QED
      BY <1>4, <3>1, FirstRows
  <2>3. hand' \in Hands
    BY <1>2, <1>7 DEF Hands
  <2>4. /\ hand'.ban = {b} /\ hand'.step = "dispatch" /\ hand'.cidrs = hand.cidrs
        /\ hand'.shields = hand.shields /\ hand'.done = hand.done + 1
    BY <1>2, <1>7 DEF Hands
  <2>5. { hand'.cidrs[i] : i \in 1 .. hand'.done } = rows
    BY <2>4
  <2> HIDE DEF rows, first
  <2>6. bans' = [bans EXCEPT ![b] = r]
    BY <1>2, <1>7, <2>1
  <2>7. /\ r.state = o.state /\ r.global = o.global /\ r.sel = o.sel /\ r.self = o.self
        /\ r.share = o.share /\ r.count = o.count /\ r.sent = o.sent /\ r.rows = rows
        /\ r.seen = o.seen /\ r.guarded = o.guarded
    BY <1>2 DEF BanRecords
  <2>8. r \in BanRecords
    BY <1>2, <2>1 DEF BanRecords
  <2> HIDE DEF r, o
  <2>9. Kept(r) = Kept(o)
    BY <2>7 DEF Kept
  <2>10. RecordOK(r)
    BY <1>2, <1>3, <1>6, <2>2, <2>7, <2>9 DEF RecordOK, Confirmed, Written
  <2>11. bans'[b] = r /\ protected' = protected
    BY <1>1, <1>2, <2>6
  <2>12. hand'.done <= Len(hand'.cidrs)
    BY <1>4, <1>7, <2>4
  <2>13. Carries(bans[b])'
    BY <1>3, <2>4, <2>5, <2>7, <2>9, <2>11, <2>12 DEF Carries, Kept
  <2>14. HandOK'
    BY <2>4, <2>13 DEF HandOK
  <2> QED
    BY <1>1, <2>3, <2>6, <2>8, <2>10, <2>14, OneRecord
<1>8. CASE /\ hand.done = Len(hand.cidrs)
           /\ bans' = [bans EXCEPT ![b].sent = TRUE]
           /\ hand' = Free
  <2> DEFINE r == [o EXCEPT !.sent = TRUE]
  <2>1. bans' = [bans EXCEPT ![b] = r]
    BY <1>8
  <2>2. /\ r.state = o.state /\ r.global = o.global /\ r.sel = o.sel /\ r.self = o.self
        /\ r.share = o.share /\ r.count = o.count /\ r.sent = TRUE /\ r.rows = o.rows
        /\ r.seen = o.seen /\ r.guarded = o.guarded
    BY <1>2 DEF BanRecords
  <2>3. r \in BanRecords
    BY <1>2 DEF BanRecords
  <2>4. o.rows = Rows(hand.cidrs)
    BY <1>3, <1>5, <1>8
  <2> HIDE DEF r, o
  <2>5. Kept(r) = Kept(o)
    BY <2>2 DEF Kept
  <2>6. RecordOK(r)
    BY <1>2, <1>3, <1>6, <2>2, <2>4, <2>5 DEF RecordOK, Confirmed, Written
  <2> QED
    BY <1>1, <1>8, <2>1, <2>3, <2>6, FreeHand, OneRecord
<1> QED
  BY <1>1, <1>7, <1>8

\* The one row of a ban with a host.
LEMMA ScopedStep ==
  ASSUME RangeInv, NEW b \in Bans, CreateScopedDispatch(b)
  PROVE  RangeInv'
<1> DEFINE o == bans[b]
           rows == { hand.cidrs[i] : i \in DOMAIN hand.cidrs }
           r == [o EXCEPT !.sent = TRUE, !.rows = rows]
<1>1. /\ Holds(b, "dispatch") /\ ~o.global /\ hand' = Free
      /\ UNCHANGED <<library, protected, peers>>
      /\ bans' = [bans EXCEPT ![b].sent = TRUE, ![b].rows = rows]
  BY DEF CreateScopedDispatch
<1>2. /\ bans \in [Bans -> BanRecords] /\ o \in BanRecords /\ hand \in Hands
      /\ Confirmed(o) /\ Carries(o) /\ hand.step = "dispatch"
  BY <1>1, InHand
<1>3. /\ o.state \notin {"none", "pending"}
      /\ hand.cidrs = Resolved(o.guarded.library, o.sel) /\ hand.cidrs \in Seq(Prefixes)
  BY <1>2 DEF Carries, Hands
<1>4. rows \subseteq Prefixes /\ rows = Rows(hand.cidrs)
  BY <1>3 DEF Rows
<1> HIDE DEF rows
<1>5. bans' = [bans EXCEPT ![b] = r]
  BY <1>1, <1>2
<1>6. /\ r.state = o.state /\ r.global = o.global /\ r.sel = o.sel /\ r.self = o.self
      /\ r.share = o.share /\ r.count = o.count /\ r.sent = TRUE /\ r.rows = rows
      /\ r.seen = o.seen /\ r.guarded = o.guarded
  BY <1>2 DEF BanRecords
<1>7. r \in BanRecords
  BY <1>2, <1>4 DEF BanRecords
<1> HIDE DEF r, o
<1>8. RecordOK(r)
  BY <1>1, <1>2, <1>3, <1>4, <1>6 DEF RecordOK, Confirmed, Written
<1> QED
  BY <1>1, <1>5, <1>7, <1>8, FreeHand, OneRecord

\* The protected set changes, and the history of the ban in hand with it.
LEMMA ProtectStep ==
  ASSUME RangeInv, NEW shields \in SUBSET Shields, ChangeProtected(shields)
  PROVE  RangeInv'
<1> DEFINE new(b) == [bans[b] EXCEPT !.guarded.throughout = @ \intersect shields]
<1>1. /\ protected' = shields /\ UNCHANGED <<library, peers, hand>>
      /\ bans' = [b \in Bans |-> IF b \in hand.ban THEN new(b) ELSE bans[b]]
  BY DEF ChangeProtected
<1>2. bans \in [Bans -> BanRecords] /\ hand \in Hands /\ HandOK
  BY DEF RangeInv, RangeTypeOK
<1>3. ASSUME NEW b \in Bans
      PROVE  /\ new(b) \in BanRecords /\ RecordOK(new(b))
             /\ b \in hand.ban => bans'[b] = new(b) /\ Carries(bans[b])'
  <2> DEFINE o == bans[b]
             r == new(b)
  <2>1. o \in BanRecords /\ RecordOK(o)
    BY <1>2 DEF RangeInv
  <2>2. o.guarded = [library |-> o.guarded.library, throughout |-> o.guarded.throughout,
                     read |-> o.guarded.read]
        /\ o.guarded.library \in Libraries /\ o.guarded.read \in BOOLEAN
        /\ o.guarded.throughout \in SUBSET Shields
    BY <2>1 DEF BanRecords
  <2>3. /\ r.state = o.state /\ r.global = o.global /\ r.sel = o.sel /\ r.self = o.self
        /\ r.share = o.share /\ r.count = o.count /\ r.sent = o.sent /\ r.rows = o.rows
        /\ r.seen = o.seen /\ r.guarded.library = o.guarded.library
        /\ r.guarded.throughout = o.guarded.throughout \intersect shields
        /\ r.guarded.read = o.guarded.read
    BY <2>1, <2>2 DEF BanRecords
  <2>4. r \in BanRecords
    BY <2>1, <2>2 DEF BanRecords
  <2>5. b \in hand.ban => bans'[b] = r
    BY <1>1
  <2> HIDE DEF r, o
  <2>6. Kept(r) \subseteq Kept(o)
    BY <2>3 DEF Kept
  <2>7. \A cidrs : AssertSafeAll(cidrs, Kept(o)) => AssertSafeAll(cidrs, Kept(r))
    BY <2>6 DEF AssertSafeAll
  <2>8. RecordOK(r)
    BY <2>1, <2>3, <2>7 DEF RecordOK, Confirmed, Written
  <2>9. ASSUME b \in hand.ban PROVE Carries(bans[b])'
    <3>1. Carries(o)
      BY <1>2, <2>9 DEF HandOK, o
    <3>2. bans'[b] = r /\ hand' = hand /\ protected' = shields
      BY <1>1, <2>5, <2>9
    <3> QED
      BY <2>3, <2>6, <3>1, <3>2 DEF Carries, Kept
  <2> QED
    BY <2>4, <2>5, <2>8, <2>9 DEF r
<1> HIDE DEF new
<1>4. bans' \in [Bans -> BanRecords] /\ \A b \in Bans : RecordOK(bans'[b])
  BY <1>1, <1>2, <1>3 DEF RangeInv
<1>5. (\A b \in Bans : RecordOK(bans[b]))'
  BY <1>4
<1>6. RangeTypeOK'
  BY <1>1, <1>4 DEF RangeInv, RangeTypeOK
<1>7. HandOK'
  <2>1. hand' = hand /\ hand.ban \subseteq Bans
    BY <1>1, <1>2 DEF Hands
  <2>2. \A b, c \in hand'.ban : b = c
    BY <1>2, <2>1 DEF HandOK
  <2>3. \A b \in hand'.ban : Carries(bans[b])'
    BY <1>3, <2>1
  <2> QED
    BY <2>2, <2>3 DEF HandOK
<1> QED
  BY <1>5, <1>6, <1>7 DEF RangeInv

\* A step of the rest of the system.
LEMMA OutsideStep ==
  ASSUME RangeInv, library' \in Libraries, peers' \subseteq Clients,
         UNCHANGED <<protected, bans, hand>>
  PROVE  RangeInv'
<1>1. Database(library') \subseteq Entries
  BY ResolutionIsExact
<1>2. RangeTypeOK'
  BY <1>1 DEF RangeInv, RangeTypeOK
<1>3. HandOK'
  BY DEF RangeInv, HandOK, Carries, Kept
<1> QED
  BY <1>2, <1>3 DEF RangeInv

\* Every step keeps the invariant.
LEMMA RangeStep == RangeInv /\ [RangeNext]_rangeVars => RangeInv'
<1> SUFFICES ASSUME RangeInv, [RangeNext]_rangeVars PROVE RangeInv'
  OBVIOUS
<1>1. library \in Libraries /\ protected \subseteq Shields /\ peers \subseteq Clients
  BY DEF RangeInv, RangeTypeOK
<1>2. ASSUME NEW b \in Bans, NEW global \in BOOLEAN, NEW sel \in Selectors, NEW me \in Clients,
             scopedBanCreate(b, global, sel, me)
      PROVE  RangeInv'
  BY <1>2, CreateStep
<1>3. ASSUME NEW b \in Bans, Close(b) PROVE RangeInv'
  BY <1>3, CloseStep
<1>4. ASSUME NEW b \in Bans, scopedBanApprove(b) PROVE RangeInv'
  BY <1>4, ApproveStep
<1>5. ASSUME NEW b \in Bans, scopedBanApprove_Resolve(b) PROVE RangeInv'
  BY <1>5, ResolveStep
<1>6. ASSUME NEW b \in Bans, dispatches(b) PROVE RangeInv'
  BY <1>6, GuardStep
<1>11. ASSUME NEW b \in Bans, CreateGlobalScopedDispatch_Veto(b) PROVE RangeInv'
  BY <1>11, VetoStep
<1>12. ASSUME NEW b \in Bans, CreateGlobalScopedDispatch(b) PROVE RangeInv'
  BY <1>12, RowStep
<1>13. ASSUME NEW b \in Bans, CreateScopedDispatch(b) PROVE RangeInv'
  BY <1>13, ScopedStep
<1>14. CASE Stop
  BY <1>14, FreeHand DEF Stop, RangeInv, RangeTypeOK
<1>7. ASSUME NEW l \in Imports, Reload(l) PROVE RangeInv'
  <2>1. library' \in Libraries
    BY <1>7 DEF Reload, Libraries
  <2> QED
    BY <1>1, <1>7, <2>1, OutsideStep DEF Reload
<1>8. ASSUME NEW shields \in SUBSET Shields, ChangeProtected(shields) PROVE RangeInv'
  BY <1>8, ProtectStep
<1>9. ASSUME NEW clients \in SUBSET Clients, Sessions(clients) PROVE RangeInv'
  BY <1>1, <1>9, OutsideStep DEF Sessions
<1>10. CASE UNCHANGED rangeVars
  BY <1>1, <1>10, OutsideStep DEF rangeVars
<1> QED
  BY <1>2, <1>3, <1>4, <1>5, <1>6, <1>7, <1>8, <1>9, <1>10, <1>11, <1>12, <1>13, <1>14
     DEF RangeNext

\* The invariant holds in every state.
LEMMA RangeInvariant == RangeSpec => []RangeInv
<1>1. RangeInit => RangeInv
  BY RangeInitInv
<1>2. RangeInv /\ [RangeNext]_rangeVars => RangeInv'
  BY RangeStep
<1> QED
  BY <1>1, <1>2, PTL DEF RangeSpec

-----------------------------------------------------------------------------
(* What follows.                                                           *)

\* Every variable keeps its type, and the records in service are well formed, the
\* registry's after their ends have come round included.
THEOREM RangeTypeCorrect == RangeSpec => []RangeTypeOK
BY RangeInvariant, PTL DEF RangeInv

\* The addresses of a ban, by the sequence its rows are from.
LEMMA ReachIs ==
  ASSUME RangeInv, NEW b \in Bans
  PROVE  LET cidrs == Resolved(bans[b].guarded.library, bans[b].sel) IN
         /\ bans[b].rows \subseteq Rows(cidrs) /\ Reach(b) \subseteq Reached(cidrs)
         /\ bans[b].sent => bans[b].rows = Rows(cidrs) /\ Reach(b) = Reached(cidrs)
         /\ bans[b].rows # {} => bans[b].state # "none"
         /\ bans[b].guarded.library \in Libraries /\ bans[b].seen.library \in Libraries
         /\ bans[b].seen.operators \subseteq Clients
         /\ bans[b].guarded.throughout \subseteq Shields
<1>1. bans[b] \in BanRecords /\ RecordOK(bans[b])
  BY DEF RangeInv, RangeTypeOK
<1>2. Written(bans[b]) /\ (bans[b].rows # {} => bans[b].state # "none")
  BY <1>1 DEF RecordOK
<1>3. /\ bans[b].guarded.library \in Libraries /\ bans[b].seen.library \in Libraries
      /\ bans[b].seen.operators \subseteq Clients
      /\ bans[b].guarded.throughout \subseteq Shields
  BY <1>1 DEF BanRecords
<1> QED
  BY <1>2, <1>3 DEF Written, Reach, Reached

\* What is dispatched is what the country or AS stands for in the library of that
\* moment, in the fewest prefixes; and a part of it where the handler stopped.
THEOREM DispatchIsExact == RangeSpec => []DispatchedAsResolved
<1>1. RangeInv => DispatchedAsResolved
  <2> SUFFICES ASSUME RangeInv, NEW b \in Bans
               PROVE  /\ Reach(b) \subseteq Belongs(bans[b].guarded.library, bans[b].sel)
                      /\ Minimal(bans[b].rows)
                      /\ bans[b].sent => Reach(b) = Belongs(bans[b].guarded.library, bans[b].sel)
    BY DEF DispatchedAsResolved
  <2> DEFINE lib == bans[b].guarded.library
             cidrs == Resolved(lib, bans[b].sel)
  <2>1. /\ bans[b].rows \subseteq Rows(cidrs) /\ Reach(b) \subseteq Reached(cidrs)
        /\ bans[b].sent => Reach(b) = Reached(cidrs)
        /\ lib \in Libraries
    BY ReachIs
  <2>2. Reached(cidrs) = Belongs(lib, bans[b].sel) /\ Minimal(Rows(cidrs))
    BY <2>1, ResolutionIsExact
  <2> HIDE DEF cidrs
  <2>3. Minimal(bans[b].rows)
    BY <2>1, <2>2 DEF Minimal
  <2> QED
    BY <2>1, <2>2, <2>3
<1> QED
  BY <1>1, RangeInvariant, PTL

\* No row of a ban of everything, of a dispatch that ended or of one that stopped
\* halfway, contains an address that is hard coded, or one that was protected from
\* the approval to the last row, if the set was read.
THEOREM SourcesStayProtected == RangeSpec => []ProtectedSourceSafe
<1>1. RangeInv => ProtectedSourceSafe
  <2> SUFFICES ASSUME RangeInv, NEW b \in Bans, bans[b].global,
                      NEW a, a \in Reach(b), NEW p \in Kept(bans[b]), a \in Block(p)
               PROVE  FALSE
    BY DEF ProtectedSourceSafe, Kept
  <2> DEFINE lib == bans[b].guarded.library
             cidrs == Resolved(lib, bans[b].sel)
  <2>1. /\ Reach(b) \subseteq Reached(cidrs) /\ lib \in Libraries /\ p \in Prefixes
    BY ReachIs, RangeBansAssumption DEF Kept
  <2>2. cidrs \in Seq(Prefixes)
    BY <2>1, ResolutionIsExact
  <2>3. AssertSafeAll(cidrs, Kept(bans[b]))
    <3>1. bans[b].rows # {}
      BY DEF Reach
    <3> QED
      BY <3>1 DEF RangeInv, RecordOK, Written
  <2> HIDE DEF cidrs
  <2>4. PICK i \in DOMAIN cidrs : a \in Block(cidrs[i])
    BY <2>1 DEF Reached, Rows
  <2>5. cidrs[i] \in Prefixes /\ a \in Nat /\ Covers(cidrs[i], a) /\ Covers(p, a)
    BY <2>2, <2>4, BlockSizes DEF Block, Addresses
  <2>6. Overlaps(p, cidrs[i])
    BY <2>1, <2>5, SharedOverlaps
  <2> QED
    BY <2>3, <2>6 DEF AssertSafeAll
<1> QED
  BY <1>1, RangeInvariant, PTL

\* What was confirmed is what is enforced, unless the library changed in between.
THEOREM ReachIsConfirmed == RangeSpec => []ConfirmedReach
<1>1. RangeInv => ConfirmedReach
  <2> SUFFICES ASSUME RangeInv, NEW b \in Bans, bans[b].rows # {},
                      bans[b].guarded.library = bans[b].seen.library
               PROVE  /\ Reach(b) \intersect bans[b].seen.operators # {} => bans[b].self
                      /\ Cardinality(Reach(b)) > ShareMax => bans[b].share
                      /\ Cardinality(bans[b].rows) <= PerRuleMax
    BY DEF ConfirmedReach
  <2> DEFINE lib == bans[b].guarded.library
             cidrs == Resolved(lib, bans[b].sel)
  <2>1. /\ bans[b].rows \subseteq Rows(cidrs) /\ Reach(b) \subseteq Reached(cidrs)
        /\ lib \in Libraries /\ bans[b].state # "none" /\ lib = bans[b].seen.library
    BY ReachIs
  <2>2. /\ cidrs \in Seq(Prefixes)
        /\ IsFiniteSet(Rows(cidrs)) /\ Cardinality(Rows(cidrs)) = Len(cidrs)
        /\ AddressCount(cidrs) \in Nat /\ Cardinality(Reached(cidrs)) <= AddressCount(cidrs)
    BY <2>1, ResolutionIsExact
  <2>3. Confirmed(bans[b])
    BY <2>1 DEF RangeInv, RecordOK
  <2>4. /\ Len(cidrs) <= PerRuleMax /\ (RequiresOverride(cidrs) => bans[b].share)
        /\ \A a \in bans[b].seen.operators : \A i \in DOMAIN cidrs :
             Covers(cidrs[i], a) => bans[b].self
    BY <2>1, <2>3 DEF Confirmed
  <2>5. IsFiniteSet(Reached(cidrs))
    <3>1. Reached(cidrs) \subseteq Addresses /\ IsFiniteSet(Addresses)
      BY BlockSizes, FS_Interval DEF Reached, Block, Addresses
    <3> QED
      BY <3>1, FS_Subset
  <2> HIDE DEF cidrs
  <2>6. /\ Cardinality(Reached(cidrs)) \in Nat /\ Cardinality(Reach(b)) \in Nat
        /\ Cardinality(Reach(b)) <= Cardinality(Reached(cidrs))
    BY <2>1, <2>5, FS_CardinalityType, FS_Subset
  <2>7. Cardinality(Reach(b)) > ShareMax => bans[b].share
    <3>1. Cardinality(Reach(b)) > ShareMax => AddressCount(cidrs) > ShareMax
      BY <2>2, <2>6, RangeBansAssumption
    <3> QED
      BY <2>1, <2>4, <3>1 DEF RequiresOverride
  <2>8. Reach(b) \intersect bans[b].seen.operators # {} => bans[b].self
    <3> SUFFICES ASSUME NEW a \in bans[b].seen.operators, a \in Reached(cidrs) PROVE bans[b].self
      BY <2>1
    <3>1. PICK i \in DOMAIN cidrs : a \in Block(cidrs[i])
      BY DEF Reached, Rows
    <3> QED
      BY <2>4, <3>1 DEF Block
  <2>9. Cardinality(bans[b].rows) <= PerRuleMax
    <3>1. /\ Cardinality(bans[b].rows) \in Nat /\ Len(cidrs) \in Nat
          /\ Cardinality(bans[b].rows) <= Len(cidrs)
      BY <2>1, <2>2, FS_CardinalityType, FS_Subset
    <3> QED
      BY <2>4, <3>1, RangeBansAssumption
  <2> QED
    BY <2>1, <2>7, <2>8, <2>9
<1> QED
  BY <1>1, RangeInvariant, PTL

=============================================================================
