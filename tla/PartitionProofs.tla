--------------------------- MODULE PartitionProofs ---------------------------
(***************************************************************************)
(* What block_partition promises, for every n and every number of parts:   *)
(* the blocks tile [0, n) in order, their sizes differ by at most one, and *)
(* every element lies in exactly one of them.  And the arithmetic of the   *)
(* round robin in execute_chunks: thread t visits the chunks congruent to  *)
(* t modulo the number of workers, one after the other, so every chunk has *)
(* exactly one thread that visits it.                                      *)
(***************************************************************************)
EXTENDS Partition, TLAPS

\* Division with remainder, in the form the proofs below use it.
LEMMA DivisionFacts ==
  ASSUME NEW n \in Nat, NEW p \in Nat, p > 0
  PROVE  /\ n \div p \in Nat
         /\ n % p \in 0..(p - 1)
         /\ n = p * (n \div p) + (n % p)
  OBVIOUS

\* Multiplication by a natural number is monotone.
LEMMA ProductMonotone ==
  ASSUME NEW a \in Nat, NEW b \in Nat, NEW c \in Nat, a <= b
  PROVE  a * c <= b * c
  OBVIOUS

\* Begin, end and size of a block of a legal partition.
LEMMA BlockShape ==
  ASSUME NEW n \in Nat, NEW p \in Nat, p > 0, NEW k \in 0..(p - 1)
  PROVE  /\ BlockBegin(n, p, k) \in Nat
         /\ BlockSize(n, p, k) \in Nat
         /\ block_partition(n, p, k).begin = BlockBegin(n, p, k)
         /\ block_partition(n, p, k).end = BlockBegin(n, p, k) + BlockSize(n, p, k)
  <1> DEFINE base == n \div p
             rem == n % p
  <1>1. base \in Nat /\ rem \in 0..(p - 1)
    BY DivisionFacts
  <1>2. k * base \in Nat
    <2> HIDE DEF base
    <2> QED BY <1>1
  <1>3. BlockBegin(n, p, k) = k * base + Lesser(k, rem)
    BY DEF BlockBegin
  <1>4. BlockSize(n, p, k) = base + (IF k < rem THEN 1 ELSE 0)
    BY DEF BlockSize
  <1> HIDE DEF base, rem
  <1>5. BlockBegin(n, p, k) \in Nat
    BY <1>1, <1>2, <1>3 DEF Lesser
  <1>6. BlockSize(n, p, k) \in Nat
    BY <1>1, <1>4
  <1>7. ~(p <= 0 \/ k < 0 \/ k >= p)
    OBVIOUS
  <1> QED
    BY <1>5, <1>6, <1>7 DEF block_partition, RangeOf

\* The blocks are contiguous: each begins where the one before it ends.
THEOREM BlocksContiguous ==
  ASSUME NEW n \in Nat, NEW p \in Nat, p > 0, NEW k \in 0..(p - 2)
  PROVE  block_partition(n, p, k).end = block_partition(n, p, k + 1).begin
  <1> DEFINE base == n \div p
             rem == n % p
  <1>1. base \in Nat /\ rem \in 0..(p - 1)
    BY DivisionFacts
  <1>2. /\ block_partition(n, p, k).end = BlockBegin(n, p, k) + BlockSize(n, p, k)
        /\ block_partition(n, p, k + 1).begin = BlockBegin(n, p, k + 1)
    <2>1. k \in 0..(p - 1) /\ k + 1 \in 0..(p - 1)
      OBVIOUS
    <2> QED BY <2>1, BlockShape
  <1>3. /\ BlockBegin(n, p, k) = k * base + Lesser(k, rem)
        /\ BlockBegin(n, p, k + 1) = (k + 1) * base + Lesser(k + 1, rem)
        /\ BlockSize(n, p, k) = base + (IF k < rem THEN 1 ELSE 0)
    BY DEF BlockBegin, BlockSize
  <1> HIDE DEF base, rem
  <1>4. (k + 1) * base = k * base + base
    BY <1>1
  <1>5. k * base \in Nat
    BY <1>1
  <1> QED
    BY <1>1, <1>2, <1>3, <1>4, <1>5 DEF Lesser

\* The first block begins at zero and the last one ends at n.
THEOREM BlocksSpan ==
  ASSUME NEW n \in Nat, NEW p \in Nat, p > 0
  PROVE  /\ block_partition(n, p, 0).begin = 0
         /\ block_partition(n, p, p - 1).end = n
  <1> DEFINE base == n \div p
             rem == n % p
  <1>1. base \in Nat /\ rem \in 0..(p - 1) /\ n = p * base + rem
    BY DivisionFacts
  <1>2. /\ block_partition(n, p, 0).begin = BlockBegin(n, p, 0)
        /\ block_partition(n, p, p - 1).end
             = BlockBegin(n, p, p - 1) + BlockSize(n, p, p - 1)
    <2>1. 0 \in 0..(p - 1) /\ p - 1 \in 0..(p - 1)
      OBVIOUS
    <2> QED BY <2>1, BlockShape
  <1>3. /\ BlockBegin(n, p, 0) = 0 * base + Lesser(0, rem)
        /\ BlockBegin(n, p, p - 1) = (p - 1) * base + Lesser(p - 1, rem)
        /\ BlockSize(n, p, p - 1) = base + (IF p - 1 < rem THEN 1 ELSE 0)
    BY DEF BlockBegin, BlockSize
  <1> HIDE DEF base, rem
  <1>4. (p - 1) * base = p * base - base /\ 0 * base = 0 /\ p * base \in Nat
    BY <1>1
  <1> QED
    BY <1>1, <1>2, <1>3, <1>4 DEF Lesser

\* Block sizes differ by at most one, so no worker is given two elements more
\* than another.
THEOREM BlocksBalanced ==
  ASSUME NEW n \in Nat, NEW p \in Nat, p > 0,
         NEW k \in 0..(p - 1), NEW l \in 0..(p - 1)
  PROVE  RangeSize(block_partition(n, p, k)) - RangeSize(block_partition(n, p, l))
           \in {-1, 0, 1}
  <1>1. n \div p \in Nat /\ n % p \in Nat
    BY DivisionFacts
  <1>2. /\ RangeSize(block_partition(n, p, k)) = BlockSize(n, p, k)
        /\ RangeSize(block_partition(n, p, l)) = BlockSize(n, p, l)
    <2>1. ASSUME NEW j \in 0..(p - 1)
          PROVE  RangeSize(block_partition(n, p, j)) = BlockSize(n, p, j)
      <3>1. /\ BlockBegin(n, p, j) \in Nat
            /\ BlockSize(n, p, j) \in Nat
            /\ block_partition(n, p, j).begin = BlockBegin(n, p, j)
            /\ block_partition(n, p, j).end = BlockBegin(n, p, j) + BlockSize(n, p, j)
        BY BlockShape
      <3> QED BY <3>1 DEF RangeSize
    <2> QED BY <2>1
  <1> QED
    BY <1>1, <1>2 DEF BlockSize

\* Blocks of smaller index lie entirely below blocks of larger index.
LEMMA BlocksOrdered ==
  ASSUME NEW n \in Nat, NEW p \in Nat, p > 0,
         NEW k \in 0..(p - 1), NEW l \in 0..(p - 1), k < l
  PROVE  block_partition(n, p, k).end <= block_partition(n, p, l).begin
  <1> DEFINE base == n \div p
             rem == n % p
  <1>1. base \in Nat /\ rem \in 0..(p - 1)
    BY DivisionFacts
  <1>2. /\ block_partition(n, p, k).end = BlockBegin(n, p, k) + BlockSize(n, p, k)
        /\ block_partition(n, p, l).begin = BlockBegin(n, p, l)
    BY BlockShape
  <1>3. /\ BlockBegin(n, p, k) = k * base + Lesser(k, rem)
        /\ BlockBegin(n, p, l) = l * base + Lesser(l, rem)
        /\ BlockSize(n, p, k) = base + (IF k < rem THEN 1 ELSE 0)
    BY DEF BlockBegin, BlockSize
  <1> HIDE DEF base, rem
  <1>4. (k + 1) * base <= l * base
    BY <1>1, ProductMonotone
  <1>5. (k + 1) * base = k * base + base /\ k * base \in Nat /\ l * base \in Nat
    BY <1>1
  <1> QED
    BY <1>1, <1>2, <1>3, <1>4, <1>5 DEF Lesser

\* No element is given to two blocks.
THEOREM BlocksDisjoint ==
  ASSUME NEW n \in Nat, NEW p \in Nat, p > 0,
         NEW k \in 0..(p - 1), NEW l \in 0..(p - 1), k # l,
         NEW i \in Int, InRange(i, block_partition(n, p, k))
  PROVE  ~ InRange(i, block_partition(n, p, l))
  <1>1. ASSUME NEW a \in 0..(p - 1), NEW b \in 0..(p - 1), a < b
        PROVE  ~ (InRange(i, block_partition(n, p, a)) /\ InRange(i, block_partition(n, p, b)))
    <2>1. block_partition(n, p, a).end <= block_partition(n, p, b).begin
      BY <1>1, BlocksOrdered
    <2>2. block_partition(n, p, a).end \in Int
      <3>1. /\ BlockBegin(n, p, a) \in Nat
            /\ BlockSize(n, p, a) \in Nat
            /\ block_partition(n, p, a).end = BlockBegin(n, p, a) + BlockSize(n, p, a)
        BY BlockShape
      <3> QED BY <3>1
    <2>3. block_partition(n, p, b).begin \in Int
      <3>1. /\ BlockBegin(n, p, b) \in Nat
            /\ block_partition(n, p, b).begin = BlockBegin(n, p, b)
        BY BlockShape
      <3> QED BY <3>1
    <2> QED BY <2>1, <2>2, <2>3 DEF InRange
  <1>2. CASE k < l
    BY <1>1, <1>2
  <1>3. CASE l < k
    BY <1>1, <1>3
  <1> QED BY <1>2, <1>3

\* The block an element belongs to, computed rather than searched for.
BlockOf(n, p, i) ==
  LET base == n \div p
      rem == n % p
  IN  IF i < rem * (base + 1)
      THEN i \div (base + 1)
      ELSE rem + ((i - rem * (base + 1)) \div base)

\* No element is dropped: every i in [0, n) lies in block BlockOf(n, p, i).
THEOREM BlocksCover ==
  ASSUME NEW n \in Nat, NEW p \in Nat, p > 0, NEW i \in 0..(n - 1)
  PROVE  /\ BlockOf(n, p, i) \in 0..(p - 1)
         /\ InRange(i, block_partition(n, p, BlockOf(n, p, i)))
  <1> DEFINE base == n \div p
             rem == n % p
             big == rem * (base + 1)
             k == BlockOf(n, p, i)
  <1>1. base \in Nat /\ rem \in 0..(p - 1) /\ n = p * base + rem
    BY DivisionFacts
  <1>2. k = IF i < big THEN i \div (base + 1) ELSE rem + ((i - big) \div base)
    BY DEF BlockOf
  <1>3. ASSUME k \in 0..(p - 1), k * base + Lesser(k, rem) <= i,
               i < k * base + Lesser(k, rem) + base + (IF k < rem THEN 1 ELSE 0)
        PROVE  /\ k \in 0..(p - 1)
               /\ InRange(i, block_partition(n, p, k))
    <2>1. /\ block_partition(n, p, k).begin = BlockBegin(n, p, k)
          /\ block_partition(n, p, k).end = BlockBegin(n, p, k) + BlockSize(n, p, k)
      <3> HIDE DEF k
      <3> QED BY <1>3, BlockShape
    <2>2. /\ BlockBegin(n, p, k) = k * base + Lesser(k, rem)
          /\ BlockSize(n, p, k) = base + (IF k < rem THEN 1 ELSE 0)
      BY DEF BlockBegin, BlockSize
    <2>3. k * base \in Int /\ Lesser(k, rem) \in Int
      <3> HIDE DEF k, base, rem
      <3> QED BY <1>1, <1>3 DEF Lesser
    <2> HIDE DEF k, base, rem
    <2> QED BY <1>1, <1>3, <2>1, <2>2, <2>3 DEF InRange
  <1> HIDE DEF base, rem, k
  <1>4. big \in Nat /\ big = rem * base + rem
    BY <1>1
  <1>5. CASE i < big
    <2> DEFINE d == base + 1
    <2>1. d \in Nat /\ d > 0
      BY <1>1
    <2>2. k = i \div d
      BY <1>2, <1>5
    <2> HIDE DEF d
    <2>3. k \in Nat /\ (i % d) \in 0..(d - 1) /\ i = d * k + (i % d)
      BY <2>1, <2>2, DivisionFacts
    <2>4. k < rem
      <3> SUFFICES ASSUME k >= rem PROVE FALSE
        BY <1>1, <2>3
      <3>1. rem * d <= k * d
        BY <1>1, <2>1, <2>3, ProductMonotone
      <3>2. k * d = d * k /\ rem * d = big /\ d * k \in Nat
        BY <1>1, <2>1, <2>3 DEF d
      <3> QED BY <1>4, <1>5, <2>3, <3>1, <3>2
    <2>5. d * k = k * base + k /\ k * base \in Nat
      BY <1>1, <2>3 DEF d
    <2>6. k * base + k <= i /\ i < k * base + k + base + 1
      BY <1>1, <2>1, <2>3, <2>5 DEF d
    <2> QED
      <3>1. k \in 0..(p - 1) /\ Lesser(k, rem) = k
        BY <1>1, <2>3, <2>4 DEF Lesser
      <3> QED BY <1>3, <2>4, <2>6, <3>1, <1>1, <2>5 DEF k
  <1>6. CASE i >= big
    <2>1. base > 0
      <3> SUFFICES ASSUME base = 0 PROVE FALSE
        BY <1>1
      <3>1. p * base = 0 /\ rem * base = 0
        BY <1>1
      <3> QED BY <1>1, <1>4, <1>6, <3>1
    <2> DEFINE j == i - big
               q == j \div base
    <2>2. j \in Nat
      BY <1>4, <1>6
    <2> HIDE DEF j
    <2>3. q \in Nat /\ (j % base) \in 0..(base - 1) /\ j = base * q + (j % base)
      BY <1>1, <2>1, <2>2, DivisionFacts
    <2>4. k = rem + q
      BY <1>2, <1>4, <1>6, <1>1 DEF j
    <2> HIDE DEF q
    <2>5. base * q \in Nat /\ rem * base \in Nat /\ p * base \in Nat
      BY <1>1, <2>3
    <2>6. k * base = rem * base + base * q
      BY <1>1, <2>3, <2>4
    <2>7. k * base + rem <= i /\ i < k * base + rem + base
      BY <1>1, <1>4, <2>2, <2>3, <2>5, <2>6 DEF j
    <2>8. k < p
      <3> SUFFICES ASSUME k >= p PROVE FALSE
        BY <1>1, <2>3, <2>4
      <3>1. p * base <= k * base
        BY <1>1, <2>3, <2>4, ProductMonotone
      <3> QED BY <1>1, <2>5, <2>6, <2>7, <3>1
    <2> QED
      <3>1. k \in 0..(p - 1) /\ k >= rem /\ Lesser(k, rem) = rem /\ ~(k < rem)
        BY <1>1, <2>3, <2>4, <2>8 DEF Lesser
      <3> QED BY <1>3, <2>7, <3>1, <1>1, <2>6, <2>5 DEF k
  <1> QED
    BY <1>4, <1>5, <1>6 DEF k

-----------------------------------------------------------------------------
(* The round robin over the chunks. *)

\* Quotient and remainder are unique.
LEMMA DivisionUnique ==
  ASSUME NEW p \in Nat, p > 0, NEW a \in Nat, NEW b \in Nat,
         NEW r \in 0..(p - 1), NEW s \in 0..(p - 1),
         a * p + r = b * p + s
  PROVE  a = b /\ r = s
  <1>1. ASSUME NEW x \in Nat, NEW y \in Nat, x < y PROVE x * p + p <= y * p
    <2>1. (x + 1) * p <= y * p
      BY <1>1, ProductMonotone
    <2>2. (x + 1) * p = x * p + p
      OBVIOUS
    <2> QED BY <2>1, <2>2
  <1>2. a * p \in Nat /\ b * p \in Nat
    OBVIOUS
  <1>3. ~ (a < b) /\ ~ (b < a)
    BY <1>1, <1>2
  <1> QED
    BY <1>3

\* A step of the loop keeps the thread on its own residue.
LEMMA StrideKeepsResidue ==
  ASSUME NEW c \in Nat, NEW p \in Nat, p > 0
  PROVE  (c + p) % p = c % p
  <1> DEFINE q == c \div p
             r == c % p
             q2 == (c + p) \div p
             r2 == (c + p) % p
  <1>1. /\ q \in Nat /\ r \in 0..(p - 1) /\ c = p * q + r
        /\ q2 \in Nat /\ r2 \in 0..(p - 1) /\ c + p = p * q2 + r2
    BY DivisionFacts
  <1> HIDE DEF q, r, q2, r2
  <1>2. (q + 1) * p + r = q2 * p + r2
    <2>1. (q + 1) * p = p * q + p /\ q2 * p = p * q2
      BY <1>1
    <2> QED BY <1>1, <2>1
  <1>3. r2 = r
    <2>1. q + 1 \in Nat
      BY <1>1
    <2> QED BY <1>1, <1>2, <2>1, DivisionUnique
  <1> QED
    BY <1>3 DEF r, r2

\* Two chunks of the same residue are a whole stride apart.
LEMMA SameResidueApart ==
  ASSUME NEW c \in Nat, NEW k \in Nat, NEW p \in Nat, p > 0,
         c % p = k % p, c < k
  PROVE  c + p <= k
  <1> DEFINE q == c \div p
             r == c % p
             q2 == k \div p
  <1>1. /\ q \in Nat /\ r \in 0..(p - 1) /\ c = p * q + r
        /\ q2 \in Nat /\ k = p * q2 + r
    BY DivisionFacts
  <1> HIDE DEF q, r, q2
  <1>2. p * q \in Nat /\ p * q2 \in Nat
    BY <1>1
  <1>3. q < q2
    <2>1. SUFFICES ASSUME q2 <= q PROVE FALSE
      BY <1>1
    <2>2. q2 * p <= q * p
      BY <1>1, <2>1, ProductMonotone
    <2>3. q2 * p = p * q2 /\ q * p = p * q
      BY <1>1
    <2> QED BY <1>1, <1>2, <2>2, <2>3
  <1>4. (q + 1) * p <= q2 * p
    <2>1. q + 1 \in Nat /\ q + 1 <= q2
      BY <1>1, <1>3
    <2> QED BY <1>1, <2>1, ProductMonotone
  <1>5. (q + 1) * p = p * q + p /\ q2 * p = p * q2
    BY <1>1
  <1> QED
    BY <1>1, <1>2, <1>4, <1>5

\* The first chunk a thread visits has its own number.
LEMMA OwnResidue ==
  ASSUME NEW p \in Nat, p > 0, NEW t \in 0..(p - 1)
  PROVE  t % p = t
  <1> DEFINE q == t \div p
             r == t % p
  <1>1. q \in Nat /\ r \in 0..(p - 1) /\ t = p * q + r
    BY DivisionFacts
  <1> HIDE DEF q, r
  <1>2. 0 * p + t = q * p + r
    BY <1>1
  <1>3. t = r
    BY <1>1, <1>2, DivisionUnique
  <1> QED
    BY <1>3 DEF r

=============================================================================
