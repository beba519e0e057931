------------------------- MODULE DistributedDataProofs -------------------------
(***************************************************************************)
(* What the ranks of a distributed solve read, for every number of ranks,  *)
(* units, blocks and repetitions and every method and option: which values *)
(* a rank holds wherever it is in the solve, which ones the messages,      *)
(* turns and collectives bring, and so that no update and no residual      *)
(* combines anything but what the sequential method combines.  Then the    *)
(* order: one repetition updates the units as Wavefront says.              *)
(***************************************************************************)
EXTENDS DistributedSweepProofs

-----------------------------------------------------------------------------
(***************************************************************************)
(* The values.  What a rank holds of a unit is fresh after k passes if it  *)
(* is what the sequential method has then.  Where a rank is in the driver  *)
(* says which units it must hold fresh: its own between passes, and those  *)
(* its next pass reads once they were exchanged, gathered or handed on.    *)
(***************************************************************************)

Fresh(row, k) == \A c \in Colours : row[c] = Latest(c, k)
FreshOn(x, S, k) == \A u \in S : Fresh(x[u], k)

\* No value is wrong, and none is newer than this.
Bounded(row, k) == \A c \in Colours : row[c] \in {Ring} \cup 0..k

Own(r) == UnitsOf(PointRange(r))
OwnBlocks(r) == UnitsOf(OwnedRows(r))

\* The units the passes of a rank read or write.
Seen(r) ==
  IF ~ Grid THEN Units
  ELSE IF Own(r) = {} THEN {} ELSE (UpperHalo(r)..LowerHalo(r)) \cap Units

\* The items of all ranks and a rank's share; those whose units its copy has
\* in their new state when the items left are still to be updated.
ItemCount(kind) == IF FlatBlocks(kind) THEN BlockCount ELSE N
ShareOf(r, kind) == local_rows(r, ItemCount(kind))
ItemDone(r, kind, left, i) ==
  \/ i \in ItemsOf(r, kind) /\ i \notin left
  \/ kind \in Ascending /\ i <= ShareOf(r, kind).begin
  \/ kind \in Descending /\ i > ShareOf(r, kind).end
UnitDone(r, kind, left, u) ==
  \E i \in 1..ItemCount(kind) : u \in UnitsIn(i, kind) /\ ItemDone(r, kind, left, i)

\* What is left to update is the rest of the items, in the order of the pass.
RestOf(r, kind, left) ==
  /\ left \subseteq ItemsOf(r, kind)
  /\ kind \in Ascending =>
       \A i \in left, j \in ItemsOf(r, kind) : j > i => j \in left
  /\ kind \in Descending =>
       \A i \in left, j \in ItemsOf(r, kind) : j < i => j \in left

\* The slot a pass writes.
TargetAt(k, slot) ==
  IF PassAt(k + 1) # "jacobi" THEN slot
  ELSE IF slot = "iterate" THEN "work" ELSE "iterate"

\* The copy x a rank works on in pass k + 1, and what else such a pass has:
\* the copy it fills, or the one of its beginning.
WorkRight(r, k, x, left) ==
  \A u \in Seen(r) :
    Fresh(x[u], IF PassAt(k + 1) # "jacobi" /\ UnitDone(r, PassAt(k + 1), left, u)
                THEN k + 1 ELSE k)
BesideRight(r, k, cells, slot, left) ==
  /\ PassAt(k + 1) = "jacobi" => FreshOn(cells[TargetAt(k, slot)], Own(r) \ left, k + 1)
  /\ PassAt(k + 1) = "block_jacobi" => FreshOn(cells["previous"], Seen(r), k)

-----------------------------------------------------------------------------
(* Who owns what, once more: ranks without rows are the last ones, and the *)
(* items of a pass are in the order of the units they cover.               *)

\* An empty block lies at the end of the range.
LEMMA EmptyBlockIsLast ==
  ASSUME NEW n \in Nat, NEW p \in Nat, p > 0, NEW k \in 0..(p - 1),
         ~ (block_partition(n, p, k).begin < block_partition(n, p, k).end)
  PROVE  block_partition(n, p, k).begin = n
<1>1. PICK base, rem : base = n \div p /\ rem = n % p
  OBVIOUS
<1>2. base \in Nat /\ rem \in 0..(p - 1) /\ n = p * base + rem
  BY <1>1, DivisionFacts
<1>3. PICK b, d : b = BlockBegin(n, p, k) /\ d = BlockSize(n, p, k)
  OBVIOUS
<1>4. b \in Nat /\ d \in Nat /\ d = 0
  <2>1. b \in Nat /\ d \in Nat /\ ~ (b < b + d)
    BY <1>3, BlockShape
  <2>. QED  BY <2>1
<1>5. d = base + (IF k < rem THEN 1 ELSE 0)
  BY <1>1, <1>3 DEF BlockSize
<1>6. base = 0 /\ ~ (k < rem)
  BY <1>2, <1>4, <1>5
<1>7. n = rem
  BY <1>2, <1>6
<1>8. b = k * base + Lesser(k, rem)
  BY <1>1, <1>3 DEF BlockBegin
<1>9. b = rem
  BY <1>2, <1>6, <1>8 DEF Lesser
<1>. QED  BY <1>3, <1>7, <1>9, BlockShape

\* Where there are at least as many elements as parts, no part is empty.
LEMMA BlockHolds ==
  ASSUME NEW n \in Nat, NEW p \in Nat, p > 0, p <= n, NEW k \in 0..(p - 1)
  PROVE  block_partition(n, p, k).begin < block_partition(n, p, k).end
<1>1. PICK base, rem : base = n \div p /\ rem = n % p
  OBVIOUS
<1>2. base \in Nat /\ rem \in 0..(p - 1) /\ n = p * base + rem
  BY <1>1, DivisionFacts
<1>3. base # 0
  BY <1>2
<1>4. PICK b, d : b = BlockBegin(n, p, k) /\ d = BlockSize(n, p, k)
  OBVIOUS
<1>5. b \in Nat /\ d \in Nat
  BY <1>4, BlockShape
<1>6. d = base + (IF k < rem THEN 1 ELSE 0)
  BY <1>1, <1>4 DEF BlockSize
<1>7. b < b + d
  BY <1>2, <1>3, <1>5, <1>6
<1>. QED  BY <1>4, <1>7, BlockShape

\* Every element lies in some block.
LEMMA BlockFor ==
  ASSUME NEW n \in Nat, NEW p \in Nat, p > 0, NEW i \in 1..n
  PROVE  \E k \in 0..(p - 1) : i \in UnitsOf(block_partition(n, p, k))
<1>1. PICK j : j = i - 1
  OBVIOUS
<1>2. j \in 0..(n - 1) /\ i = j + 1
  BY <1>1
<1>3. PICK k \in 0..(p - 1) : InRange(j, block_partition(n, p, k))
  BY <1>2, BlocksCover
<1>4. PICK b, e : b = block_partition(n, p, k).begin /\ e = block_partition(n, p, k).end
  OBVIOUS
<1>5. b \in 0..n /\ e \in 0..n /\ b <= j /\ j < e
  BY <1>3, <1>4, BlockWithin DEF InRange
<1>6. i \in (b + 1)..e
  BY <1>2, <1>5
<1>. QED  BY <1>4, <1>6 DEF UnitsOf

\* The items of a pass and those of a rank.
LEMMA ItemNumbers ==
  ASSUME NEW kind
  PROVE  /\ ItemCount(kind) \in 1..N
         /\ \A r \in Ranks : /\ ItemsOf(r, kind) = UnitsOf(ShareOf(r, kind))
                             /\ ItemsOf(r, kind) \subseteq 1..ItemCount(kind)
                             /\ ShareOf(r, kind).begin \in 0..ItemCount(kind)
                             /\ ShareOf(r, kind).end \in 0..ItemCount(kind)
                             /\ ShareOf(r, kind).begin <= ShareOf(r, kind).end
<1>1. ItemCount(kind) \in 1..N
  BY SweepAssumption DEF ItemCount
<1>2. ItemCount(kind) \in Nat
  BY <1>1, SweepAssumption
<1>3. ASSUME NEW r \in Ranks PROVE ItemsOf(r, kind) = UnitsOf(ShareOf(r, kind))
  BY DEF ItemsOf, ShareOf, ItemCount, PointRange
<1>. QED  BY <1>1, <1>2, <1>3, RangeWithin DEF ShareOf

\* The ranks' shares of the items follow one another and take them all.
LEMMA SharesMeet ==
  ASSUME NEW kind
  PROVE  /\ \A r \in Uppers : ShareOf(r, kind).end = ShareOf(r + 1, kind).begin
         /\ ShareOf(0, kind).begin = 0
         /\ ShareOf(P - 1, kind).end = ItemCount(kind)
<1>1. ItemCount(kind) \in Nat /\ P \in Nat /\ P > 0
  BY ItemNumbers, SweepAssumption, RanksAssumption
<1>. QED  BY <1>1, BlocksContiguous, BlocksSpan DEF ShareOf, local_rows, Uppers

\* The units of an item: at least one, and they come before those of the next.
LEMMA ItemUnits ==
  ASSUME NEW kind, NEW i \in 1..ItemCount(kind)
  PROVE  UnitsIn(i, kind) \subseteq Units /\ UnitsIn(i, kind) # {}
<1>1. N \in Nat \ {0} /\ BlockCount \in 1..N
  BY SweepAssumption
<1>2. CASE ~ FlatBlocks(kind)
  BY <1>1, <1>2 DEF UnitsIn, ItemCount, Units
<1>3. CASE FlatBlocks(kind)
  <2>1. i \in 1..BlockCount /\ i - 1 \in 0..(BlockCount - 1)
    BY <1>1, <1>3 DEF ItemCount
  <2>2. PICK b, e : /\ b = block_partition(N, BlockCount, i - 1).begin
                    /\ e = block_partition(N, BlockCount, i - 1).end
    OBVIOUS
  <2>3. BlockCount \in Nat /\ BlockCount > 0 /\ BlockCount <= N /\ N \in Nat
    BY <1>1
  <2>4. b \in 0..N /\ e \in 0..N /\ b < e
    BY <2>1, <2>2, <2>3, BlockWithin, BlockHolds
  <2>5. UnitsIn(i, kind) = (b + 1)..e
    BY <1>3, <2>2 DEF UnitsIn, UnitsOf
  <2>. QED  BY <2>3, <2>4, <2>5 DEF Units
<1>. QED  BY <1>2, <1>3

\* Items are numbered in the order of their units.
LEMMA ItemsInOrder ==
  ASSUME NEW kind, NEW i \in 1..ItemCount(kind), NEW j \in 1..ItemCount(kind), i < j,
         NEW u \in UnitsIn(i, kind), NEW v \in UnitsIn(j, kind)
  PROVE  u < v
<1>1. N \in Nat \ {0} /\ BlockCount \in 1..N
  BY SweepAssumption
<1>2. CASE ~ FlatBlocks(kind)
  BY <1>1, <1>2 DEF UnitsIn, ItemCount
<1>3. CASE FlatBlocks(kind)
  <2>1. /\ i \in 1..BlockCount /\ i - 1 \in 0..(BlockCount - 1)
        /\ j \in 1..BlockCount /\ j - 1 \in 0..(BlockCount - 1)
    BY <1>1, <1>3 DEF ItemCount
  <2>2. PICK b, e, c, f :
          /\ b = block_partition(N, BlockCount, i - 1).begin
          /\ e = block_partition(N, BlockCount, i - 1).end
          /\ c = block_partition(N, BlockCount, j - 1).begin
          /\ f = block_partition(N, BlockCount, j - 1).end
    OBVIOUS
  <2>3. BlockCount \in Nat /\ BlockCount > 0 /\ N \in Nat /\ i - 1 < j - 1
    BY <1>1, <2>1
  <2>4. b \in 0..N /\ e \in 0..N /\ c \in 0..N /\ f \in 0..N /\ e <= c
    BY <2>1, <2>2, <2>3, BlockWithin, BlocksOrdered
  <2>5. UnitsIn(i, kind) = (b + 1)..e /\ UnitsIn(j, kind) = (c + 1)..f
    BY <1>3, <2>2 DEF UnitsIn, UnitsOf
  <2>6. u \in (b + 1)..e /\ v \in (c + 1)..f
    BY <2>5
  <2>. QED  BY <2>4, <2>6
<1>. QED  BY <1>2, <1>3

\* Every unit lies in an item.
LEMMA ItemsCover ==
  ASSUME NEW kind, NEW u \in Units
  PROVE  \E i \in 1..ItemCount(kind) : u \in UnitsIn(i, kind)
<1>1. N \in Nat \ {0} /\ BlockCount \in 1..N
  BY SweepAssumption
<1>2. CASE ~ FlatBlocks(kind)
  BY <1>2 DEF UnitsIn, ItemCount, Units
<1>3. CASE FlatBlocks(kind)
  <2>1. PICK k \in 0..(BlockCount - 1) : u \in UnitsOf(block_partition(N, BlockCount, k))
    BY <1>1, BlockFor DEF Units
  <2>2. PICK i : i = k + 1
    OBVIOUS
  <2>3. i \in 1..BlockCount /\ i - 1 = k
    BY <1>1, <2>2
  <2>4. u \in UnitsIn(i, kind) /\ i \in 1..ItemCount(kind)
    BY <1>3, <2>1, <2>3 DEF UnitsIn, ItemCount
  <2>. QED  BY <2>4
<1>. QED  BY <1>2, <1>3

\* Every unit has a rank that owns it, and one that owns its block.
LEMMA OwnsCover ==
  ASSUME NEW u \in Units
  PROVE  \E q \in Ranks : u \in Own(q)
<1>1. N \in Nat /\ P \in Nat /\ P > 0 /\ u \in 1..N
  BY SweepAssumption, RanksAssumption DEF Units
<1>2. PICK q \in 0..(P - 1) : u \in UnitsOf(block_partition(N, P, q))
  BY <1>1, BlockFor
<1>. QED  BY <1>2 DEF Own, PointRange, local_rows, Ranks

\* The rows of a rank's blocks are the units of its items.
LEMMA BlocksOwned ==
  ASSUME NEW kind, FlatBlocks(kind), NEW r \in Ranks
  PROVE  /\ \A u \in OwnBlocks(r) : \E i \in ItemsOf(r, kind) : u \in UnitsIn(i, kind)
         /\ \A i \in ItemsOf(r, kind) : UnitsIn(i, kind) \subseteq OwnBlocks(r)
         /\ OwnBlocks(r) \subseteq Units
<1>1. N \in Nat \ {0} /\ BlockCount \in 1..N /\ BlockCount \in Nat /\ BlockCount > 0 /\ N \in Nat
  BY SweepAssumption
<1>2. PICK mine, b, e : mine = local_rows(r, BlockCount) /\ b = mine.begin /\ e = mine.end
  OBVIOUS
<1>3. b \in 0..BlockCount /\ e \in 0..BlockCount /\ ItemsOf(r, kind) = (b + 1)..e
  BY <1>1, <1>2, RangeWithin DEF ItemsOf, UnitsOf
<1>4. CASE b >= e
  <2>1. OwnBlocks(r) = {}
    BY <1>2, <1>4 DEF OwnBlocks, OwnedRows, UnitsOf, EmptyRange, RangeOf
  <2>2. ItemsOf(r, kind) = {}
    BY <1>3, <1>4
  <2>. QED  BY <2>1, <2>2
<1>5. CASE ~ (b >= e)
  <2>1. b \in 0..(BlockCount - 1) /\ e - 1 \in 0..(BlockCount - 1)
    BY <1>1, <1>3, <1>5
  <2>2. PICK first, last : /\ first = block_partition(N, BlockCount, b).begin
                           /\ last = block_partition(N, BlockCount, e - 1).end
    OBVIOUS
  <2>3. OwnBlocks(r) = (first + 1)..last
    BY <1>2, <1>5, <2>2 DEF OwnBlocks, OwnedRows, RangeOf, UnitsOf
  <2>4. first \in 0..N /\ last \in 0..N
    BY <1>1, <2>1, <2>2, BlockWithin
  <2>5. ASSUME NEW i \in 1..BlockCount, NEW u \in UnitsIn(i, kind)
        PROVE  /\ i \in ItemsOf(r, kind) => u \in OwnBlocks(r)
               /\ i \notin ItemsOf(r, kind) => u \notin OwnBlocks(r)
    <3>1. PICK k : k = i - 1
      OBVIOUS
    <3>2. k \in 0..(BlockCount - 1) /\ i = k + 1
      BY <1>1, <3>1
    <3>3. PICK c, d : /\ c = block_partition(N, BlockCount, k).begin
                      /\ d = block_partition(N, BlockCount, k).end
      OBVIOUS
    <3>4. c \in 0..N /\ d \in 0..N /\ u \in (c + 1)..d
      BY <1>1, <3>1, <3>2, <3>3, BlockWithin DEF UnitsIn, UnitsOf
    <3>5. PICK first2, last2 : /\ first2 = block_partition(N, BlockCount, b).end
                               /\ last2 = block_partition(N, BlockCount, e - 1).begin
      OBVIOUS
    <3>6. first2 \in 0..N /\ last2 \in 0..N /\ first <= first2 /\ last2 <= last
      BY <1>1, <2>1, <2>2, <3>5, BlockWithin
    <3>7. ASSUME k < b PROVE d <= first
      BY <1>1, <2>1, <2>2, <3>2, <3>3, <3>7, BlocksOrdered
    <3>8. ASSUME k > e - 1 PROVE last <= c
      BY <1>1, <2>1, <2>2, <3>2, <3>3, <3>8, BlocksOrdered
    <3>9. ASSUME b <= k PROVE first <= c
      <4>1. CASE b = k
        BY <2>2, <2>4, <3>3, <4>1
      <4>2. CASE b # k
        <5>1. first2 <= c
          BY <1>1, <2>1, <3>2, <3>3, <3>5, <3>9, <4>2, BlocksOrdered
        <5>. QED  BY <2>4, <3>4, <3>6, <5>1
      <4>. QED  BY <4>1, <4>2
    <3>10. ASSUME k <= e - 1 PROVE d <= last
      <4>1. CASE k = e - 1
        BY <2>2, <2>4, <3>3, <4>1
      <4>2. CASE k # e - 1
        <5>1. PICK l : l = e - 1
          OBVIOUS
        <5>2. l \in 0..(BlockCount - 1) /\ k < l
          BY <1>1, <2>1, <3>2, <3>10, <4>2, <5>1
        <5>3. d <= last2
          BY <1>1, <3>2, <3>3, <3>5, <5>1, <5>2, BlocksOrdered
        <5>. QED  BY <2>4, <3>4, <3>6, <5>3
      <4>. QED  BY <4>1, <4>2
    <3>11. i \in ItemsOf(r, kind) <=> b <= k /\ k <= e - 1
      BY <1>1, <1>3, <3>2
    <3>12. CASE b <= k /\ k <= e - 1
      BY <2>3, <2>4, <3>4, <3>9, <3>10, <3>11, <3>12
    <3>13. CASE k < b
      <4>1. u \notin OwnBlocks(r)
        BY <2>3, <2>4, <3>4, <3>7, <3>13
      <4>. QED  BY <1>3, <3>2, <3>11, <3>13, <4>1
    <3>14. CASE k > e - 1
      <4>1. u \notin OwnBlocks(r)
        BY <2>3, <2>4, <3>4, <3>8, <3>14
      <4>. QED  BY <1>3, <3>2, <3>11, <3>14, <4>1
    <3>. QED  BY <1>3, <3>2, <3>12, <3>13, <3>14
  <2>6. OwnBlocks(r) \subseteq Units
    BY <1>1, <2>3, <2>4 DEF Units
  <2>7. ItemCount(kind) = BlockCount
    BY DEF ItemCount
  <2>8. ItemsOf(r, kind) \subseteq 1..BlockCount
    BY <2>7, ItemNumbers
  <2>. QED  BY <2>5, <2>6, <2>7, <2>8, ItemsCover
<1>. QED  BY <1>4, <1>5

\* Every item is in the share of some rank.
LEMMA ItemsShared ==
  ASSUME NEW kind, NEW i \in 1..ItemCount(kind)
  PROVE  \E q \in Ranks : i \in ItemsOf(q, kind)
<1>1. ItemCount(kind) \in Nat /\ P \in Nat /\ P > 0
  BY ItemNumbers, SweepAssumption, RanksAssumption
<1>2. PICK q \in 0..(P - 1) : i \in UnitsOf(block_partition(ItemCount(kind), P, q))
  BY <1>1, BlockFor
<1>. QED  BY <1>2, ItemNumbers DEF ShareOf, local_rows, Ranks

\* Every unknown is gathered from a rank that solved its block.
LEMMA OwnBlocksCover ==
  ASSUME ~ Grid, NEW u \in Units
  PROVE  \E q \in Ranks : u \in OwnBlocks(q)
<1>1. FlatBlocks("block_jacobi")
  BY DEF FlatBlocks, ByBlocks
<1>2. PICK i \in 1..ItemCount("block_jacobi") : u \in UnitsIn(i, "block_jacobi")
  BY ItemsCover
<1>3. PICK q \in Ranks : i \in ItemsOf(q, "block_jacobi")
  BY ItemsShared
<1>. QED  BY <1>1, <1>2, <1>3, BlocksOwned

\* What a rank sends to one that has rows is a row of its own.
LEMMA SenderOwns ==
  ASSUME NEW r \in Uppers
  PROVE  /\ LowerHalo(r) \in Units /\ Own(r) # {} => LowerHalo(r) \in Own(r + 1)
         /\ UpperHalo(r + 1) \in Units /\ Own(r + 1) # {} => UpperHalo(r + 1) \in Own(r)
         /\ Own(r) = {} => LowerHalo(r) = N + 1 /\ Own(r + 1) = {}
<1>1. P \in Nat /\ P > 0 /\ N \in Nat \ {0} /\ N \in Nat /\ r \in Ranks /\ r + 1 \in Ranks
  BY RanksAssumption, SweepAssumption DEF Uppers, Ranks
<1>2. PICK b, e, c, f : b = UpperHalo(r) /\ e = LastOwned(r) /\ c = UpperHalo(r + 1) /\ f = LastOwned(r + 1)
  OBVIOUS
<1>3. /\ b \in 0..N /\ e \in 0..N /\ c \in 0..N /\ f \in 0..N /\ b <= e /\ c <= f /\ e = c
      /\ Own(r) = (b + 1)..e /\ Own(r + 1) = (c + 1)..f /\ LowerHalo(r) = e + 1
  BY <1>1, <1>2, RowsOf, RowsMeet DEF Own
<1>4. c < f \/ c = N
  <2>1. c = block_partition(N, P, r + 1).begin /\ f = block_partition(N, P, r + 1).end
    BY <1>2 DEF UpperHalo, LastOwned, Rows, PointRange, local_rows
  <2>. QED  BY <1>1, <2>1, EmptyBlockIsLast DEF Ranks
<1>5. b < e \/ b = N
  <2>1. b = block_partition(N, P, r).begin /\ e = block_partition(N, P, r).end
    BY <1>2 DEF UpperHalo, LastOwned, Rows, PointRange, local_rows
  <2>. QED  BY <1>1, <2>1, EmptyBlockIsLast DEF Ranks
<1>. QED  BY <1>1, <1>2, <1>3, <1>4, <1>5 DEF Units

\* The first and the last rank have the boundary beside them; one rank alone owns all.
LEMMA EdgeHalos ==
  /\ UpperHalo(0) = 0 /\ LowerHalo(P - 1) = N + 1
  /\ P = 1 => Own(0) = Units /\ OwnBlocks(0) = Units
<1>1. P \in Nat /\ P > 0 /\ N \in Nat \ {0} /\ N \in Nat /\ BlockCount \in 1..N
  BY RanksAssumption, SweepAssumption
<1>2. PointRange(0).begin = 0 /\ PointRange(P - 1).end = N
  BY <1>1, BlocksSpan DEF PointRange, local_rows
<1>3. UpperHalo(0) = 0 /\ LowerHalo(P - 1) = N + 1
  BY <1>2 DEF UpperHalo, LowerHalo, Rows
<1>4. ASSUME P = 1 PROVE Own(0) = Units
  BY <1>1, <1>2, <1>4 DEF Own, UnitsOf, Units
<1>5. ASSUME P = 1 PROVE OwnBlocks(0) = Units
  <2>1. PICK mine : mine = local_rows(0, BlockCount)
    OBVIOUS
  <2>2. BlockCount \in Nat /\ BlockCount > 0 /\ mine.begin = 0 /\ mine.end = BlockCount
    BY <1>1, <1>5, <2>1, BlocksSpan DEF local_rows
  <2>3. ~ (mine.begin >= mine.end)
    BY <2>2
  <2>4. /\ block_partition(N, BlockCount, mine.begin).begin = 0
        /\ block_partition(N, BlockCount, mine.end - 1).end = N
    BY <1>1, <2>2, BlocksSpan
  <2>5. OwnedRows(0) = RangeOf(0, N)
    BY <2>1, <2>3, <2>4 DEF OwnedRows
  <2>. QED  BY <1>1, <2>5 DEF OwnBlocks, UnitsOf, RangeOf, Units
<1>. QED  BY <1>3, <1>4, <1>5

-----------------------------------------------------------------------------
(* The last pass that wrote a colour. *)

\* The last pass that wrote a colour, one pass later.
LEMMA LatestIs ==
  ASSUME NEW c \in Colours, NEW k \in Nat
  PROVE  /\ Latest(c, k) \in 0..k
         /\ Latest(c, k + 1) = IF c \in Written(PassAt(k + 1)) THEN k + 1 ELSE Latest(c, k)
<1>. DEFINE S(n) == {0} \cup {j \in 1..n : c \in Written(PassAt(j))}
<1>1. ASSUME NEW n \in Nat
      PROVE  /\ Latest(c, n) \in S(n) /\ \A x \in S(n) : Latest(c, n) >= x
             /\ S(n) \subseteq 0..n
  <2>1. S(n) \subseteq 0..n /\ S(n) # {}
    OBVIOUS
  <2>. QED  BY <2>1, LargestOf DEF Latest
<1>2. k + 1 \in Nat
  OBVIOUS
<1>3. CASE c \in Written(PassAt(k + 1))
  <2>1. k + 1 \in S(k + 1)
    BY <1>3
  <2>. QED  BY <1>1, <1>2, <1>3, <2>1
<1>4. CASE c \notin Written(PassAt(k + 1))
  <2>1. S(k + 1) = S(k)
    <3>1. 1..(k + 1) = (1..k) \cup {k + 1}
      OBVIOUS
    <3>. QED  BY <1>4, <3>1
  <2>2. Latest(c, k + 1) = Latest(c, k)
    BY <2>1 DEF Latest
  <2>. QED  BY <1>1, <1>4, <2>2
<1>. QED  BY <1>3, <1>4

\* What is fresh is not newer than its pass.
LEMMA FreshIsBounded ==
  ASSUME NEW k \in Nat, NEW row, Fresh(row, k)
  PROVE  Bounded(row, k) /\ Bounded(row, k + 1)
BY LatestIs DEF Fresh, Bounded

\* Nor newer than a later one.
LEMMA BoundedLonger ==
  ASSUME NEW k \in Nat, NEW l \in Nat, k <= l, NEW row, Bounded(row, k)
  PROVE  Bounded(row, l)
BY DEF Bounded

\* The boundary is not newer than anything.
LEMMA RingIsBounded ==
  ASSUME NEW k \in Nat, NEW row, RingRow(row)
  PROVE  Bounded(row, k)
BY DEF RingRow, Bounded

\* What a solve starts from.
LEMMA InitiallyFresh ==
  /\ FreshOn(InitialState, Units, 0)
  /\ \A k \in Nat : \A u \in Stored : Bounded(InitialState[u], k)
<1>1. \A c \in Colours : Latest(c, 0) = 0
  BY LatestIs
<1>2. Units \subseteq Stored
  BY SweepAssumption DEF Units, Stored
<1>. QED  BY <1>1, <1>2 DEF FreshOn, Fresh, Bounded, InitialState

\* The kinds of pass.
LEMMA PassKinds ==
  ASSUME run \in Runs, NEW k \in Nat
  PROVE  PassAt(k + 1) \in {"jacobi", "forward", "backward", "red", "black", "block_jacobi",
                            "block_forward"}
<1>1. run.solver \in Solvers
  BY RunsAssumption
<1>2. PassesPerIteration \in {1, 2}
  BY PassCount
<1>3. PICK i : i = (k % PassesPerIteration) + 1
  OBVIOUS
<1>4. i \in 1..PassesPerIteration
  BY <1>2, <1>3
<1>5. PassAt(k + 1) = Passes(run.solver)[i]
  <2>1. (k + 1) - 1 = k
    OBVIOUS
  <2>. QED  BY <1>3, <2>1 DEF PassAt
<1>6. ASSUME NEW a, NEW b, Passes(run.solver) = <<a>> \/ Passes(run.solver) = <<a, b>>
      PROVE  PassAt(k + 1) \in {a, b}
  <2>1. CASE Passes(run.solver) = <<a>>
    <3>1. PassesPerIteration = 1
      BY <2>1 DEF PassesPerIteration
    <3>2. i = 1
      BY <1>4, <3>1
    <3>. QED  BY <1>5, <2>1, <3>2
  <2>2. CASE Passes(run.solver) = <<a, b>>
    <3>1. PassesPerIteration = 2
      BY <2>2 DEF PassesPerIteration
    <3>2. i = 1 \/ i = 2
      BY <1>4, <3>1
    <3>. QED  BY <1>5, <2>2, <3>2
  <2>. QED  BY <1>6, <2>1, <2>2
<1>7. \/ Passes(run.solver) = <<"jacobi">>
      \/ Passes(run.solver) = <<"forward">>
      \/ Passes(run.solver) = <<"backward">>
      \/ Passes(run.solver) = <<"forward", "backward">>
      \/ Passes(run.solver) = <<"red", "black">>
      \/ Passes(run.solver) = <<"block_jacobi">>
      \/ Passes(run.solver) = <<"block_forward">>
  BY <1>1 DEF Passes, Solvers
<1>. QED  BY <1>6, <1>7

\* A pass that trusts its copy follows one that leaves the copy whole.
LEMMA RelaxationsFollow ==
  ASSUME run \in Runs, NEW k \in Nat, PassAt(k + 2) \in {"forward", "backward"}
  PROVE  PassAt(k + 1) \in {"forward", "backward"}
<1>1. run.solver \in Solvers
  BY RunsAssumption
<1>2. PassesPerIteration \in {1, 2}
  BY PassCount
<1>3. PICK i, j : i = (k % PassesPerIteration) + 1 /\ j = ((k + 1) % PassesPerIteration) + 1
  OBVIOUS
<1>4. i \in 1..PassesPerIteration /\ j \in 1..PassesPerIteration
  BY <1>2, <1>3
<1>5. PassAt(k + 1) = Passes(run.solver)[i] /\ PassAt(k + 2) = Passes(run.solver)[j]
  <2>1. (k + 1) - 1 = k /\ (k + 2) - 1 = k + 1
    OBVIOUS
  <2>. QED  BY <1>3, <2>1 DEF PassAt
<1>6. ASSUME NEW a, Passes(run.solver) = <<a>>
      PROVE  PassAt(k + 1) = a /\ PassAt(k + 2) = a
  <2>1. PassesPerIteration = 1
    BY <1>6 DEF PassesPerIteration
  <2>2. i = 1 /\ j = 1
    BY <1>4, <2>1
  <2>. QED  BY <1>5, <1>6, <2>2
<1>7. ASSUME NEW a, NEW b, Passes(run.solver) = <<a, b>>
      PROVE  PassAt(k + 1) \in {a, b} /\ PassAt(k + 2) \in {a, b}
  <2>1. PassesPerIteration = 2
    BY <1>7 DEF PassesPerIteration
  <2>2. i \in {1, 2} /\ j \in {1, 2}
    BY <1>4, <2>1
  <2>. QED  BY <1>5, <1>7, <2>2
<1>8. \/ Passes(run.solver) \in {<<"jacobi">>, <<"forward">>, <<"backward">>, <<"block_jacobi">>,
                                 <<"block_forward">>}
      \/ Passes(run.solver) = <<"forward", "backward">>
      \/ Passes(run.solver) = <<"red", "black">>
  BY <1>1 DEF Passes, Solvers
<1>. QED  BY <1>6, <1>7, <1>8

-----------------------------------------------------------------------------
(***************************************************************************)
(* An update.  The units that have taken the running pass, in the copy of  *)
(* a rank, are those the sequential method has updated before.             *)
(***************************************************************************)

\* An item that is left was not updated, and shares no unit with another.
LEMMA LeftIsNotDone ==
  ASSUME NEW r \in Ranks, NEW kind, NEW left, RestOf(r, kind, left), NEW i \in left,
         NEW u \in UnitsIn(i, kind)
  PROVE  i \in 1..ItemCount(kind) /\ ~ UnitDone(r, kind, left, u)
<1>1. PICK n, b, e : n = ItemCount(kind) /\ b = ShareOf(r, kind).begin /\ e = ShareOf(r, kind).end
  OBVIOUS
<1>2. /\ n \in Nat /\ b \in 0..n /\ e \in 0..n /\ ItemsOf(r, kind) = (b + 1)..e
      /\ ItemsOf(r, kind) \subseteq 1..n
  BY <1>1, ItemNumbers, SweepAssumption DEF UnitsOf
<1>3. i \in (b + 1)..e /\ i \in 1..n
  BY <1>2 DEF RestOf
<1>4. ~ ItemDone(r, kind, left, i)
  BY <1>1, <1>2, <1>3 DEF ItemDone
<1>5. ASSUME NEW j \in 1..n, u \in UnitsIn(j, kind) PROVE j = i
  <2>1. ASSUME j < i PROVE FALSE
    <3>1. u < u
      BY <1>1, <1>3, <1>5, <2>1, ItemsInOrder
    <3>2. u \in Int
      BY <1>1, <1>3, ItemUnits, SweepAssumption DEF Units
    <3>. QED  BY <3>1, <3>2
  <2>2. ASSUME i < j PROVE FALSE
    <3>1. u < u
      BY <1>1, <1>3, <1>5, <2>2, ItemsInOrder
    <3>2. u \in Int
      BY <1>1, <1>3, ItemUnits, SweepAssumption DEF Units
    <3>. QED  BY <3>1, <3>2
  <2>. QED  BY <1>2, <1>3, <2>1, <2>2
<1>. QED  BY <1>1, <1>3, <1>4, <1>5 DEF UnitDone

\* The item an ordered pass takes next has all done before it, and none after.
NextOf(kind, left, i) ==
  /\ i \in left
  /\ kind \in Ascending => \A j \in left : i <= j
  /\ kind \in Descending => \A j \in left : i >= j

\* In an ordered pass exactly the items before the next one are done, on all ranks.
LEMMA DoneBeforeNext ==
  ASSUME NEW r \in Ranks, NEW kind \in Ascending \cup Descending, NEW left,
         RestOf(r, kind, left), NEW i, NextOf(kind, left, i),
         NEW j \in 1..ItemCount(kind), j # i
  PROVE  ItemDone(r, kind, left, j) <=> IF kind \in Ascending THEN j < i ELSE j > i
<1>1. PICK n, b, e : n = ItemCount(kind) /\ b = ShareOf(r, kind).begin /\ e = ShareOf(r, kind).end
  OBVIOUS
<1>2. /\ n \in Nat /\ b \in 0..n /\ e \in 0..n /\ ItemsOf(r, kind) = (b + 1)..e
      /\ ItemsOf(r, kind) \subseteq 1..n
  BY <1>1, ItemNumbers, SweepAssumption DEF UnitsOf
<1>3. i \in left /\ left \subseteq (b + 1)..e /\ i \in (b + 1)..e
  BY <1>2 DEF NextOf, RestOf
<1>4. CASE kind \in Ascending
  <2>1. kind \notin Descending
    BY <1>4 DEF Ascending, Descending
  <2>2. \A l \in left : i <= l
    BY <1>4 DEF NextOf
  <2>3. \A l \in (b + 1)..e : l > i => l \in left
    BY <1>2, <1>3, <1>4 DEF RestOf
  <2>4. ItemDone(r, kind, left, j) <=> (j \in (b + 1)..e /\ j \notin left) \/ j <= b
    BY <1>1, <1>2, <1>4, <2>1 DEF ItemDone
  <2>. QED  BY <1>1, <1>2, <1>3, <1>4, <2>2, <2>3, <2>4
<1>5. CASE kind \in Descending
  <2>1. kind \notin Ascending
    BY <1>5 DEF Ascending, Descending
  <2>2. \A l \in left : i >= l
    BY <1>5 DEF NextOf
  <2>3. \A l \in (b + 1)..e : l < i => l \in left
    BY <1>2, <1>3, <1>5 DEF RestOf
  <2>4. ItemDone(r, kind, left, j) <=> (j \in (b + 1)..e /\ j \notin left) \/ j > e
    BY <1>1, <1>2, <1>5, <2>1 DEF ItemDone
  <2>. QED  BY <1>1, <1>2, <1>3, <2>1, <2>2, <2>3, <2>4
<1>. QED  BY <1>4, <1>5

\* So the units that are done are those before it.
LEMMA UnitsDoneBefore ==
  ASSUME NEW r \in Ranks, NEW kind \in Ascending \cup Descending, NEW left,
         RestOf(r, kind, left), NEW i, NextOf(kind, left, i),
         NEW u \in Units \ UnitsIn(i, kind)
  PROVE  UnitDone(r, kind, left, u) <=> Before(u, UnitsIn(i, kind), kind)
<1>1. PICK n, S : n = ItemCount(kind) /\ S = UnitsIn(i, kind)
  OBVIOUS
<1>2. n \in Nat /\ i \in 1..n /\ N \in Nat
  BY <1>1, ItemNumbers, SweepAssumption DEF NextOf, RestOf
<1>3. S \subseteq 1..N /\ S # {} /\ S \subseteq Nat /\ S \subseteq 0..N /\ u \in 1..N
  BY <1>1, <1>2, ItemUnits DEF Units
<1>4. /\ SetMin(S) \in S /\ (\A x \in S : SetMin(S) <= x)
      /\ SetMax(S) \in S /\ (\A x \in S : SetMax(S) >= x)
  BY <1>2, <1>3, SmallestOf, LargestOf
<1>5. PICK low, high : low = SetMin(S) /\ high = SetMax(S)
  OBVIOUS
<1>6. ASSUME NEW j \in 1..n, u \in UnitsIn(j, kind)
      PROVE  j # i /\ (j < i => u < low) /\ (j > i => u > high)
  <2>1. j # i
    BY <1>1, <1>6
  <2>2. ASSUME j < i PROVE u < low
    BY <1>1, <1>2, <1>4, <1>5, <1>6, <2>2, ItemsInOrder
  <2>3. ASSUME i < j PROVE high < u
    BY <1>1, <1>2, <1>4, <1>5, <1>6, <2>3, ItemsInOrder
  <2>. QED  BY <1>2, <1>3, <1>4, <1>5, <2>1, <2>2, <2>3
<1>7. PICK k \in 1..n : u \in UnitsIn(k, kind)
  BY <1>1, ItemsCover
<1>8. low \in 1..N /\ high \in 1..N /\ low <= high
  BY <1>3, <1>4, <1>5
<1>9. CASE kind \in Ascending
  <2>1. Before(u, S, kind) <=> u < low
    BY <1>5, <1>9 DEF Before, Ascending
  <2>2. \A j \in 1..n : j # i => (ItemDone(r, kind, left, j) <=> j < i)
    BY <1>1, <1>9, DoneBeforeNext
  <2>3. ASSUME UnitDone(r, kind, left, u) PROVE u < low
    <3>1. PICK j \in 1..n : u \in UnitsIn(j, kind) /\ ItemDone(r, kind, left, j)
      BY <1>1, <2>3 DEF UnitDone
    <3>. QED  BY <1>6, <2>2, <3>1
  <2>4. ASSUME u < low PROVE UnitDone(r, kind, left, u)
    <3>1. k < i
      BY <1>2, <1>3, <1>6, <1>7, <1>8, <2>4
    <3>2. ItemDone(r, kind, left, k)
      BY <1>6, <1>7, <2>2, <3>1
    <3>. QED  BY <1>1, <1>7, <3>2 DEF UnitDone
  <2>. QED  BY <1>1, <2>1, <2>3, <2>4
<1>10. CASE kind \in Descending
  <2>1. Before(u, S, kind) <=> u > high
    BY <1>5, <1>10 DEF Before, Descending
  <2>2. \A j \in 1..n : j # i => (ItemDone(r, kind, left, j) <=> j > i)
    BY <1>1, <1>10, DoneBeforeNext DEF Ascending, Descending
  <2>3. ASSUME UnitDone(r, kind, left, u) PROVE u > high
    <3>1. PICK j \in 1..n : u \in UnitsIn(j, kind) /\ ItemDone(r, kind, left, j)
      BY <1>1, <2>3 DEF UnitDone
    <3>. QED  BY <1>6, <2>2, <3>1
  <2>4. ASSUME u > high PROVE UnitDone(r, kind, left, u)
    <3>1. k > i
      BY <1>2, <1>3, <1>6, <1>7, <1>8, <2>4
    <3>2. ItemDone(r, kind, left, k)
      BY <1>6, <1>7, <2>2, <3>1
    <3>. QED  BY <1>1, <1>7, <3>2 DEF UnitDone
  <2>. QED  BY <1>1, <2>1, <2>3, <2>4
<1>. QED  BY <1>9, <1>10

\* What UpdateItem may take is such an item.
LEMMA NextItemIs ==
  ASSUME CellTypes, NEW r \in Ranks, RestOf(r, Kind(r), todo[r]), NEW i \in NextItems(r),
         todo[r] # {}
  PROVE  NextOf(Kind(r), todo[r], i)
<1>1. N \in Nat /\ todo[r] \subseteq 0..N /\ todo[r] \subseteq Nat
  BY SweepAssumption DEF CellTypes, Units
<1>2. /\ SetMin(todo[r]) \in todo[r] /\ (\A x \in todo[r] : SetMin(todo[r]) <= x)
      /\ SetMax(todo[r]) \in todo[r] /\ (\A x \in todo[r] : SetMax(todo[r]) >= x)
  BY <1>1, SmallestOf, LargestOf
<1>3. i \in todo[r]
  BY NextItemsAreItems
<1>4. CASE ~ Ordered(Kind(r))
  BY <1>3, <1>4 DEF NextOf, Ordered, Ascending, Descending
<1>5. CASE Ordered(Kind(r)) /\ Forward(r)
  <2>1. i = SetMin(todo[r]) /\ Kind(r) \notin Descending
    BY <1>5 DEF NextItems, Forward, Descending
  <2>. QED  BY <1>2, <1>3, <2>1 DEF NextOf
<1>6. CASE Ordered(Kind(r)) /\ ~ Forward(r)
  <2>1. i = SetMax(todo[r]) /\ Kind(r) \notin Ascending
    BY <1>6 DEF NextItems, Forward, Ascending
  <2>. QED  BY <1>2, <1>3, <2>1 DEF NextOf
<1>. QED  BY <1>4, <1>5, <1>6

-----------------------------------------------------------------------------
(* What an update reads is what the sequential method reads. *)

\* What an item is coupled to, a rank sees or is boundary.
LEMMA CoupledSeen ==
  ASSUME NEW r \in Ranks, NEW kind, NEW i \in ItemsOf(r, kind)
  PROVE  /\ UnitsIn(i, kind) \subseteq Seen(r) /\ Seen(r) \subseteq Units
         /\ ~ ByBlocks(kind) \/ Grid => UnitsIn(i, kind) = {i} /\ ItemsOf(r, kind) = Own(r)
         /\ \A u \in Coupled(UnitsIn(i, kind)) :
              /\ u \in Units => u \in Seen(r) \ UnitsIn(i, kind)
              /\ u \notin Units => u \in Stored \ Units
<1>1. i \in 1..ItemCount(kind) /\ N \in Nat \ {0}
  BY ItemNumbers, SweepAssumption
<1>2. UnitsIn(i, kind) \subseteq Units
  BY <1>1, ItemUnits
<1>3. ~ ByBlocks(kind) \/ Grid => UnitsIn(i, kind) = {i} /\ ItemsOf(r, kind) = Own(r)
  BY DEF UnitsIn, FlatBlocks, ItemsOf, Own
<1>4. CASE ~ Grid
  BY <1>2, <1>3, <1>4 DEF Seen, Coupled
<1>5. CASE Grid
  <2>1. UnitsIn(i, kind) = {i} /\ i \in Own(r) /\ Coupled(UnitsIn(i, kind)) = {i - 1, i + 1}
    BY <1>3, <1>5 DEF Coupled
  <2>2. PICK b, e : b = UpperHalo(r) /\ e = LastOwned(r)
    OBVIOUS
  <2>3. /\ b \in 0..N /\ e \in 0..N /\ i \in (b + 1)..e /\ i \in 1..N
        /\ Seen(r) = (b..(e + 1)) \cap Units
    BY <1>1, <1>5, <2>1, <2>2, RowsOf DEF Own, Seen, Units
  <2>4. {i - 1, i + 1} \subseteq b..(e + 1) /\ {i - 1, i + 1} \subseteq 0..(N + 1)
    <3>1. /\ i - 1 \in b..(e + 1) /\ i + 1 \in b..(e + 1)
          /\ i - 1 \in 0..(N + 1) /\ i + 1 \in 0..(N + 1)
      BY <1>1, <2>3
    <3>. QED  BY <3>1
  <2>5. i - 1 # i /\ i + 1 # i /\ i \in b..(e + 1) /\ i \in Units
    BY <2>3 DEF Units
  <2>6. Stored = 0..(N + 1)
    BY <1>5 DEF Stored
  <2>7. \A u \in {i - 1, i + 1} : /\ u \in Units => u \in Seen(r) \ {i}
                                  /\ u \notin Units => u \in Stored \ Units
    BY <2>3, <2>4, <2>5, <2>6
  <2>8. {i} \subseteq Seen(r) /\ Seen(r) \subseteq Units
    BY <2>3, <2>5
  <2>. QED  BY <1>3, <2>1, <2>7, <2>8
<1>. QED  BY <1>4, <1>5

\* What rank r works on in pass k + 1, with these items left.
Works(r, k, cells, slot, left) ==
  /\ RestOf(r, PassAt(k + 1), left)
  /\ WorkRight(r, k, cells[slot], left)
  /\ BesideRight(r, k, cells, slot, left)

WorksHere(r) == Works(r, pass[r], cell[r], current[r], todo[r])

\* The slot a pass writes, as a function of where the rank is.
LEMMA TargetIs ==
  ASSUME NEW r
  PROVE  Target(r) = TargetAt(pass[r], current[r])
BY DEF Target, TargetAt, Kind

\* The heart of the argument: an update reads what the sequential method reads.
LEMMA UpdateReads ==
  ASSUME ControlTypes, CellTypes, Grid => RingKept, NEW r \in Ranks, WorksHere(r),
         todo[r] # {}, NEW i \in NextItems(r)
  PROVE  ReadsWell(r, UnitsIn(i, Kind(r)))
<1>1. PICK kind, k, left, S, x : /\ kind = Kind(r) /\ k = pass[r] /\ left = todo[r]
                                 /\ S = UnitsIn(i, kind) /\ x = Source(r)
  OBVIOUS
<1>2. k \in Nat /\ kind = PassAt(k + 1) /\ run \in Runs /\ (k + 1) - 1 = k
  BY <1>1 DEF ControlTypes, Kind
<1>3. kind \in {"jacobi", "forward", "backward", "red", "black", "block_jacobi", "block_forward"}
  BY <1>2, PassKinds
<1>4. RestOf(r, kind, left) /\ i \in left /\ NextOf(kind, left, i) /\ i \in ItemsOf(r, kind)
  <2>1. RestOf(r, kind, left)
    BY <1>1, <1>2 DEF WorksHere, Works
  <2>2. i \in left
    BY <1>1, NextItemsAreItems
  <2>3. NextOf(kind, left, i)
    BY <1>1, <2>1, NextItemIs
  <2>. QED  BY <2>1, <2>2, <2>3 DEF RestOf
<1>5. /\ S \subseteq Seen(r) /\ Seen(r) \subseteq Units
      /\ ~ ByBlocks(kind) => S = {i}
      /\ \A u \in Coupled(S) : /\ u \in Units => u \in Seen(r) \ S
                               /\ u \notin Units => u \in Stored \ Units
  BY <1>1, <1>4, CoupledSeen
<1>6. current[r] \in Slots /\ "previous" \in Slots
  BY DEF CellTypes, Slots
<1>7. \A u \in Coupled(S) \ Units : \A c \in Colours : x[u][c] = Ring
  <2>1. CASE Grid
    <3>1. RingSlot(x)
      BY <1>1, <1>6, <2>1 DEF RingKept, Source
    <3>. QED  BY <1>5, <3>1 DEF RingSlot, RingRow
  <2>2. CASE ~ Grid
    BY <1>5, <2>2 DEF Stored
  <2>. QED  BY <2>1, <2>2
\* In a pass that is not ordered, everything read is of the last pass.
<1>8. ASSUME NEW u \in Seen(r), NEW c \in Colours, kind \in {"jacobi", "block_jacobi"}
      PROVE  x[u][c] = Latest(c, k)
  <2>1. CASE kind = "jacobi"
    <3>1. x = cell[r][current[r]]
      BY <1>1, <2>1 DEF Source
    <3>2. Fresh(x[u], k)
      BY <1>1, <1>2, <2>1, <3>1 DEF WorksHere, Works, WorkRight
    <3>. QED  BY <3>2 DEF Fresh
  <2>2. CASE kind = "block_jacobi"
    <3>1. x = cell[r]["previous"]
      BY <1>1, <2>2 DEF Source
    <3>2. Fresh(x[u], k)
      BY <1>1, <1>2, <2>2, <3>1 DEF WorksHere, Works, BesideRight, FreshOn
    <3>. QED  BY <3>2 DEF Fresh
  <2>. QED  BY <1>8, <2>1, <2>2
<1>9. ASSUME NEW u \in Seen(r), kind \notin {"jacobi", "block_jacobi"}
      PROVE  Fresh(x[u], IF UnitDone(r, kind, left, u) THEN k + 1 ELSE k)
  <2>1. x = cell[r][current[r]]
    BY <1>1, <1>9 DEF Source
  <2>2. WorkRight(r, k, x, left)
    BY <1>1, <2>1 DEF WorksHere, Works
  <2>. QED  BY <1>2, <1>9, <2>2 DEF WorkRight
<1>10. ASSUME NEW u \in Coupled(S), u \in Units, NEW c \in ReadColours(kind)
       PROVE  x[u][c] = Latest(c, IF Before(u, S, kind) THEN k + 1 ELSE k)
  <2>0. c \in Colours /\ u \in Seen(r) /\ u \notin S
    BY <1>5, <1>10 DEF ReadColours
  <2>1. CASE kind \in {"jacobi", "block_jacobi"}
    <3>1. ~ Before(u, S, kind)
      BY <2>1 DEF Before
    <3>. QED  BY <1>8, <2>0, <2>1, <3>1
  <2>2. CASE kind \in {"red", "black"}
    <3>1. ~ Before(u, S, kind) /\ c \notin Written(kind)
      BY <1>10, <2>2 DEF Before, ReadColours
    <3>2. Latest(c, k + 1) = Latest(c, k)
      BY <1>2, <2>0, <3>1, LatestIs
    <3>3. x[u][c] = Latest(c, k + 1) \/ x[u][c] = Latest(c, k)
      BY <1>9, <2>0, <2>2 DEF Fresh
    <3>. QED  BY <3>1, <3>2, <3>3
  <2>3. CASE kind \in Ascending \cup Descending
    <3>1. UnitDone(r, kind, left, u) <=> Before(u, S, kind)
      BY <1>1, <1>4, <1>10, <2>0, <2>3, UnitsDoneBefore
    <3>2. kind \notin {"jacobi", "block_jacobi"}
      BY <2>3 DEF Ascending, Descending
    <3>3. Fresh(x[u], IF Before(u, S, kind) THEN k + 1 ELSE k)
      BY <1>9, <2>0, <3>1, <3>2
    <3>. QED  BY <2>0, <3>3 DEF Fresh
  <2>. QED  BY <1>3, <2>1, <2>2, <2>3 DEF Ascending, Descending
<1>11. ASSUME NEW u \in Coupled(S), NEW c \in ReadColours(kind)
       PROVE  x[u][c] = Sequential(u, c, S, k + 1)
  <2>1. CASE u \in Units
    <3>1. Sequential(u, c, S, k + 1) = Latest(c, IF Before(u, S, kind) THEN k + 1 ELSE k)
      BY <1>2, <2>1 DEF Sequential
    <3>. QED  BY <1>10, <2>1, <3>1
  <2>2. CASE u \notin Units
    <3>1. c \in Colours
      BY DEF ReadColours
    <3>. QED  BY <1>7, <2>2, <3>1 DEF Sequential
  <2>. QED  BY <2>1, <2>2
<1>12. ASSUME ~ ByBlocks(kind), NEW u \in S, NEW c \in Colours PROVE x[u][c] = Latest(c, k)
  <2>1. u \in Seen(r)
    BY <1>5
  <2>2. CASE kind = "jacobi"
    BY <1>8, <2>1, <2>2
  <2>3. CASE kind # "jacobi"
    <3>1. ~ UnitDone(r, kind, left, u)
      BY <1>1, <1>4, LeftIsNotDone
    <3>2. kind # "block_jacobi"
      BY <1>12 DEF ByBlocks
    <3>3. Fresh(x[u], k)
      BY <1>9, <2>1, <2>3, <3>1, <3>2
    <3>. QED  BY <3>3 DEF Fresh
  <2>. QED  BY <2>2, <2>3
<1>13. ByBlocks(kind) \/ \A u \in S : \A c \in Colours : x[u][c] = Latest(c, (k + 1) - 1)
  BY <1>2, <1>12
<1>. QED  BY <1>1, <1>11, <1>13 DEF ReadsWell

-----------------------------------------------------------------------------
(* And what it writes is the new state of the item. *)

\* After an item its units are done, and no others.
LEMMA UnitDoneNext ==
  ASSUME NEW r \in Ranks, NEW kind, NEW left, RestOf(r, kind, left), NEW i \in left,
         NEW u \in Units
  PROVE  UnitDone(r, kind, left \ {i}, u) <=>
           u \in UnitsIn(i, kind) \/ UnitDone(r, kind, left, u)
<1>1. i \in ItemsOf(r, kind) /\ i \in 1..ItemCount(kind)
  BY ItemNumbers DEF RestOf
<1>2. \A j : ItemDone(r, kind, left \ {i}, j) <=> ItemDone(r, kind, left, j) \/ j = i
  BY <1>1 DEF ItemDone
<1>. QED  BY <1>1, <1>2 DEF UnitDone

\* Without its next item the rest is the rest.
LEMMA RestOfNext ==
  ASSUME NEW r \in Ranks, NEW kind, NEW left, RestOf(r, kind, left), NEW i,
         NextOf(kind, left, i)
  PROVE  RestOf(r, kind, left \ {i})
<1>1. /\ ItemsOf(r, kind) \subseteq 1..ItemCount(kind) /\ ItemCount(kind) \in Nat
      /\ i \in left /\ left \subseteq ItemsOf(r, kind)
  BY ItemNumbers, SweepAssumption DEF RestOf, NextOf
<1>2. ASSUME kind \in Ascending, NEW l \in left \ {i}, NEW j \in ItemsOf(r, kind), j > l
      PROVE  j \in left \ {i}
  <2>1. j \in left
    BY <1>2 DEF RestOf
  <2>2. i <= l /\ i \in Int /\ j \in Int /\ l \in Int
    BY <1>1, <1>2 DEF NextOf
  <2>. QED  BY <1>2, <2>1, <2>2
<1>3. ASSUME kind \in Descending, NEW l \in left \ {i}, NEW j \in ItemsOf(r, kind), j < l
      PROVE  j \in left \ {i}
  <2>1. j \in left
    BY <1>3 DEF RestOf
  <2>2. i >= l /\ i \in Int /\ j \in Int /\ l \in Int
    BY <1>1, <1>3 DEF NextOf
  <2>. QED  BY <1>3, <2>1, <2>2
<1>. QED  BY <1>1, <1>2, <1>3 DEF RestOf

\* A unit that takes pass k + 1.
LEMMA Refreshed ==
  ASSUME NEW k \in Nat, NEW row, NEW new,
         \A c \in Colours : new[c] = IF c \in Written(PassAt(k + 1)) THEN k + 1 ELSE row[c],
         Fresh(row, k) \/ Written(PassAt(k + 1)) = Colours
  PROVE  Fresh(new, k + 1)
<1>1. ASSUME NEW c \in Colours PROVE new[c] = Latest(c, k + 1)
  BY LatestIs DEF Fresh
<1>. QED  BY <1>1 DEF Fresh

\* An update leaves the rank with what it must hold after it.
LEMMA UpdateWrites ==
  ASSUME ControlTypes, CellTypes, Grid => RingKept, NEW r \in Ranks, WorksHere(r),
         todo[r] # {}, NEW i \in NextItems(r),
         NEW cells, cells = [cell[r] EXCEPT ![Target(r)] = Updated(r, UnitsIn(i, Kind(r)))]
  PROVE  /\ Works(r, pass[r], cells, current[r], todo[r] \ {i})
         /\ \A u \in Stored :
              Bounded(cell[r][Target(r)][u], pass[r] + 1) => Bounded(cells[Target(r)][u], pass[r] + 1)
<1>1. PICK kind, k, left, S, t, slot :
        /\ kind = Kind(r) /\ k = pass[r] /\ left = todo[r] /\ S = UnitsIn(i, kind)
        /\ t = Target(r) /\ slot = current[r]
  OBVIOUS
<1>2. k \in Nat /\ kind = PassAt(k + 1) /\ run \in Runs
  BY <1>1 DEF ControlTypes, Kind
<1>3. RestOf(r, kind, left) /\ i \in left /\ NextOf(kind, left, i) /\ i \in ItemsOf(r, kind)
  <2>1. RestOf(r, kind, left)
    BY <1>1, <1>2 DEF WorksHere, Works
  <2>2. i \in left
    BY <1>1, NextItemsAreItems
  <2>3. NextOf(kind, left, i)
    BY <1>1, <2>1, NextItemIs
  <2>. QED  BY <2>1, <2>2, <2>3 DEF RestOf
<1>4. S \subseteq Seen(r) /\ Seen(r) \subseteq Units /\ (~ ByBlocks(kind) => S = {i} /\ ItemsOf(r, kind) = Own(r))
  BY <1>1, <1>3, CoupledSeen
<1>5. /\ slot \in {"iterate", "work"} /\ t = TargetAt(k, slot) /\ t \in {"iterate", "work"}
      /\ cell[r] = [s \in Slots |-> cell[r][s]] /\ Slots = {"iterate", "work", "previous"}
  BY <1>1, TargetIs, WorkSlots DEF CellTypes, Slots
<1>6. PICK new : new = Updated(r, S)
  OBVIOUS
<1>7. cells[t] = new /\ \A s \in Slots : s # t => cells[s] = cell[r][s]
  BY <1>1, <1>5, <1>6
<1>8. ASSUME NEW u \in Stored, NEW c \in Colours
      PROVE  new[u][c] = IF u \in S /\ c \in Written(kind) THEN k + 1 ELSE cell[r][t][u][c]
  <2>1. ReadsWell(r, S)
    BY <1>1, UpdateReads
  <2>2. new = [v \in Stored |->
                 [d \in Colours |-> IF v \in S /\ d \in Written(kind) THEN k + 1
                                    ELSE cell[r][t][v][d]]]
    BY <1>1, <1>6, <2>1 DEF Updated
  <2>. QED  BY <2>2
<1>9. Units \subseteq Stored
  BY SweepAssumption DEF Units, Stored
\* The units of the item are new, the others as they were.
<1>10. ASSUME NEW u \in S, kind # "jacobi" => slot = t
       PROVE  Fresh(new[u], k + 1)
  <2>1. u \in Seen(r) /\ u \in Stored
    BY <1>4, <1>9
  <2>2. CASE ByBlocks(kind) \/ kind = "jacobi"
    <3>1. Written(kind) = Colours
      BY <2>2 DEF ByBlocks, Written
    <3>. QED  BY <1>2, <1>8, <2>1, <3>1, Refreshed
  <2>3. CASE ~ ByBlocks(kind) /\ kind # "jacobi"
    <3>1. ~ UnitDone(r, kind, left, u)
      BY <1>1, <1>3, LeftIsNotDone
    <3>2. Fresh(cell[r][t][u], k)
      BY <1>1, <1>2, <1>10, <2>1, <2>3, <3>1 DEF WorksHere, Works, WorkRight
    <3>. QED  BY <1>2, <1>8, <2>1, <3>2, Refreshed
  <2>. QED  BY <2>2, <2>3
<1>11. ASSUME NEW u \in Units, u \notin S, NEW l, Fresh(cell[r][t][u], l)
       PROVE  Fresh(new[u], l)
  BY <1>8, <1>9, <1>11 DEF Fresh
<1>12. RestOf(r, kind, left \ {i})
  BY <1>3, RestOfNext
<1>13. WorkRight(r, k, cells[slot], left \ {i})
  <2>1. CASE kind = "jacobi"
    <3>1. slot # t
      BY <1>2, <1>5, <2>1 DEF TargetAt
    <3>2. cells[slot] = cell[r][slot]
      BY <1>5, <1>7, <3>1
    <3>3. WorkRight(r, k, cell[r][slot], left)
      BY <1>1 DEF WorksHere, Works
    <3>. QED  BY <1>2, <2>1, <3>2, <3>3 DEF WorkRight
  <2>2. CASE kind # "jacobi"
    <3>1. slot = t /\ cells[slot] = new
      BY <1>2, <1>5, <1>7, <2>2 DEF TargetAt
    <3>2. WorkRight(r, k, cell[r][t], left)
      BY <1>1, <3>1 DEF WorksHere, Works
    <3>3. ASSUME NEW u \in Seen(r)
          PROVE  Fresh(new[u], IF UnitDone(r, kind, left \ {i}, u) THEN k + 1 ELSE k)
      <4>1. u \in Units /\ (UnitDone(r, kind, left \ {i}, u) <=> u \in S \/ UnitDone(r, kind, left, u))
        BY <1>1, <1>3, <1>4, UnitDoneNext
      <4>2. CASE u \in S
        BY <1>10, <3>1, <4>1, <4>2
      <4>3. CASE u \notin S
        <5>1. Fresh(cell[r][t][u], IF UnitDone(r, kind, left, u) THEN k + 1 ELSE k)
          BY <1>2, <2>2, <3>2 DEF WorkRight
        <5>. QED  BY <1>11, <4>1, <4>3, <5>1
      <4>. QED  BY <4>2, <4>3
    <3>. QED  BY <1>2, <2>2, <3>1, <3>3 DEF WorkRight
  <2>. QED  BY <2>1, <2>2
<1>14. BesideRight(r, k, cells, slot, left \ {i})
  <2>1. ASSUME kind = "jacobi", NEW u \in Own(r) \ (left \ {i}) PROVE Fresh(cells[t][u], k + 1)
    <3>1. S = {i}
      BY <1>4, <2>1 DEF ByBlocks
    <3>2. CASE u = i
      BY <1>7, <1>10, <2>1, <3>1, <3>2
    <3>3. CASE u # i
      <4>1. u \in Own(r) \ left /\ u \in Units
        BY <2>1, <3>3, RowsOf DEF Own
      <4>2. FreshOn(cell[r][t], Own(r) \ left, k + 1)
        BY <1>1, <1>2, <1>5, <2>1 DEF WorksHere, Works, BesideRight
      <4>3. Fresh(cell[r][t][u], k + 1)
        BY <4>1, <4>2 DEF FreshOn
      <4>. QED  BY <1>7, <1>11, <3>1, <3>3, <4>1, <4>3
    <3>. QED  BY <3>2, <3>3
  <2>2. ASSUME kind = "block_jacobi" PROVE FreshOn(cells["previous"], Seen(r), k)
    <3>1. cells["previous"] = cell[r]["previous"]
      BY <1>5, <1>7
    <3>. QED  BY <1>1, <1>2, <2>2, <3>1 DEF WorksHere, Works, BesideRight
  <2>. QED  BY <1>2, <1>5, <2>1, <2>2 DEF BesideRight, FreshOn
<1>15. ASSUME NEW u \in Stored, Bounded(cell[r][t][u], k + 1) PROVE Bounded(new[u], k + 1)
  BY <1>2, <1>8, <1>15 DEF Bounded
<1>. QED  BY <1>1, <1>2, <1>7, <1>12, <1>13, <1>14, <1>15 DEF Works

-----------------------------------------------------------------------------
(***************************************************************************)
(* What a rank holds, as a function of where it is.                        *)
(***************************************************************************)

\* Passes that leave every rank of the dense problem with a whole copy.
Whole(kind) == ~ Grid /\ kind \in Ascending \cup Descending \cup {"block_jacobi"}

\* Between passes: the units a rank holds fresh after k of them.
Known(r, s, p, k) ==
  IF k = 0 \/ p = "copy" THEN Units
  ELSE IF p \in {"body", "turn", "halo_down_sent"} \/ (p = "reduce" /\ s # "rhs_norm")
  THEN Own(r) \cup Seen(r)
  ELSE IF p \in {"halo_up_sent", "halo_down"} THEN Own(r) \cup ({LowerHalo(r)} \cap Seen(r))
  ELSE Own(r)

\* Once its items are updated: the units it holds after that pass as well.
TurnEnd(kind) == IF kind # "backward" THEN P - 1 ELSE 0
Reached(r, p, k) ==
  IF p \in {"handed_on", "bcast"} /\ ~ Grid
  THEN IF r = TurnEnd(PassAt(k + 1)) THEN Units ELSE {}
  ELSE IF p \in {"regather", "reranges", "rerows"} THEN OwnBlocks(r)
  ELSE IF Whole(PassAt(k + 1)) THEN Units ELSE Own(r)

WorkedPhases == TakenPhases
HoldsRight(r, s, p, k, cells, slot, left) ==
  IF s = "pass" /\ p \in WorkedPhases
  THEN IF p = "work" THEN Works(r, k, cells, slot, left)
       ELSE FreshOn(cells[TargetAt(k, slot)], Reached(r, p, k), k + 1)
  ELSE FreshOn(cells[slot], Known(r, s, p, k), k)

\* Nothing is newer than the running pass.
BoundAt(s, p, k) == IF s = "pass" /\ p \in WorkedPhases THEN k + 1 ELSE k
CellsBounded(s, p, k, cells) ==
  \A t \in Slots, u \in Stored : Bounded(cells[t][u], BoundAt(s, p, k))

\* Phases of ranks that have others beside them, and of passes of some kinds.
SharedPhases ==
  HaloPhases \cup {"ranges", "rows", "reranges", "rerows", "turn", "handed_on", "bcast"}
FitsKind(s, p, k) ==
  /\ s \in {"barrier_in", "rhs_norm", "initial"} => k = 0
  /\ P = 1 => p \notin SharedPhases
  /\ p \in {"turn", "handed_on", "bcast"} => PassAt(k + 1) \in Ascending \cup Descending
  /\ p \in {"regather", "reranges", "rerows"} => ~ Grid /\ PassAt(k + 1) = "block_jacobi"

\* Items are left in a pass only.
LeftAt(r, p, k, left) ==
  /\ p = "turn" => left = ItemsOf(r, PassAt(k + 1))
  /\ p \notin {"turn", "work"} => left = {}

\* A solve begins, and ends, with its iterate in slot 0.
SlotsRight(s, k, cells, slot) ==
  /\ k = 0 => slot = "iterate"
  /\ s \in {"barrier_out", "finished"} => FreshOn(cells["iterate"], Units, k)

RankAt(r, s, p, k, cells, slot, left) ==
  /\ FitsKind(s, p, k) /\ LeftAt(r, p, k, left) /\ SlotsRight(s, k, cells, slot)
  /\ HoldsRight(r, s, p, k, cells, slot, left)
  /\ CellsBounded(s, p, k, cells)

RankHere(r) == RankAt(r, stage[r], phase[r], pass[r], cell[r], current[r], todo[r])
RanksRight == \A r \in Ranks : RankHere(r)

\* None of this depends on anything a step changes.
LEMMA LatestFixed ==
  ASSUME run' = run
  PROVE  \A c, k : Latest(c, k)' = Latest(c, k)
<1>1. ASSUME NEW c, NEW k PROVE Latest(c, k)' = Latest(c, k)
  <2>1. {j \in 1..k : c \in Written(PassAt(j))}' = {j \in 1..k : c \in Written(PassAt(j))}
    BY ScheduleFixed DEF Written
  <2>. QED  BY <2>1 DEF Latest
<1>. QED  BY <1>1

\* What is fresh does not change while the solve is the same.
LEMMA FreshFixed ==
  ASSUME run' = run
  PROVE  /\ \A row, k : Fresh(row, k)' <=> Fresh(row, k)
         /\ \A x, S, k : FreshOn(x, S, k)' <=> FreshOn(x, S, k)
         /\ \A row, k : Bounded(row, k)' <=> Bounded(row, k)
<1>1. ASSUME NEW row, NEW k PROVE Fresh(row, k)' <=> Fresh(row, k)
  BY LatestFixed DEF Fresh
<1>2. ASSUME NEW x, NEW S, NEW k PROVE FreshOn(x, S, k)' <=> FreshOn(x, S, k)
  BY LatestFixed DEF Fresh, FreshOn
<1>3. ASSUME NEW row, NEW k PROVE Bounded(row, k)' <=> Bounded(row, k)
  BY DEF Bounded
<1>. QED  BY <1>1, <1>2, <1>3

\* Nor what a rank must hold in a pass.
LEMMA WorkFixed ==
  ASSUME run' = run, NEW r, NEW k, NEW x, NEW left
  PROVE  WorkRight(r, k, x, left)' <=> WorkRight(r, k, x, left)
<1>1. PassAt(k + 1)' = PassAt(k + 1)
  BY ScheduleFixed
<1>2. \A u : UnitDone(r, PassAt(k + 1), left, u)' <=> UnitDone(r, PassAt(k + 1), left, u)
  <2>1. PICK kind : kind = PassAt(k + 1)
    OBVIOUS
  <2>2. \A u : UnitDone(r, kind, left, u)' <=> UnitDone(r, kind, left, u)
    BY DEF UnitDone, ItemDone
  <2>. QED  BY <1>1, <2>1, <2>2 DEF UnitDone, ItemDone
<1>. QED  BY <1>1, <1>2, LatestFixed DEF WorkRight, Fresh

\* Nor what it must hold anywhere.
LEMMA RankFixed ==
  ASSUME run' = run, NEW r, NEW s, NEW p, NEW k, NEW cells, NEW slot, NEW left
  PROVE  RankAt(r, s, p, k, cells, slot, left)' <=> RankAt(r, s, p, k, cells, slot, left)
<1>1. PassAt(k + 1)' = PassAt(k + 1) /\ TargetAt(k, slot)' = TargetAt(k, slot)
  BY ScheduleFixed DEF TargetAt
<1>2. FitsKind(s, p, k)' <=> FitsKind(s, p, k)
  BY <1>1 DEF FitsKind
<1>3. LeftAt(r, p, k, left)' <=> LeftAt(r, p, k, left)
  BY <1>1 DEF LeftAt
<1>4. SlotsRight(s, k, cells, slot)' <=> SlotsRight(s, k, cells, slot)
  BY LatestFixed DEF SlotsRight, FreshOn, Fresh
<1>5. Works(r, k, cells, slot, left)' <=> Works(r, k, cells, slot, left)
  <2>1. RestOf(r, PassAt(k + 1), left)' <=> RestOf(r, PassAt(k + 1), left)
    BY <1>1 DEF RestOf
  <2>2. PICK x, t : x = cells[slot] /\ t = TargetAt(k, slot)
    OBVIOUS
  <2>3. WorkRight(r, k, x, left)' <=> WorkRight(r, k, x, left)
    BY WorkFixed
  <2>4. BesideRight(r, k, cells, slot, left)' <=> BesideRight(r, k, cells, slot, left)
    BY <1>1, LatestFixed DEF BesideRight, FreshOn, Fresh
  <2>. QED  BY <2>1, <2>2, <2>3, <2>4 DEF Works
<1>6. Reached(r, p, k)' = Reached(r, p, k) /\ Known(r, s, p, k)' = Known(r, s, p, k)
  BY <1>1 DEF Reached, Known, Whole, TurnEnd
<1>7. HoldsRight(r, s, p, k, cells, slot, left)' <=> HoldsRight(r, s, p, k, cells, slot, left)
  BY <1>1, <1>5, <1>6, LatestFixed DEF HoldsRight, FreshOn, Fresh
<1>8. CellsBounded(s, p, k, cells)' <=> CellsBounded(s, p, k, cells)
  BY DEF CellsBounded, Bounded, BoundAt
<1>. QED  BY <1>2, <1>3, <1>4, <1>7, <1>8 DEF RankAt

\* A step of one rank.
OneMoves(r, s, p, k, cells, slot, left) ==
  /\ run' = run
  /\ stage'[r] = s /\ phase'[r] = p /\ pass'[r] = k
  /\ cell'[r] = cells /\ current'[r] = slot /\ todo'[r] = left
  /\ \A q \in Ranks : q # r =>
       /\ stage'[q] = stage[q] /\ phase'[q] = phase[q] /\ pass'[q] = pass[q]
       /\ cell'[q] = cell[q] /\ current'[q] = current[q] /\ todo'[q] = todo[q]

\* If one rank moves, and holds what it must where it comes to, all ranks do.
LEMMA OneMoveKeeps ==
  ASSUME RanksRight, NEW r \in Ranks, NEW s, NEW p, NEW k, NEW cells, NEW slot, NEW left,
         OneMoves(r, s, p, k, cells, slot, left), RankAt(r, s, p, k, cells, slot, left)
  PROVE  RanksRight'
<1>. SUFFICES ASSUME NEW q \in Ranks PROVE RankHere(q)'
  BY DEF RanksRight
<1>1. RankAt(q, stage'[q], phase'[q], pass'[q], cell'[q], current'[q], todo'[q])
  <2>1. CASE q = r
    BY <2>1 DEF OneMoves
  <2>2. CASE q # r
    BY <2>2 DEF OneMoves, RanksRight, RankHere
  <2>. QED  BY <2>1, <2>2
<1>2. PICK s1, p1, k1, cells1, slot1, left1 :
        /\ s1 = stage'[q] /\ p1 = phase'[q] /\ k1 = pass'[q]
        /\ cells1 = cell'[q] /\ slot1 = current'[q] /\ left1 = todo'[q]
  OBVIOUS
<1>3. RankAt(q, s1, p1, k1, cells1, slot1, left1)
  BY <1>1, <1>2
<1>4. RankAt(q, s1, p1, k1, cells1, slot1, left1)'
  BY <1>3, RankFixed DEF OneMoves
<1>. QED  BY <1>2, <1>4 DEF RankHere

\* A rank goes on, with all it holds.
LEMMA GoesOnly ==
  ASSUME ControlTypes, CellTypes, NEW r \in Ranks, NEW s, NEW p, Goto(r, s, p), run' = run,
         pass' = pass, cell' = cell, current' = current, todo' = todo
  PROVE  OneMoves(r, s, p, pass[r], cell[r], current[r], todo[r])
BY GoneTo DEF OneMoves

\* It stores in one slot.
LEMMA StoresOnly ==
  ASSUME ControlTypes, CellTypes, NEW r \in Ranks, NEW s, NEW p, Goto(r, s, p), run' = run,
         pass' = pass, current' = current, todo' = todo, NEW t \in Slots, NEW row,
         cell' = [cell EXCEPT ![r][t] = row]
  PROVE  OneMoves(r, s, p, pass[r], [cell[r] EXCEPT ![t] = row], current[r], todo[r])
<1>1. cell' = [cell EXCEPT ![r] = [cell[r] EXCEPT ![t] = row]]
  OBVIOUS
<1>2. cell'[r] = [cell[r] EXCEPT ![t] = row] /\ \A q \in Ranks : q # r => cell'[q] = cell[q]
  BY <1>1 DEF CellTypes
<1>. QED  BY <1>2, GoneTo DEF OneMoves

\* Values stored into units move no rank's slots, passes or items.
LEMMA StoresUnitsOnly ==
  ASSUME ControlTypes, CellTypes, NEW r \in Ranks, NEW s, NEW p, Goto(r, s, p), run' = run,
         pass' = pass, current' = current, todo' = todo, NEW values, StoreUnits(r, values)
  PROVE  /\ current[r] \in Slots
         /\ OneMoves(r, s, p, pass[r], [cell[r] EXCEPT ![current[r]] = Restored(r, values)],
                     current[r], todo[r])
<1>1. current[r] \in Slots
  BY DEF CellTypes, Slots
<1>2. cell' = [cell EXCEPT ![r][current[r]] = Restored(r, values)]
  BY DEF StoreUnits, Restored, Mine
<1>. QED  BY <1>1, <1>2, StoresOnly

\* A change of one slot leaves the others.
LEMMA OtherSlots ==
  ASSUME CellTypes, NEW r \in Ranks, NEW t \in Slots, NEW row,
         NEW cells, cells = [cell[r] EXCEPT ![t] = row]
  PROVE  cells[t] = row /\ \A o \in Slots : o # t => cells[o] = cell[r][o]
<1>1. cell[r] = [o \in Slots |-> cell[r][o]]
  BY DEF CellTypes
<1>. QED  BY <1>1

-----------------------------------------------------------------------------
(* The steps of a rank that bring it nothing, and what it holds after them. *)

\* What a rank owns and sees are units.
LEMMA OwnAndSeen ==
  ASSUME NEW r \in Ranks
  PROVE  /\ Own(r) \subseteq Units /\ Seen(r) \subseteq Units
         /\ P = 1 => Own(r) = Units /\ OwnBlocks(r) = Units /\ r = 0
         /\ Grid => Own(r) \subseteq Seen(r)
<1>1. Own(r) \subseteq Units
  BY RowsOf DEF Own
<1>2. P = 1 => Own(r) = Units /\ OwnBlocks(r) = Units /\ r = 0
  <2>1. P = 1 => r = 0
    BY OneRank
  <2>. QED  BY <2>1, EdgeHalos
<1>3. Grid => Own(r) \subseteq Seen(r)
  <2>1. Own(r) = FirstOwned(r)..LastOwned(r) /\ UpperHalo(r) \in 0..N /\ LastOwned(r) \in 0..N
        /\ FirstOwned(r) = UpperHalo(r) + 1 /\ LowerHalo(r) = LastOwned(r) + 1
    BY RowsOf DEF Own
  <2>2. Own(r) \subseteq UpperHalo(r)..LowerHalo(r)
    BY <2>1
  <2>. QED  BY <1>1, <2>2 DEF Seen
<1>. QED  BY <1>1, <1>2, <1>3 DEF Seen

\* Between passes a rank goes on with what it knows.
LEMMA MovesOn ==
  ASSUME RanksRight, ControlTypes, CellTypes, NEW r \in Ranks, NEW s, NEW p, Goto(r, s, p),
         run' = run, pass' = pass, Untouched,
         phase[r] \notin TakenPhases \cup {"turn"}, p \notin TakenPhases \cup {"turn"},
         FitsKind(s, p, pass[r]),
         s \in {"barrier_out", "finished"} => stage[r] \in {"barrier_out", "finished"},
         Known(r, s, p, pass[r]) \subseteq Known(r, stage[r], phase[r], pass[r])
  PROVE  RanksRight'
<1>1. OneMoves(r, s, p, pass[r], cell[r], current[r], todo[r])
  BY GoesOnly DEF Untouched
<1>2. PICK k, cells, slot, left : k = pass[r] /\ cells = cell[r] /\ slot = current[r] /\ left = todo[r]
  OBVIOUS
<1>3. RankAt(r, stage[r], phase[r], k, cells, slot, left)
  BY <1>2 DEF RanksRight, RankHere
<1>4. LeftAt(r, p, k, left)
  BY <1>3 DEF RankAt, LeftAt, TakenPhases
<1>5. SlotsRight(s, k, cells, slot)
  BY <1>3 DEF RankAt, SlotsRight
<1>6. HoldsRight(r, s, p, k, cells, slot, left)
  <2>1. FreshOn(cells[slot], Known(r, stage[r], phase[r], k), k)
    BY <1>3 DEF RankAt, HoldsRight, WorkedPhases
  <2>2. FreshOn(cells[slot], Known(r, s, p, k), k)
    BY <1>2, <2>1 DEF FreshOn
  <2>. QED  BY <2>2 DEF HoldsRight, WorkedPhases
<1>7. CellsBounded(s, p, k, cells)
  BY <1>3 DEF RankAt, CellsBounded, BoundAt, WorkedPhases
<1>8. RankAt(r, s, p, k, cells, slot, left)
  BY <1>2, <1>4, <1>5, <1>6, <1>7 DEF RankAt
<1>. QED  BY <1>1, <1>2, <1>8, OneMoveKeeps

\* The same, at the end of a pass.
LEMMA MovesOnInPass ==
  ASSUME RanksRight, ControlTypes, CellTypes, NEW r \in Ranks, NEW p, GotoPhase(r, p),
         run' = run, pass' = pass, Untouched, stage[r] = "pass",
         phase[r] \in HandedPhases, p \in HandedPhases,
         FitsKind("pass", p, pass[r]),
         Reached(r, p, pass[r]) \subseteq Reached(r, phase[r], pass[r])
  PROVE  RanksRight'
<1>1. OneMoves(r, "pass", p, pass[r], cell[r], current[r], todo[r])
  BY GoesOnly DEF Untouched, GotoPhase
<1>2. PICK k, cells, slot, left : k = pass[r] /\ cells = cell[r] /\ slot = current[r] /\ left = todo[r]
  OBVIOUS
<1>3. RankAt(r, "pass", phase[r], k, cells, slot, left)
  BY <1>2 DEF RanksRight, RankHere
<1>4. phase[r] \in WorkedPhases \ {"work", "turn"} /\ p \in WorkedPhases \ {"work", "turn"}
  BY DEF WorkedPhases, TakenPhases, HandedPhases
<1>5. LeftAt(r, p, k, left)
  BY <1>3, <1>4 DEF RankAt, LeftAt
<1>6. SlotsRight("pass", k, cells, slot)
  BY <1>3 DEF RankAt, SlotsRight
<1>7. HoldsRight(r, "pass", p, k, cells, slot, left)
  <2>1. FreshOn(cells[TargetAt(k, slot)], Reached(r, phase[r], k), k + 1)
    BY <1>3, <1>4 DEF RankAt, HoldsRight
  <2>2. FreshOn(cells[TargetAt(k, slot)], Reached(r, p, k), k + 1)
    BY <1>2, <2>1 DEF FreshOn
  <2>. QED  BY <1>4, <2>2 DEF HoldsRight
<1>8. CellsBounded("pass", p, k, cells)
  BY <1>3, <1>4 DEF RankAt, CellsBounded, BoundAt
<1>9. RankAt(r, "pass", p, k, cells, slot, left)
  BY <1>2, <1>5, <1>6, <1>7, <1>8 DEF RankAt
<1>. QED  BY <1>1, <1>2, <1>9, OneMoveKeeps

\* The repetition and its barriers.
LEMMA ResetRanks ==
  ASSUME RanksRight, Control, CellTypes, NEW r \in Ranks, Reset(r)
  PROVE  RanksRight'
<1>1. PICK fresh : fresh = [slot \in Slots |-> InitialState]
  OBVIOUS
<1>2. OneMoves(r, "barrier_in", "start", 0, fresh, "iterate", todo[r])
  <2>1. cell'[r] = fresh /\ \A q \in Ranks : q # r => cell'[q] = cell[q]
    BY <1>1 DEF CellTypes, Reset
  <2>2. pass'[r] = 0 /\ \A q \in Ranks : q # r => pass'[q] = pass[q]
    BY DEF Reset, Control, ControlTypes
  <2>3. current'[r] = "iterate" /\ \A q \in Ranks : q # r => current'[q] = current[q]
    BY DEF Reset, CellTypes
  <2>. QED  BY <2>1, <2>2, <2>3, GoneTo DEF OneMoves, Reset, Control
<1>3. todo[r] = {}
  <2>1. phase[r] = "start"
    BY DEF Reset, At
  <2>. QED  BY <2>1 DEF RanksRight, RankHere, RankAt, LeftAt
<1>4. FreshOn(fresh["iterate"], Units, 0) /\ "iterate" \in Slots
  BY <1>1, InitiallyFresh DEF Slots
<1>5. RankAt(r, "barrier_in", "start", 0, fresh, "iterate", todo[r])
  <2>1. FitsKind("barrier_in", "start", 0)
    BY DEF FitsKind, SharedPhases, HaloPhases
  <2>2. LeftAt(r, "start", 0, todo[r])
    BY <1>3 DEF LeftAt
  <2>3. SlotsRight("barrier_in", 0, fresh, "iterate")
    BY DEF SlotsRight
  <2>4. HoldsRight(r, "barrier_in", "start", 0, fresh, "iterate", todo[r])
    BY <1>4 DEF HoldsRight, Known
  <2>5. CellsBounded("barrier_in", "start", 0, fresh)
    BY <1>1, InitiallyFresh DEF CellsBounded, BoundAt
  <2>. QED  BY <2>1, <2>2, <2>3, <2>4, <2>5 DEF RankAt
<1>. QED  BY <1>2, <1>5, OneMoveKeeps

\* Each rank is in a phase that its pass and the number of ranks allow.
LEMMA FitsHere ==
  ASSUME RanksRight, NEW r \in Ranks
  PROVE  FitsKind(stage[r], phase[r], pass[r])
BY DEF RanksRight, RankHere, RankAt

\* The barrier changes no value.
LEMMA EnterBarrierRanks ==
  ASSUME RanksRight, Control, CellTypes, NEW r \in Ranks, EnterBarrier(r)
  PROVE  RanksRight'
<1>1. FitsKind(stage[r], "wait", pass[r])
  BY FitsHere DEF EnterBarrier, FitsKind, SharedPhases, HaloPhases
<1>2. Known(r, stage[r], "wait", pass[r]) = Known(r, stage[r], phase[r], pass[r])
  BY DEF EnterBarrier, Known
<1>3. phase[r] = "start" /\ {"start", "wait"} \cap (TakenPhases \cup {"turn"}) = {}
  BY DEF EnterBarrier, TakenPhases, HandedPhases
<1>. QED  BY <1>1, <1>2, <1>3, MovesOn, UntouchedSteps DEF EnterBarrier, GotoPhase, Control

\* Nor does leaving it.
LEMMA LeaveBarrierRanks ==
  ASSUME RanksRight, Control, CellTypes, NEW r \in Ranks, LeaveBarrier(r)
  PROVE  RanksRight'
<1>0. /\ phase[r] = "wait" /\ {"start", "wait", "evaluate"} \cap (TakenPhases \cup {"turn"}) = {}
      /\ Untouched /\ run' = run /\ pass' = pass
  BY UntouchedSteps DEF LeaveBarrier, TakenPhases, HandedPhases
<1>1. CASE stage[r] = "barrier_in"
  <2>1. Goto(r, "rhs_norm", "evaluate")
    BY <1>1 DEF LeaveBarrier, Begin, FirstPhase
  <2>2. pass[r] = 0
    BY <1>1, FitsHere DEF FitsKind
  <2>3. FitsKind("rhs_norm", "evaluate", pass[r])
    BY <2>2 DEF FitsKind, SharedPhases, HaloPhases
  <2>4. Known(r, "rhs_norm", "evaluate", pass[r]) = Known(r, stage[r], phase[r], pass[r])
    BY <2>2 DEF Known
  <2>. QED  BY <1>0, <2>1, <2>3, <2>4, MovesOn DEF Control
<1>2. CASE stage[r] # "barrier_in"
  <2>1. stage[r] = "barrier_out"
    BY <1>2 DEF LeaveBarrier
  <2>2. PICK s \in {"reset", "finished"} : Goto(r, s, "start")
    BY <1>2 DEF LeaveBarrier
  <2>3. FitsKind(s, "start", pass[r])
    BY <2>2 DEF FitsKind, SharedPhases, HaloPhases
  <2>4. Known(r, s, "start", pass[r]) = Known(r, stage[r], phase[r], pass[r])
    BY <1>0 DEF Known
  <2>. QED  BY <1>0, <2>1, <2>2, <2>3, <2>4, MovesOn DEF Control
<1>. QED  BY <1>1, <1>2

\* The exchange and the gathers.
LEMMA ExchangeHaloRanks ==
  ASSUME RanksRight, Control, CellTypes, NEW r \in Ranks, ExchangeHalo(r)
  PROVE  RanksRight'
<1>1. PICK p : GotoPhase(r, p) /\ p = IF P = 1 THEN "body" ELSE IF Grid THEN "halo_up" ELSE "gather"
  BY DEF ExchangeHalo
<1>2. phase[r] = "exchange" /\ {"exchange", p} \cap (TakenPhases \cup {"turn"}) = {}
  BY <1>1 DEF ExchangeHalo, TakenPhases, HandedPhases
<1>3. FitsKind(stage[r], p, pass[r])
  BY <1>1, FitsHere DEF FitsKind, SharedPhases, HaloPhases
<1>4. Known(r, stage[r], p, pass[r]) \subseteq Known(r, stage[r], phase[r], pass[r])
  BY <1>1, <1>2, OwnAndSeen DEF Known
<1>5. Goto(r, stage[r], p) /\ run' = run /\ pass' = pass
  BY <1>1 DEF ExchangeHalo, GotoPhase
<1>6. stage[r] \notin {"barrier_out", "finished"}
  BY <1>2, ExchangePhases
<1>. QED  BY <1>2, <1>3, <1>4, <1>5, <1>6, MovesOn, UntouchedSteps DEF Control

\* A halo row that was sent changes nothing at its sender.
LEMMA HaloSentRanks ==
  ASSUME RanksRight, Control, CellTypes, NEW r \in Ranks, SendHaloDown(r) \/ HaloDone(r)
  PROVE  RanksRight'
<1>1. PICK p : /\ GotoPhase(r, p)
               /\ \/ phase[r] = "halo_up_sent" /\ p = "halo_down"
                  \/ phase[r] = "halo_down_sent" /\ p = "body"
  BY DEF SendHaloDown, HaloDone
<1>2. {phase[r], p} \cap (TakenPhases \cup {"turn"}) = {}
  BY <1>1 DEF TakenPhases, HandedPhases
<1>3. FitsKind(stage[r], p, pass[r])
  <2>1. P # 1
    BY <1>1, FitsHere DEF FitsKind, SharedPhases, HaloPhases
  <2>. QED  BY <1>1, <2>1, FitsHere DEF FitsKind
<1>4. Known(r, stage[r], p, pass[r]) = Known(r, stage[r], phase[r], pass[r])
  BY <1>1 DEF Known
<1>5. Goto(r, stage[r], p) /\ run' = run /\ pass' = pass
  BY <1>1 DEF SendHaloDown, HaloDone, GotoPhase
<1>. QED  BY <1>2, <1>3, <1>4, <1>5, MovesOn, UntouchedSteps DEF Control

\* What is contributed to a gather changes nothing at its contributor.
LEMMA GatherRanks ==
  ASSUME RanksRight, Control, CellTypes, NEW r \in Ranks, Gather(r) \/ GatherRows(r)
  PROVE  RanksRight'
<1>0. run' = run /\ pass' = pass /\ Untouched
  BY UntouchedSteps DEF Gather, GatherRows
<1>1. FitsKind(stage[r], phase[r], pass[r])
  BY FitsHere
<1>2. CASE phase[r] \in {"gather", "ranges"}
  <2>1. PICK p : /\ GotoPhase(r, p)
                 /\ \/ P = 1 /\ p \in {"body", "copy"}
                    \/ P # 1 /\ p \in {"ranges", "rows"}
    <3>1. CASE Gather(r)
      BY <1>2, <3>1 DEF Gather, Gathered
    <3>2. CASE GatherRows(r)
      <4>1. P # 1
        BY <1>1, <3>2 DEF FitsKind, SharedPhases, GatherRows
      <4>. QED  BY <1>2, <3>2, <4>1 DEF GatherRows
    <3>. QED  BY <3>1, <3>2
  <2>2. {phase[r], p} \cap (TakenPhases \cup {"turn"}) = {}
    BY <1>2, <2>1 DEF TakenPhases, HandedPhases
  <2>3. FitsKind(stage[r], p, pass[r])
    BY <1>1, <2>1 DEF FitsKind, SharedPhases, HaloPhases
  <2>4. Known(r, stage[r], p, pass[r]) \subseteq Known(r, stage[r], phase[r], pass[r])
    BY <1>2, <2>1, OwnAndSeen DEF Known
  <2>5. Goto(r, stage[r], p)
    BY <2>1 DEF GotoPhase
  <2>6. stage[r] \notin {"barrier_out", "finished"}
    BY <1>2, HereLegal DEF LegalAt, PhasesOf
  <2>. QED  BY <1>0, <2>2, <2>3, <2>4, <2>5, <2>6, MovesOn DEF Control
<1>3. CASE phase[r] \in {"regather", "reranges"}
  <2>1. PICK p : /\ GotoPhase(r, p)
                 /\ \/ P = 1 /\ p = "end_pass"
                    \/ P # 1 /\ p \in {"reranges", "rerows"}
    <3>1. CASE Gather(r)
      BY <1>3, <3>1 DEF Gather, Gathered
    <3>2. CASE GatherRows(r)
      <4>1. P # 1
        BY <1>1, <1>3, <3>2 DEF FitsKind, SharedPhases, GatherRows
      <4>. QED  BY <1>3, <3>2, <4>1 DEF GatherRows
    <3>. QED  BY <3>1, <3>2
  <2>2. stage[r] = "pass" /\ phase[r] \in HandedPhases /\ p \in HandedPhases
    <3>1. stage[r] = "pass"
      BY <1>3, HereLegal DEF LegalAt, PhasesOf, Stages, HaloPhases
    <3>. QED  BY <1>3, <2>1, <3>1 DEF HandedPhases
  <2>3. FitsKind("pass", p, pass[r])
    BY <1>1, <1>3, <2>1 DEF FitsKind, SharedPhases, HaloPhases
  <2>4. Reached(r, p, pass[r]) \subseteq Reached(r, phase[r], pass[r])
    <3>1. Own(r) \subseteq Units /\ (P = 1 => OwnBlocks(r) = Units)
      BY OwnAndSeen
    <3>. QED  BY <1>3, <2>1, <3>1 DEF Reached
  <2>. QED  BY <1>0, <2>1, <2>2, <2>3, <2>4, MovesOnInPass DEF Control
<1>. QED  BY <1>2, <1>3 DEF Gather, GatherRows

\* A rank that has handed on ends the pass, or awaits what the last one has.
LEMMA HandedOnRanks ==
  ASSUME RanksRight, Control, CellTypes, NEW r \in Ranks, HandedOn(r)
  PROVE  RanksRight'
<1>0. run' = run /\ pass' = pass /\ Untouched /\ phase[r] = "handed_on"
  BY UntouchedSteps DEF HandedOn
<1>1. PICK p : GotoPhase(r, p) /\ p = IF Grid THEN "end_pass" ELSE "bcast"
  BY DEF HandedOn
<1>2. stage[r] = "pass" /\ phase[r] \in HandedPhases /\ p \in HandedPhases
  BY <1>0, <1>1, WorkIsInPass DEF HandedPhases
<1>3. FitsKind("pass", p, pass[r])
  BY <1>0, <1>1, FitsHere DEF FitsKind, SharedPhases
<1>4. Reached(r, p, pass[r]) = Reached(r, phase[r], pass[r])
  BY <1>0, <1>1 DEF Reached, Whole
<1>. QED  BY <1>0, <1>1, <1>2, <1>3, <1>4, MovesOnInPass DEF Control

\* The residual.
LEMMA EvaluateRanks ==
  ASSUME RanksRight, Control, CellTypes, NEW r \in Ranks, Evaluate(r)
  PROVE  RanksRight'
<1>0. run' = run /\ pass' = pass /\ Untouched /\ phase[r] \in {"evaluate", "body"}
  BY UntouchedSteps DEF Evaluate
<1>1. FitsKind(stage[r], "reduce", pass[r])
  BY FitsHere DEF FitsKind, SharedPhases, HaloPhases
<1>2. Known(r, stage[r], "reduce", pass[r]) \subseteq Known(r, stage[r], phase[r], pass[r])
  <2>1. CASE stage[r] = "rhs_norm"
    <3>1. pass[r] = 0
      BY <2>1, FitsHere DEF FitsKind
    <3>. QED  BY <3>1 DEF Known
  <2>2. CASE stage[r] # "rhs_norm"
    <3>1. phase[r] = "body"
      BY <2>2 DEF Evaluate
    <3>. QED  BY <3>1 DEF Known
  <2>. QED  BY <2>1, <2>2
<1>3. {"evaluate", "body", "reduce"} \cap (TakenPhases \cup {"turn"}) = {}
  BY DEF TakenPhases, HandedPhases
<1>4. Goto(r, stage[r], "reduce")
  BY DEF Evaluate, GotoPhase
<1>5. stage[r] \in {"rhs_norm", "initial", "residual"}
  BY DEF Evaluate
<1>. QED  BY <1>0, <1>1, <1>2, <1>3, <1>4, <1>5, MovesOn DEF Control

\* Where a stage begins a rank has to know its own units, or just evaluated.
LEMMA BeginKnows ==
  ASSUME NEW r \in Ranks, NEW s \in {"initial", "pass", "residual", "synchronise"}, NEW k, NEW p,
         p = FirstPhase(s, k), NEW s2, s2 # "rhs_norm"
  PROVE  /\ Known(r, s, p, k) \subseteq Known(r, s2, "reduce", k)
         /\ p \in {"exchange", "gather", "body"}
         /\ p \notin TakenPhases \cup {"turn"}
         /\ s # "initial" => FitsKind(s, p, k)
         /\ p = "body" => ~ Grid /\ s = "pass" /\ PassAt(k + 1) \in {"forward", "backward"}
<1>1. p \in {"exchange", "gather", "body"}
  BY DEF FirstPhase
<1>2. Known(r, s, p, k) \subseteq Known(r, s2, "reduce", k)
  BY <1>1 DEF Known
<1>3. p \notin TakenPhases \cup {"turn"}
  BY <1>1 DEF TakenPhases, HandedPhases
<1>4. s # "initial" => FitsKind(s, p, k)
  BY <1>1 DEF FitsKind, SharedPhases, HaloPhases
<1>5. p = "body" => ~ Grid /\ s = "pass" /\ PassAt(k + 1) \in {"forward", "backward"}
  BY DEF FirstPhase
<1>. QED  BY <1>1, <1>2, <1>3, <1>4, <1>5

\* After a reduction a rank goes on with the values it had.
LEMMA LeaveReduceRanks ==
  ASSUME RanksRight, Control, CellTypes, NEW r \in Ranks, LeaveReduce(r)
  PROVE  RanksRight'
<1>0. run' = run /\ pass' = pass /\ Untouched /\ phase[r] = "reduce"
  BY UntouchedSteps DEF LeaveReduce
<1>1. stage[r] \in {"rhs_norm", "initial", "residual"}
  BY <1>0, HereLegal DEF LegalAt, PhasesOf, Stages, HaloPhases
<1>2. "reduce" \notin TakenPhases \cup {"turn"}
  BY DEF TakenPhases, HandedPhases
<1>3. ASSUME NEW s \in {"pass", "synchronise"}, Begin(r, s, pass[r]), stage[r] # "rhs_norm"
      PROVE  RanksRight'
  <2>1. PICK p : p = FirstPhase(s, pass[r])
    OBVIOUS
  <2>2. Goto(r, s, p)
    BY <1>3, <2>1 DEF Begin
  <2>3. /\ Known(r, s, p, pass[r]) \subseteq Known(r, stage[r], "reduce", pass[r])
        /\ p \notin TakenPhases \cup {"turn"} /\ FitsKind(s, p, pass[r])
    BY <1>3, <2>1, BeginKnows
  <2>. QED  BY <1>0, <1>2, <2>2, <2>3, MovesOn DEF Control
<1>4. CASE stage[r] = "rhs_norm"
  <2>1. pass[r] = 0
    BY <1>4, FitsHere DEF FitsKind
  <2>2. Goto(r, "initial", "exchange")
    BY <1>4 DEF LeaveReduce, Begin, FirstPhase
  <2>3. FitsKind("initial", "exchange", pass[r])
    BY <2>1 DEF FitsKind, SharedPhases, HaloPhases
  <2>4. Known(r, "initial", "exchange", pass[r]) = Known(r, stage[r], phase[r], pass[r])
    BY <2>1 DEF Known
  <2>5. "exchange" \notin TakenPhases \cup {"turn"}
    BY DEF TakenPhases, HandedPhases
  <2>. QED  BY <1>0, <1>2, <2>2, <2>3, <2>4, <2>5, MovesOn DEF Control
<1>5. CASE stage[r] = "initial" /\ ~ Converged(r)
  <2>1. Loop(r, pass[r])
    BY <1>5 DEF LeaveReduce
  <2>2. PICK s \in {"pass", "synchronise"} : Begin(r, s, pass[r])
    BY <2>1 DEF Loop
  <2>. QED  BY <1>3, <1>5, <2>2
<1>6. CASE stage[r] = "initial" /\ Converged(r)
  <2>1. Goto(r, "barrier_out", "start")
    BY <1>6 DEF LeaveReduce
  <2>2. OneMoves(r, "barrier_out", "start", pass[r], cell[r], current[r], todo[r])
    BY <1>0, <2>1, GoesOnly DEF Control, Untouched
  <2>3. PICK k, cells, slot, left :
          k = pass[r] /\ cells = cell[r] /\ slot = current[r] /\ left = todo[r]
    OBVIOUS
  <2>4. RankAt(r, "initial", "reduce", k, cells, slot, left) /\ k = 0
    BY <1>0, <1>6, <2>3, FitsHere DEF RanksRight, RankHere, FitsKind
  <2>5. slot = "iterate" /\ left = {} /\ FreshOn(cells[slot], Units, k)
    BY <1>6, <2>4 DEF RankAt, LeftAt, SlotsRight, HoldsRight, Known
  <2>6. RankAt(r, "barrier_out", "start", k, cells, slot, left)
    <3>1. FitsKind("barrier_out", "start", k)
      BY DEF FitsKind, SharedPhases, HaloPhases
    <3>2. LeftAt(r, "start", k, left)
      BY <2>5 DEF LeftAt
    <3>3. SlotsRight("barrier_out", k, cells, slot)
      BY <2>5 DEF SlotsRight
    <3>4. HoldsRight(r, "barrier_out", "start", k, cells, slot, left)
      BY <2>4, <2>5 DEF HoldsRight, Known
    <3>5. CellsBounded("barrier_out", "start", k, cells)
      BY <2>4 DEF RankAt, CellsBounded, BoundAt
    <3>. QED  BY <3>1, <3>2, <3>3, <3>4, <3>5 DEF RankAt
  <2>. QED  BY <2>2, <2>3, <2>6, OneMoveKeeps
<1>7. CASE stage[r] = "residual"
  <2>1. PICK s \in {"pass", "synchronise"} : Begin(r, s, pass[r])
    BY <1>7 DEF LeaveReduce, Loop
  <2>. QED  BY <1>3, <1>7, <2>1
<1>. QED  BY <1>1, <1>4, <1>5, <1>6, <1>7

\* The whole iterate goes into slot 0.
LEMMA FinishRanks ==
  ASSUME RanksRight, Control, CellTypes, NEW r \in Ranks, Finish(r)
  PROVE  RanksRight'
<1>1. PICK k, cells, slot, left, new :
        /\ k = pass[r] /\ cells = cell[r] /\ slot = current[r] /\ left = todo[r]
        /\ new = [cell[r] EXCEPT !["iterate"] = Mine(r)]
  OBVIOUS
<1>2. OneMoves(r, "barrier_out", "start", k, new, slot, left)
  <2>1. "iterate" \in Slots
    BY DEF Slots
  <2>. QED  BY <1>1, <2>1, StoresOnly DEF Finish, Control
<1>3. RankAt(r, "synchronise", "copy", k, cells, slot, left)
  BY <1>1 DEF RanksRight, RankHere, Finish, At
<1>4. FreshOn(cells[slot], Units, k) /\ left = {} /\ slot \in Slots
  <2>1. slot \in Slots
    BY <1>1 DEF CellTypes, Slots
  <2>. QED  BY <1>3, <2>1 DEF RankAt, HoldsRight, Known, LeftAt
<1>5. new["iterate"] = cells[slot] /\ \A o \in Slots : o # "iterate" => new[o] = cells[o]
  BY <1>1, OtherSlots DEF Mine, Slots
<1>6. RankAt(r, "barrier_out", "start", k, new, slot, left)
  <2>1. FitsKind("barrier_out", "start", k)
    BY DEF FitsKind, SharedPhases, HaloPhases
  <2>2. LeftAt(r, "start", k, left)
    BY <1>4 DEF LeftAt
  <2>3. SlotsRight("barrier_out", k, new, slot)
    BY <1>3, <1>4, <1>5 DEF SlotsRight, RankAt
  <2>4. new[slot] = cells[slot]
    BY <1>4, <1>5
  <2>5. Known(r, "barrier_out", "start", k) \subseteq Units
    BY OwnAndSeen DEF Known
  <2>6. HoldsRight(r, "barrier_out", "start", k, new, slot, left)
    BY <1>4, <2>4, <2>5 DEF HoldsRight, FreshOn
  <2>7. CellsBounded("barrier_out", "start", k, new)
    BY <1>3, <1>4, <1>5 DEF RankAt, CellsBounded, BoundAt
  <2>. QED  BY <2>1, <2>2, <2>3, <2>6, <2>7 DEF RankAt
<1>. QED  BY <1>2, <1>6, OneMoveKeeps

-----------------------------------------------------------------------------
(* A pass, from its beginning to its end. *)

\* Before the first item nothing of the pass is done, but what came in turn.
LEMMA NothingDone ==
  ASSUME NEW r \in Ranks, NEW kind, NEW u, UnitDone(r, kind, ItemsOf(r, kind), u)
  PROVE  \/ kind \in Ascending /\ r > 0
         \/ kind \in Descending /\ r + 1 < P
<1>1. PICK i \in 1..ItemCount(kind) : ItemDone(r, kind, ItemsOf(r, kind), i)
  BY DEF UnitDone
<1>2. r \in 0..(P - 1) /\ P \in Nat
  BY RanksAssumption DEF Ranks
<1>3. CASE kind \in Ascending /\ i <= ShareOf(r, kind).begin
  <2>1. ShareOf(0, kind).begin = 0
    BY SharesMeet
  <2>2. i > 0
    BY ItemNumbers
  <2>3. r # 0
    BY <1>3, <2>1, <2>2
  <2>. QED  BY <1>2, <1>3, <2>3
<1>4. CASE kind \in Descending /\ i > ShareOf(r, kind).end
  <2>1. ShareOf(P - 1, kind).end = ItemCount(kind)
    BY SharesMeet
  <2>2. ItemCount(kind) \in Nat /\ i <= ItemCount(kind)
    BY ItemNumbers
  <2>3. r # P - 1
    BY <1>4, <2>1, <2>2
  <2>. QED  BY <1>2, <1>4, <2>3
<1>. QED  BY <1>1, <1>3, <1>4 DEF ItemDone

\* All of a rank's own items, and what the pass has brought it.
LEMMA OwnDone ==
  ASSUME NEW r \in Ranks, NEW kind
  PROVE  /\ \A u \in Own(r) : FlatBlocks(kind) \/ UnitDone(r, kind, {}, u)
         /\ FlatBlocks(kind) => \A u \in OwnBlocks(r) : UnitDone(r, kind, {}, u)
         /\ kind \in Ascending \cup Descending /\ r = TurnEnd(kind) =>
              \A u \in Units : UnitDone(r, kind, {}, u)
<1>1. \A i \in ItemsOf(r, kind) : i \in 1..ItemCount(kind) /\ ItemDone(r, kind, {}, i)
  BY ItemNumbers DEF ItemDone
<1>2. ASSUME ~ FlatBlocks(kind), NEW u \in Own(r) PROVE UnitDone(r, kind, {}, u)
  <2>1. u \in ItemsOf(r, kind) /\ u \in UnitsIn(u, kind)
    BY <1>2 DEF ItemsOf, UnitsIn, Own
  <2>. QED  BY <1>1, <2>1 DEF UnitDone
<1>3. ASSUME FlatBlocks(kind), NEW u \in OwnBlocks(r) PROVE UnitDone(r, kind, {}, u)
  <2>1. PICK i \in ItemsOf(r, kind) : u \in UnitsIn(i, kind)
    BY <1>3, BlocksOwned
  <2>. QED  BY <1>1, <2>1 DEF UnitDone
<1>4. ASSUME kind \in Ascending \cup Descending, r = TurnEnd(kind), NEW u \in Units
      PROVE  UnitDone(r, kind, {}, u)
  <2>1. PICK i \in 1..ItemCount(kind) : u \in UnitsIn(i, kind)
    BY ItemsCover
  <2>2. ItemDone(r, kind, {}, i)
    <3>1. /\ ItemsOf(r, kind) = UnitsOf(ShareOf(r, kind)) /\ ItemCount(kind) \in Nat
          /\ ShareOf(r, kind).begin \in Nat /\ ShareOf(r, kind).end \in Nat
      BY ItemNumbers
    <3>2. i \in ItemsOf(r, kind) <=> ShareOf(r, kind).begin < i /\ i <= ShareOf(r, kind).end
      BY <3>1 DEF UnitsOf
    <3>3. CASE kind \in Ascending
      <4>1. r = P - 1
        BY <1>4, <3>3 DEF TurnEnd, Ascending
      <4>2. ShareOf(r, kind).end = ItemCount(kind)
        BY <4>1, SharesMeet
      <4>. QED  BY <3>1, <3>2, <3>3, <4>2 DEF ItemDone
    <3>4. CASE kind \in Descending
      <4>1. r = 0
        BY <1>4, <3>4 DEF TurnEnd, Descending
      <4>2. ShareOf(r, kind).begin = 0
        BY <4>1, SharesMeet
      <4>. QED  BY <3>1, <3>2, <3>4, <4>2 DEF ItemDone
    <3>. QED  BY <1>4, <3>3, <3>4
  <2>. QED  BY <2>1, <2>2 DEF UnitDone
<1>. QED  BY <1>2, <1>3, <1>4

\* The ordered passes are the ascending and the descending ones.
LEMMA OrderedIs ==
  ASSUME NEW kind
  PROVE  /\ Ordered(kind) <=> kind \in Ascending \cup Descending
         /\ Ordered(kind) => kind # "jacobi" /\ kind # "block_jacobi"
BY DEF Ordered, Ascending, Descending

\* The copy a rank works on when it has its turn: all of its items are left.
LEMMA WorkBegins ==
  ASSUME NEW r \in Ranks, NEW k \in Nat, NEW cells, NEW slot, NEW left,
         left = ItemsOf(r, PassAt(k + 1)), WorkRight(r, k, cells[slot], left),
         PassAt(k + 1) = "block_jacobi" => FreshOn(cells["previous"], Seen(r), k),
         NEW old, CellsBounded("pass", "turn", k, old),
         \A t \in Slots, u \in Stored :
           cells[t][u] = old[t][u] \/ cells[t][u] = old[slot][u] \/ Bounded(cells[t][u], k + 1),
         slot \in {"iterate", "work"}, k = 0 => slot = "iterate",
         FitsKind("pass", "work", k)
  PROVE  RankAt(r, "pass", "work", k, cells, slot, left)
<1>1. LeftAt(r, "work", k, left)
  BY DEF LeftAt
<1>2. SlotsRight("pass", k, cells, slot)
  BY DEF SlotsRight
<1>3. "work" \in WorkedPhases /\ "turn" \notin WorkedPhases
  BY DEF WorkedPhases, TakenPhases, HandedPhases
<1>4. HoldsRight(r, "pass", "work", k, cells, slot, left)
  <2>1. RestOf(r, PassAt(k + 1), left)
    BY DEF RestOf
  <2>2. PassAt(k + 1) = "jacobi" => Own(r) \ left = {}
    BY DEF ItemsOf, FlatBlocks, ByBlocks, Own
  <2>3. BesideRight(r, k, cells, slot, left)
    BY <2>2 DEF BesideRight, FreshOn
  <2>. QED  BY <1>3, <2>1, <2>3 DEF HoldsRight, Works
<1>5. CellsBounded("pass", "work", k, cells)
  <2>1. slot \in Slots
    BY DEF Slots
  <2>2. \A t \in Slots, u \in Stored : Bounded(old[t][u], k)
    BY <1>3 DEF CellsBounded, BoundAt
  <2>3. \A t \in Slots, u \in Stored : Bounded(old[t][u], k + 1)
    BY <2>2, BoundedLonger
  <2>4. \A t \in Slots, u \in Stored : Bounded(cells[t][u], k + 1)
    BY <2>1, <2>3
  <2>. QED  BY <1>3, <2>4 DEF CellsBounded, BoundAt
<1>. QED  BY <1>1, <1>2, <1>4, <1>5 DEF RankAt

\* A pass begins with all its items left, over what the rank has just brought in.
LEMMA StartPassRanks ==
  ASSUME RanksRight, Control, CellTypes, NEW r \in Ranks, StartPass(r)
  PROVE  RanksRight'
<1>1. PICK k, cells, slot, left, kind, new :
        /\ k = pass[r] /\ cells = cell[r] /\ slot = current[r] /\ kind = Kind(r)
        /\ left = ItemsOf(r, kind)
        /\ new = IF kind = "block_jacobi" THEN [cell[r] EXCEPT !["previous"] = Mine(r)] ELSE cell[r]
  OBVIOUS
<1>2. PICK p : p = IF Ordered(kind) /\ P > 1 THEN "turn" ELSE "work"
  OBVIOUS
<1>3. k \in Nat /\ run \in Runs /\ slot \in {"iterate", "work"} /\ "previous" \in Slots /\ slot \in Slots
      /\ kind = PassAt(k + 1)
  BY <1>1 DEF Control, ControlTypes, CellTypes, Slots, Kind
<1>4. GotoPhase(r, p) /\ stage[r] = "pass" /\ phase[r] = "body" /\ run' = run /\ pass' = pass
      /\ current' = current /\ todo' = [todo EXCEPT ![r] = left]
  BY <1>1, <1>2 DEF StartPass, At
<1>5. OneMoves(r, "pass", p, k, new, slot, left)
  <2>1. cell'[r] = new /\ \A q \in Ranks : q # r => cell'[q] = cell[q]
    <3>1. CASE kind = "block_jacobi"
      <4>1. cell' = [cell EXCEPT ![r]["previous"] = Mine(r)]
        BY <1>1, <3>1 DEF StartPass
      <4>2. cell' = [cell EXCEPT ![r] = new]
        BY <1>1, <3>1, <4>1
      <4>. QED  BY <4>2 DEF CellTypes
    <3>2. CASE kind # "block_jacobi"
      BY <1>1, <3>2 DEF StartPass
    <3>. QED  BY <3>1, <3>2
  <2>2. todo'[r] = left /\ \A q \in Ranks : q # r => todo'[q] = todo[q]
    BY <1>4 DEF CellTypes
  <2>. QED  BY <1>1, <1>4, <2>1, <2>2, GoneToPhase DEF OneMoves, Control
<1>6. PICK before : RankAt(r, "pass", "body", k, cells, slot, before)
  BY <1>1, <1>4 DEF RanksRight, RankHere
<1>7. FreshOn(cells[slot], Known(r, "pass", "body", k), k)
      /\ Seen(r) \subseteq Known(r, "pass", "body", k)
  <2>1. "body" \notin WorkedPhases
    BY DEF WorkedPhases, TakenPhases, HandedPhases
  <2>. QED  BY <1>6, <2>1, OwnAndSeen DEF RankAt, HoldsRight, Known
<1>8. CASE p = "turn"
  <2>1. Ordered(kind) /\ P > 1 /\ new = cells
    BY <1>1, <1>2, <1>8, OrderedIs
  <2>2. FitsKind("pass", "turn", k)
    BY <1>3, <2>1, OrderedIs DEF FitsKind
  <2>3. LeftAt(r, "turn", k, left)
    BY <1>1, <1>3 DEF LeftAt
  <2>4. SlotsRight("pass", k, new, slot)
    BY <1>6 DEF RankAt, SlotsRight
  <2>5. "turn" \notin WorkedPhases /\ "body" \notin WorkedPhases
    BY DEF WorkedPhases, TakenPhases, HandedPhases
  <2>6. HoldsRight(r, "pass", "turn", k, new, slot, left)
    BY <1>7, <2>1, <2>5 DEF HoldsRight, Known
  <2>7. CellsBounded("pass", "turn", k, new)
    BY <1>6, <2>1, <2>5 DEF RankAt, CellsBounded, BoundAt
  <2>8. RankAt(r, "pass", "turn", k, new, slot, left)
    BY <2>2, <2>3, <2>4, <2>6, <2>7 DEF RankAt
  <2>. QED  BY <1>5, <1>8, <2>8, OneMoveKeeps
<1>9. CASE p = "work"
  <2>1. P \in Nat \ {0}
    BY RanksAssumption
  <2>2. ~ Ordered(kind) \/ P = 1
    BY <1>2, <1>9, <2>1
  <2>3. \A u : ~ UnitDone(r, kind, left, u)
    <3>1. ASSUME NEW u, UnitDone(r, kind, left, u) PROVE FALSE
      <4>1. Ordered(kind) /\ (r > 0 \/ r + 1 < P)
        BY <1>1, <3>1, NothingDone, OrderedIs
      <4>2. P = 1 => r = 0
        BY OneRank
      <4>. QED  BY <2>2, <4>1, <4>2
    <3>. QED  BY <3>1
  <2>4. new[slot] = cells[slot]
    BY <1>1, <1>3, OtherSlots
  <2>5. WorkRight(r, k, new[slot], left)
    BY <1>3, <1>7, <2>3, <2>4 DEF WorkRight, FreshOn
  <2>6. kind = "block_jacobi" => FreshOn(new["previous"], Seen(r), k)
    <3>1. CASE kind = "block_jacobi"
      <4>1. PICK row : row = Mine(r)
        OBVIOUS
      <4>2. new = [cell[r] EXCEPT !["previous"] = row]
        BY <1>1, <3>1, <4>1
      <4>3. new["previous"] = cells[slot]
        <5>1. new["previous"] = row
          <6>1. cell[r] = [o \in Slots |-> cell[r][o]]
            BY DEF CellTypes
          <6>. QED  BY <1>3, <4>2, <6>1
        <5>2. row = cells[slot]
          BY <1>1, <4>1 DEF Mine
        <5>. QED  BY <5>1, <5>2
      <4>. QED  BY <1>7, <4>3 DEF FreshOn
    <3>. QED  BY <3>1
  <2>7. CellsBounded("pass", "turn", k, cells)
    BY <1>6 DEF RankAt, CellsBounded, BoundAt, WorkedPhases, TakenPhases, HandedPhases
  <2>8. \A t \in Slots, u \in Stored : new[t][u] = cells[t][u] \/ new[t][u] = cells[slot][u]
    <3>1. \A t \in Slots : new[t] = cells[t] \/ new[t] = cells[slot]
      BY <1>1, <1>3, OtherSlots DEF Mine
    <3>. QED  BY <3>1
  <2>9. FitsKind("pass", "work", k) /\ (k = 0 => slot = "iterate")
    BY <1>6 DEF FitsKind, SharedPhases, HaloPhases, RankAt, SlotsRight
  <2>10. left = ItemsOf(r, PassAt(k + 1))
    BY <1>1, <1>3
  <2>11. PassAt(k + 1) = "block_jacobi" => FreshOn(new["previous"], Seen(r), k)
    BY <1>3, <2>6
  <2>12. RankAt(r, "pass", "work", k, new, slot, left)
    BY <1>3, <2>5, <2>7, <2>8, <2>9, <2>10, <2>11, WorkBegins
  <2>. QED  BY <1>5, <1>9, <2>12, OneMoveKeeps
<1>. QED  BY <1>2, <1>8, <1>9

\* An update keeps the pass.
LEMMA UpdateItemRanks ==
  ASSUME RanksRight, Control, CellTypes, Grid => RingKept, NEW r \in Ranks, UpdateItem(r)
  PROVE  RanksRight'
<1>1. PICK i \in NextItems(r) :
        /\ cell' = [cell EXCEPT ![r][Target(r)] = Updated(r, UnitsIn(i, Kind(r)))]
        /\ todo' = [todo EXCEPT ![r] = @ \ {i}]
  BY DEF UpdateItem
<1>2. PICK k, slot, left, new :
        /\ k = pass[r] /\ slot = current[r] /\ left = todo[r] \ {i}
        /\ new = [cell[r] EXCEPT ![Target(r)] = Updated(r, UnitsIn(i, Kind(r)))]
  OBVIOUS
<1>3. stage[r] = "pass" /\ phase[r] = "work" /\ todo[r] # {} /\ run' = run
      /\ stage' = stage /\ phase' = phase /\ pass' = pass /\ current' = current
  BY WorkIsInPass DEF UpdateItem
<1>4. Target(r) \in Slots /\ k \in Nat
  BY <1>2, WorkSlots DEF Control, ControlTypes
<1>5. OneMoves(r, "pass", "work", k, new, slot, left)
  <2>1. cell' = [cell EXCEPT ![r] = new]
    BY <1>1, <1>2
  <2>2. cell'[r] = new /\ \A q \in Ranks : q # r => cell'[q] = cell[q]
    BY <2>1 DEF CellTypes
  <2>3. todo'[r] = left /\ \A q \in Ranks : q # r => todo'[q] = todo[q]
    BY <1>1, <1>2 DEF CellTypes
  <2>. QED  BY <1>2, <1>3, <2>2, <2>3 DEF OneMoves
<1>6. RankAt(r, "pass", "work", k, cell[r], slot, todo[r])
  BY <1>2, <1>3 DEF RanksRight, RankHere
<1>7. "work" \in WorkedPhases
  BY DEF WorkedPhases, TakenPhases, HandedPhases
<1>8. WorksHere(r)
  BY <1>2, <1>6, <1>7 DEF WorksHere, RankAt, HoldsRight
<1>9. /\ Works(r, k, new, slot, left)
      /\ \A u \in Stored : Bounded(cell[r][Target(r)][u], k + 1) => Bounded(new[Target(r)][u], k + 1)
  BY <1>2, <1>3, <1>8, UpdateWrites DEF Control
<1>10. RankAt(r, "pass", "work", k, new, slot, left)
  <2>1. \A t \in Slots, u \in Stored : Bounded(cell[r][t][u], k + 1)
    BY <1>6, <1>7 DEF RankAt, CellsBounded, BoundAt
  <2>2. \A t \in Slots : t # Target(r) => new[t] = cell[r][t]
    BY <1>2, <1>4, OtherSlots
  <2>3. \A t \in Slots, u \in Stored : Bounded(new[t][u], k + 1)
    BY <1>4, <1>9, <2>1, <2>2
  <2>4. CellsBounded("pass", "work", k, new)
    BY <1>7, <2>3 DEF CellsBounded, BoundAt
  <2>5. HoldsRight(r, "pass", "work", k, new, slot, left)
    BY <1>7, <1>9 DEF HoldsRight
  <2>6. LeftAt(r, "work", k, left) /\ SlotsRight("pass", k, new, slot) /\ FitsKind("pass", "work", k)
    BY <1>6 DEF RankAt, LeftAt, SlotsRight
  <2>. QED  BY <2>4, <2>5, <2>6 DEF RankAt
<1>. QED  BY <1>5, <1>10, OneMoveKeeps

\* What a rank holds once its last item is updated.
LEMMA WorkEnds ==
  ASSUME NEW r \in Ranks, NEW k \in Nat, NEW cells, NEW slot, Works(r, k, cells, slot, {})
  PROVE  /\ ~ FlatBlocks(PassAt(k + 1)) => FreshOn(cells[TargetAt(k, slot)], Own(r), k + 1)
         /\ FlatBlocks(PassAt(k + 1)) =>
              FreshOn(cells[TargetAt(k, slot)], OwnBlocks(r), k + 1)
         /\ Ordered(PassAt(k + 1)) /\ ~ Grid /\ r = TurnEnd(PassAt(k + 1)) =>
              FreshOn(cells[TargetAt(k, slot)], Units, k + 1)
<1>1. PICK kind, x : kind = PassAt(k + 1) /\ x = cells[slot]
  OBVIOUS
<1>2. \A u \in Seen(r) : kind # "jacobi" /\ UnitDone(r, kind, {}, u) => Fresh(x[u], k + 1)
  BY <1>1 DEF Works, WorkRight
<1>3. kind # "jacobi" => TargetAt(k, slot) = slot
  BY <1>1 DEF TargetAt
<1>4. Own(r) \subseteq Seen(r)
  BY OwnAndSeen DEF Seen
<1>5. ASSUME ~ FlatBlocks(kind) PROVE FreshOn(cells[TargetAt(k, slot)], Own(r), k + 1)
  <2>1. CASE kind = "jacobi"
    BY <1>1, <2>1 DEF Works, BesideRight
  <2>2. CASE kind # "jacobi"
    <3>1. \A u \in Own(r) : UnitDone(r, kind, {}, u)
      BY <1>5, OwnDone
    <3>. QED  BY <1>1, <1>2, <1>3, <1>4, <2>2, <3>1 DEF FreshOn
  <2>. QED  BY <2>1, <2>2
<1>6. ASSUME FlatBlocks(kind) PROVE FreshOn(cells[TargetAt(k, slot)], OwnBlocks(r), k + 1)
  <2>1. kind # "jacobi" /\ ~ Grid
    BY <1>6 DEF FlatBlocks, ByBlocks
  <2>2. \A u \in OwnBlocks(r) : UnitDone(r, kind, {}, u)
    BY <1>6, OwnDone
  <2>3. OwnBlocks(r) \subseteq Seen(r)
    BY <1>6, <2>1, BlocksOwned DEF Seen
  <2>. QED  BY <1>1, <1>2, <1>3, <2>1, <2>2, <2>3 DEF FreshOn
<1>7. ASSUME Ordered(kind), ~ Grid, r = TurnEnd(kind)
      PROVE  FreshOn(cells[TargetAt(k, slot)], Units, k + 1)
  <2>1. kind \in Ascending \cup Descending /\ kind # "jacobi"
    BY <1>7, OrderedIs
  <2>2. \A u \in Units : UnitDone(r, kind, {}, u)
    BY <1>7, <2>1, OwnDone
  <2>3. Seen(r) = Units
    BY <1>7 DEF Seen
  <2>. QED  BY <1>1, <1>2, <1>3, <2>1, <2>2, <2>3 DEF FreshOn
<1>. QED  BY <1>1, <1>5, <1>6, <1>7

\* The end of the work of a pass.
LEMMA WorkLeft ==
  ASSUME RanksRight, Control, CellTypes, NEW r \in Ranks, phase[r] = "work", todo[r] = {},
         NEW p \in HandedPhases, GotoPhase(r, p), run' = run, pass' = pass, Untouched,
         FitsKind("pass", p, pass[r]),
         FreshOn(cell[r][Target(r)], Reached(r, p, pass[r]), pass[r] + 1)
  PROVE  RanksRight'
<1>1. stage[r] = "pass"
  BY WorkIsInPass
<1>2. OneMoves(r, "pass", p, pass[r], cell[r], current[r], todo[r])
  BY <1>1, GoesOnly DEF Untouched, GotoPhase, Control
<1>3. PICK k, cells, slot, left : k = pass[r] /\ cells = cell[r] /\ slot = current[r] /\ left = todo[r]
  OBVIOUS
<1>4. RankAt(r, "pass", "work", k, cells, slot, left)
  BY <1>1, <1>3 DEF RanksRight, RankHere
<1>5. {"work", p} \subseteq WorkedPhases /\ p \notin {"work", "turn"}
  BY DEF WorkedPhases, TakenPhases, HandedPhases
<1>6. LeftAt(r, p, k, left)
  BY <1>3, <1>5 DEF LeftAt
<1>7. SlotsRight("pass", k, cells, slot)
  BY <1>4 DEF RankAt, SlotsRight
<1>8. HoldsRight(r, "pass", p, k, cells, slot, left)
  BY <1>3, <1>5, TargetIs DEF HoldsRight
<1>9. CellsBounded("pass", p, k, cells)
  BY <1>4, <1>5 DEF RankAt, CellsBounded, BoundAt
<1>10. RankAt(r, "pass", p, k, cells, slot, left)
  BY <1>3, <1>6, <1>7, <1>8, <1>9 DEF RankAt
<1>. QED  BY <1>2, <1>3, <1>10, OneMoveKeeps

\* A rank at work is in a pass, with the work so far done right.
LEMMA WorkedHere ==
  ASSUME RanksRight, Control, CellTypes, NEW r \in Ranks, phase[r] = "work"
  PROVE  /\ WorksHere(r) /\ FitsKind("pass", "work", pass[r]) /\ pass[r] \in Nat
         /\ Kind(r) = PassAt(pass[r] + 1)
<1>1. stage[r] = "pass"
  BY WorkIsInPass
<1>2. "work" \in WorkedPhases
  BY DEF WorkedPhases, TakenPhases, HandedPhases
<1>. QED  BY <1>1, <1>2 DEF RanksRight, RankHere, RankAt, HoldsRight, WorksHere, Control, ControlTypes, Kind

\* A turn handed on leaves its sender as it was.
LEMMA HandOnRanks ==
  ASSUME RanksRight, Control, CellTypes, NEW r \in Ranks, HandOn(r)
  PROVE  RanksRight'
<1>1. /\ phase[r] = "work" /\ todo[r] = {} /\ Ordered(Kind(r)) /\ P > 1
      /\ GotoPhase(r, "handed_on") /\ run' = run /\ pass' = pass /\ Untouched
  BY UntouchedSteps DEF HandOn
<1>2. /\ Works(r, pass[r], cell[r], current[r], {}) /\ FitsKind("pass", "work", pass[r])
      /\ pass[r] \in Nat /\ Kind(r) = PassAt(pass[r] + 1) /\ Target(r) = TargetAt(pass[r], current[r])
  BY <1>1, WorkedHere, TargetIs DEF WorksHere
<1>3. FitsKind("pass", "handed_on", pass[r])
  BY <1>1, <1>2, OrderedIs DEF FitsKind
<1>4. FreshOn(cell[r][Target(r)], Reached(r, "handed_on", pass[r]), pass[r] + 1)
  <2>1. PICK k, cells, slot : k = pass[r] /\ cells = cell[r] /\ slot = current[r]
    OBVIOUS
  <2>2. FreshOn(cells[TargetAt(k, slot)], Reached(r, "handed_on", k), k + 1)
    <3>1. CASE Grid
      <4>1. Reached(r, "handed_on", k) = Own(r) /\ ~ FlatBlocks(PassAt(k + 1))
        BY <3>1 DEF Reached, Whole, FlatBlocks
      <4>. QED  BY <1>2, <2>1, <4>1, WorkEnds
    <3>2. CASE ~ Grid
      <4>1. CASE r = TurnEnd(PassAt(k + 1))
        <5>1. Reached(r, "handed_on", k) = Units
          BY <3>2, <4>1 DEF Reached
        <5>. QED  BY <1>1, <1>2, <2>1, <3>2, <4>1, <5>1, WorkEnds
      <4>2. CASE r # TurnEnd(PassAt(k + 1))
        <5>1. Reached(r, "handed_on", k) = {}
          BY <3>2, <4>2 DEF Reached
        <5>. QED  BY <5>1 DEF FreshOn
      <4>. QED  BY <4>1, <4>2
    <3>. QED  BY <3>1, <3>2
  <2>. QED  BY <1>2, <2>1, <2>2
<1>5. "handed_on" \in HandedPhases
  BY DEF HandedPhases
<1>. QED  BY <1>1, <1>3, <1>4, <1>5, WorkLeft

\* When its items are done a rank holds its units one pass further.
LEMMA WorkDoneRanks ==
  ASSUME RanksRight, Control, CellTypes, NEW r \in Ranks, WorkDone(r)
  PROVE  RanksRight'
<1>1. PICK p : /\ p = IF FlatBlocks(Kind(r)) /\ ~ Ordered(Kind(r)) THEN "regather" ELSE "end_pass"
               /\ GotoPhase(r, p)
  BY DEF WorkDone
<1>2. /\ phase[r] = "work" /\ todo[r] = {} /\ ~ (Ordered(Kind(r)) /\ P > 1)
      /\ run' = run /\ pass' = pass /\ Untouched
  BY UntouchedSteps DEF WorkDone
<1>3. PICK k, cells, slot, kind : k = pass[r] /\ cells = cell[r] /\ slot = current[r] /\ kind = Kind(r)
  OBVIOUS
<1>4. /\ Works(r, k, cells, slot, {}) /\ FitsKind("pass", "work", k)
      /\ k \in Nat /\ kind = PassAt(k + 1) /\ Target(r) = TargetAt(k, slot)
  BY <1>2, <1>3, WorkedHere, TargetIs DEF WorksHere
<1>5. FlatBlocks(kind) /\ ~ Ordered(kind) => ~ Grid /\ kind = "block_jacobi"
  BY DEF FlatBlocks, ByBlocks, Ordered
<1>6. FitsKind("pass", p, k)
  BY <1>1, <1>3, <1>4, <1>5 DEF FitsKind, SharedPhases, HaloPhases
<1>7. FreshOn(cells[TargetAt(k, slot)], Reached(r, p, k), k + 1)
  <2>1. CASE FlatBlocks(kind) /\ ~ Ordered(kind)
    <3>1. Reached(r, p, k) = OwnBlocks(r)
      BY <1>1, <1>3, <2>1 DEF Reached
    <3>. QED  BY <1>4, <2>1, <3>1, WorkEnds
  <2>2. CASE ~ (FlatBlocks(kind) /\ ~ Ordered(kind))
    <3>1. p = "end_pass"
      BY <1>1, <1>3, <2>2
    <3>2. Reached(r, p, k) = IF Whole(kind) THEN Units ELSE Own(r)
      BY <1>4, <3>1 DEF Reached
    <3>3. CASE Whole(kind)
      <4>1. ~ Grid /\ Ordered(kind)
        BY <2>2, <3>3, OrderedIs DEF Whole, FlatBlocks, ByBlocks
      <4>2. P = 1
        <5>1. P \in Nat \ {0}
          BY RanksAssumption
        <5>. QED  BY <1>2, <1>3, <4>1, <5>1
      <4>3. r = TurnEnd(kind)
        <5>1. r = 0
          BY <4>2, OwnAndSeen
        <5>. QED  BY <4>2, <5>1 DEF TurnEnd
      <4>. QED  BY <1>4, <3>2, <3>3, <4>1, <4>3, WorkEnds
    <3>4. CASE ~ Whole(kind)
      <4>1. ~ FlatBlocks(kind)
        BY <3>4 DEF Whole, FlatBlocks, ByBlocks, Ascending
      <4>. QED  BY <1>4, <3>2, <3>4, <4>1, WorkEnds
    <3>. QED  BY <3>3, <3>4
  <2>. QED  BY <2>1, <2>2
<1>8. p \in HandedPhases
  BY <1>1 DEF HandedPhases
<1>. QED  BY <1>1, <1>2, <1>3, <1>4, <1>6, <1>7, <1>8, WorkLeft

\* A pass more.
LEMMA EndPassRanks ==
  ASSUME RanksRight, Control, CellTypes, NEW r \in Ranks, EndPass(r)
  PROVE  RanksRight'
<1>1. PICK k, cells, slot, left, next :
        /\ k = pass[r] /\ cells = cell[r] /\ slot = current[r] /\ left = todo[r] /\ next = Target(r)
  OBVIOUS
<1>2. PICK s \in {"pass", "residual", "synchronise"} : Begin(r, s, k + 1)
  BY <1>1 DEF EndPass, Loop
<1>3. PICK p : p = FirstPhase(s, k + 1)
  OBVIOUS
<1>4. stage[r] = "pass" /\ phase[r] = "end_pass" /\ k \in Nat /\ run \in Runs
  BY <1>1, WorkIsInPass DEF EndPass, Control, ControlTypes
<1>5. OneMoves(r, s, p, k + 1, cells, next, left)
  <2>1. Goto(r, s, p) /\ run' = run /\ cell' = cell /\ todo' = todo
    BY <1>2, <1>3 DEF Begin, EndPass
  <2>2. pass'[r] = k + 1 /\ \A q \in Ranks : q # r => pass'[q] = pass[q]
    BY <1>1 DEF EndPass, Control, ControlTypes
  <2>. QED  BY <1>1, <2>1, <2>2, GoneTo, EndPassShape DEF OneMoves, Control
<1>6. RankAt(r, "pass", "end_pass", k, cells, slot, left) /\ next = TargetAt(k, slot)
  BY <1>1, <1>4, TargetIs DEF RanksRight, RankHere
<1>7. "end_pass" \in WorkedPhases \ {"work"} /\ "end_pass" \notin {"turn", "work"}
  BY DEF WorkedPhases, TakenPhases, HandedPhases
<1>8. PICK reached : reached = Reached(r, "end_pass", k) /\ FreshOn(cells[next], reached, k + 1)
  BY <1>6, <1>7 DEF RankAt, HoldsRight
<1>9. /\ p \in {"exchange", "gather", "body"} /\ p \notin TakenPhases \cup {"turn"}
      /\ FitsKind(s, p, k + 1)
      /\ p = "body" => ~ Grid /\ s = "pass" /\ PassAt((k + 1) + 1) \in {"forward", "backward"}
  BY <1>3, BeginKnows
<1>10. Own(r) \subseteq reached /\ (p = "body" => reached = Units)
  <2>1. reached = IF Whole(PassAt(k + 1)) THEN Units ELSE Own(r)
    BY <1>8 DEF Reached
  <2>2. CASE p = "body"
    <3>1. (k + 1) + 1 = k + 2
      BY <1>4
    <3>2. PassAt(k + 1) \in {"forward", "backward"} /\ ~ Grid
      BY <1>4, <1>9, <2>2, <3>1, RelaxationsFollow
    <3>3. Whole(PassAt(k + 1))
      BY <3>2 DEF Whole, Ascending, Descending
    <3>. QED  BY <2>1, <3>3, OwnAndSeen
  <2>. QED  BY <2>1, <2>2, OwnAndSeen
<1>11. RankAt(r, s, p, k + 1, cells, next, left)
  <2>1. LeftAt(r, p, k + 1, left)
    BY <1>6, <1>7, <1>9 DEF RankAt, LeftAt
  <2>2. SlotsRight(s, k + 1, cells, next)
    BY <1>4 DEF SlotsRight
  <2>3. Known(r, s, p, k + 1) \subseteq reached
    BY <1>4, <1>9, <1>10, OwnAndSeen DEF Known
  <2>4. HoldsRight(r, s, p, k + 1, cells, next, left)
    BY <1>8, <1>9, <2>3 DEF HoldsRight, FreshOn, WorkedPhases
  <2>5. CellsBounded(s, p, k + 1, cells)
    BY <1>6, <1>7, <1>9 DEF RankAt, CellsBounded, BoundAt, WorkedPhases
  <2>. QED  BY <1>9, <2>1, <2>2, <2>4, <2>5 DEF RankAt
<1>. QED  BY <1>5, <1>11, OneMoveKeeps

-----------------------------------------------------------------------------
(* The steps that bring a rank something, if it is what the rank expects.  *)

\* A row that rank q keeps at unit u, after k passes.  Ranks without rows keep
\* theirs on the boundary or read none.
RowRight(row, q, u, k) ==
  Bounded(row, k) /\ (u \in Units /\ (Own(q) # {} \/ k = 0) => Fresh(row, k))

\* What a rank has once some units are stored in its current slot.
LEMMA RestoredIs ==
  ASSUME CellTypes, NEW r \in Ranks, NEW values, NEW cells,
         cells = [cell[r] EXCEPT ![current[r]] = Restored(r, values)]
  PROVE  /\ \A u \in Stored : cells[current[r]][u] = IF u \in DOMAIN values THEN values[u]
                                                     ELSE cell[r][current[r]][u]
         /\ \A o \in Slots : o # current[r] => cells[o] = cell[r][o]
<1>1. current[r] \in Slots
  BY DEF CellTypes, Slots
<1>2. cells[current[r]] = Restored(r, values) /\ \A o \in Slots : o # current[r] => cells[o] = cell[r][o]
  <2>1. PICK t, row : t = current[r] /\ row = Restored(r, values)
    OBVIOUS
  <2>2. cell[r] = [o \in Slots |-> cell[r][o]] /\ t \in Slots
    BY <1>1, <2>1 DEF CellTypes
  <2>3. cells = [cell[r] EXCEPT ![t] = row]
    BY <2>1
  <2>4. cells[t] = row /\ \A o \in Slots : o # t => cells[o] = cell[r][o]
    BY <2>2, <2>3
  <2>. QED  BY <2>1, <2>4
<1>. QED  BY <1>2 DEF Restored, Mine

\* Every unit is stored, and nothing else in the dense problem.
LEMMA UnitsStored == Units \subseteq Stored /\ (~ Grid => Units = Stored)
BY SweepAssumption DEF Units, Stored

\* A rank that knows a row during an exchange owns one, or nothing was written yet.
LEMMA KnownHasRows ==
  ASSUME Grid, NEW r \in Ranks, NEW s, NEW p \in HaloPhases, NEW k, NEW u \in Known(r, s, p, k)
  PROVE  u \in Units /\ (Own(r) # {} \/ k = 0)
<1>1. Own(r) = {} => Seen(r) = {}
  BY DEF Seen
<1>2. p # "copy" /\ p # "reduce"
  BY DEF HaloPhases
<1>. QED  BY <1>1, <1>2, OwnAndSeen DEF Known

\* A fresh row stored at its place is known from then on.
LEMMA HaloTakenRanks ==
  ASSUME RanksRight, Control, CellTypes, Grid, NEW r \in Ranks, NEW src, NEW tag, NEW into, NEW p,
         TakeHalo(r, src, tag, into, p), phase[r] \in HaloPhases, p \in HaloPhases,
         src # PROC_NULL => RowRight(Message(r, src, tag), r, into, pass[r]),
         \A u \in Known(r, stage[r], p, pass[r]) :
           u \in Known(r, stage[r], phase[r], pass[r]) \/ (src # PROC_NULL /\ u = into)
  PROVE  RanksRight'
<1>1. HaloPhases \cap (TakenPhases \cup {"turn", "work"}) = {}
  BY DEF HaloPhases, TakenPhases, HandedPhases
<1>2. FitsKind(stage[r], p, pass[r])
  <2>1. P # 1
    BY FitsHere DEF FitsKind, SharedPhases
  <2>2. p \notin {"turn", "handed_on", "bcast", "regather", "reranges", "rerows"}
    BY DEF HaloPhases
  <2>. QED  BY <2>1, <2>2, FitsHere DEF FitsKind
<1>3. GotoPhase(r, p) /\ run' = run /\ current' = current /\ pass' = pass /\ todo' = todo
  BY DEF TakeHalo
<1>4. stage[r] \notin {"barrier_out", "finished"}
  BY ExchangePhases
<1>5. CASE src = PROC_NULL
  <2>1. Untouched
    BY <1>3, <1>5 DEF TakeHalo, Untouched
  <2>2. Known(r, stage[r], p, pass[r]) \subseteq Known(r, stage[r], phase[r], pass[r])
    BY <1>5
  <2>. QED  BY <1>1, <1>2, <1>3, <1>4, <2>1, <2>2, MovesOn DEF GotoPhase, Control
<1>6. CASE src # PROC_NULL
  <2>1. PICK k, s, slot, left, row, new :
          /\ k = pass[r] /\ s = stage[r] /\ slot = current[r] /\ left = todo[r]
          /\ row = Message(r, src, tag)
          /\ new = [cell[r] EXCEPT ![current[r]] = Restored(r, [u \in {into} |-> row])]
    OBVIOUS
  <2>2. OneMoves(r, s, p, k, new, slot, left)
    <3>1. StoreUnits(r, [u \in {into} |-> row])
      BY <1>6, <2>1 DEF TakeHalo
    <3>. QED  BY <1>3, <2>1, <3>1, StoresUnitsOnly DEF GotoPhase, Control
  <2>3. RowRight(row, r, into, k)
    BY <1>6, <2>1
  <2>4. RankAt(r, s, phase[r], k, cell[r], slot, left)
    BY <2>1 DEF RanksRight, RankHere
  <2>5. /\ \A u \in Stored : new[slot][u] = IF u = into THEN row ELSE cell[r][slot][u]
        /\ \A o \in Slots : o # slot => new[o] = cell[r][o]
        /\ slot \in Slots
    <3>1. slot \in Slots
      BY <2>1 DEF CellTypes, Slots
    <3>. QED  BY <2>1, <3>1, RestoredIs
  <2>6. HoldsRight(r, s, p, k, new, slot, left)
    <3>1. FreshOn(cell[r][slot], Known(r, s, phase[r], k), k)
      BY <1>1, <2>4 DEF RankAt, HoldsRight, WorkedPhases
    <3>2. ASSUME NEW u \in Known(r, s, p, k) PROVE Fresh(new[slot][u], k)
      <4>1. u \in Units /\ (Own(r) # {} \/ k = 0) /\ u \in Stored
        BY <3>2, KnownHasRows, UnitsStored
      <4>2. CASE u = into
        BY <2>3, <2>5, <4>1, <4>2 DEF RowRight
      <4>3. CASE u # into
        BY <2>1, <2>5, <3>1, <4>1, <4>3 DEF FreshOn
      <4>. QED  BY <4>2, <4>3
    <3>. QED  BY <1>1, <3>2 DEF HoldsRight, FreshOn, WorkedPhases
  <2>7. CellsBounded(s, p, k, new)
    <3>1. \A t \in Slots, u \in Stored : Bounded(cell[r][t][u], k)
      BY <1>1, <2>4 DEF RankAt, CellsBounded, BoundAt, WorkedPhases
    <3>2. \A t \in Slots, u \in Stored : Bounded(new[t][u], k)
      BY <2>3, <2>5, <3>1 DEF RowRight
    <3>. QED  BY <1>1, <3>2 DEF CellsBounded, BoundAt, WorkedPhases
  <2>8. LeftAt(r, p, k, left)
    BY <1>1, <2>4 DEF RankAt, LeftAt
  <2>9. SlotsRight(s, k, new, slot)
    BY <1>4, <2>1, <2>4 DEF RankAt, SlotsRight
  <2>10. RankAt(r, s, p, k, new, slot, left)
    BY <1>2, <2>1, <2>6, <2>7, <2>8, <2>9 DEF RankAt
  <2>. QED  BY <2>2, <2>10, OneMoveKeeps
<1>. QED  BY <1>5, <1>6

\* So the row from below completes the first half of an exchange,
LEMMA TakeLowerHaloRanks ==
  ASSUME RanksRight, Control, CellTypes, NEW r \in Ranks, TakeLowerHalo(r),
         r + 1 < P => RowRight(Message(r, r + 1, "TAG_HALO_UP"), r, LowerHalo(r), pass[r])
  PROVE  RanksRight'
<1>1. Grid /\ phase[r] = "halo_up" /\ {"halo_up", "halo_up_sent"} \subseteq HaloPhases
  BY HaloIsOnGrid DEF TakeLowerHalo, HaloPhases
<1>2. PICK src : src = BelowOf(r)
  OBVIOUS
<1>3. /\ src = IF r + 1 < P THEN r + 1 ELSE PROC_NULL
      /\ r \in Ranks /\ P \in Nat \ {0}
  BY <1>2, RanksAssumption DEF BelowOf
<1>4. TakeHalo(r, src, "TAG_HALO_UP", LowerHalo(r), "halo_up_sent")
  BY <1>2 DEF TakeLowerHalo
<1>5. src # PROC_NULL => RowRight(Message(r, src, "TAG_HALO_UP"), r, LowerHalo(r), pass[r])
  BY <1>3
<1>6. ASSUME NEW u \in Known(r, stage[r], "halo_up_sent", pass[r])
      PROVE  u \in Known(r, stage[r], phase[r], pass[r]) \/ (src # PROC_NULL /\ u = LowerHalo(r))
  <2>1. CASE pass[r] = 0
    BY <1>6, <2>1 DEF Known
  <2>2. CASE pass[r] # 0
    <3>1. u \in Own(r) \/ (u = LowerHalo(r) /\ u \in Seen(r))
      BY <1>6, <2>2 DEF Known
    <3>2. Known(r, stage[r], phase[r], pass[r]) = Own(r)
      BY <1>1, <2>2 DEF Known
    <3>3. CASE src = PROC_NULL
      <4>1. r = P - 1
        BY <1>3, <3>3 DEF PROC_NULL, Ranks
      <4>2. LowerHalo(r) = N + 1 /\ N + 1 \notin Units
        BY <4>1, EdgeHalos, SweepAssumption DEF Units
      <4>. QED  BY <3>1, <3>2, <4>2, OwnAndSeen
    <3>. QED  BY <3>1, <3>2, <3>3
  <2>. QED  BY <2>1, <2>2
<1>. QED  BY <1>1, <1>4, <1>5, <1>6, HaloTakenRanks

\* and the row from above the second.
LEMMA TakeUpperHaloRanks ==
  ASSUME RanksRight, Control, CellTypes, NEW r \in Ranks, TakeUpperHalo(r),
         r > 0 => RowRight(Message(r, r - 1, "TAG_HALO_DOWN"), r, UpperHalo(r), pass[r])
  PROVE  RanksRight'
<1>1. Grid /\ phase[r] = "halo_down" /\ {"halo_down", "halo_down_sent"} \subseteq HaloPhases
  BY HaloIsOnGrid DEF TakeUpperHalo, HaloPhases
<1>2. PICK src : src = AboveOf(r)
  OBVIOUS
<1>3. /\ src = IF r > 0 THEN r - 1 ELSE PROC_NULL
      /\ r \in Ranks /\ P \in Nat \ {0}
  BY <1>2, RanksAssumption DEF AboveOf
<1>4. TakeHalo(r, src, "TAG_HALO_DOWN", UpperHalo(r), "halo_down_sent")
  BY <1>2 DEF TakeUpperHalo
<1>5. src # PROC_NULL => RowRight(Message(r, src, "TAG_HALO_DOWN"), r, UpperHalo(r), pass[r])
  BY <1>3
<1>6. ASSUME NEW u \in Known(r, stage[r], "halo_down_sent", pass[r])
      PROVE  u \in Known(r, stage[r], phase[r], pass[r]) \/ (src # PROC_NULL /\ u = UpperHalo(r))
  <2>1. CASE pass[r] = 0
    BY <1>6, <2>1 DEF Known
  <2>2. CASE pass[r] # 0
    <3>1. u \in Own(r) \cup Seen(r)
      BY <1>6, <2>2 DEF Known
    <3>2. Known(r, stage[r], phase[r], pass[r]) = Own(r) \cup ({LowerHalo(r)} \cap Seen(r))
      BY <1>1, <2>2 DEF Known
    <3>3. u \in Own(r) \/ u = LowerHalo(r) \/ u = UpperHalo(r)
      <4>1. u \in Seen(r) => u \in UpperHalo(r)..LowerHalo(r)
        BY <1>1 DEF Seen
      <4>2. Own(r) = FirstOwned(r)..LastOwned(r) /\ UpperHalo(r) \in 0..N /\ LastOwned(r) \in 0..N
            /\ FirstOwned(r) = UpperHalo(r) + 1 /\ LowerHalo(r) = LastOwned(r) + 1 /\ N \in Nat
        BY RowsOf, SweepAssumption DEF Own
      <4>. QED  BY <3>1, <4>1, <4>2
    <3>4. CASE src = PROC_NULL
      <4>1. r = 0
        BY <1>3, <3>4 DEF PROC_NULL, Ranks
      <4>2. UpperHalo(r) = 0 /\ 0 \notin Units
        BY <4>1, EdgeHalos DEF Units
      <4>. QED  BY <3>1, <3>2, <3>3, <4>2, OwnAndSeen
    <3>. QED  BY <3>1, <3>2, <3>3, <3>4
  <2>. QED  BY <2>1, <2>2
<1>. QED  BY <1>1, <1>4, <1>5, <1>6, HaloTakenRanks

\* A turn: on a grid one row comes, on the dense problem a whole copy.
LEMMA TakeTurnRanks ==
  ASSUME RanksRight, Control, CellTypes, NEW r \in Ranks, TakeTurn(r), NEW src, NEW message,
         src = Predecessor(r), message = Message(r, src, "TAG_ORDERED"),
         src # PROC_NULL /\ Grid => RowRight(message, r, TurnRowIn(r), pass[r] + 1),
         src # PROC_NULL /\ ~ Grid =>
           IsSlot(message) /\ WorkRight(r, pass[r], message, ItemsOf(r, Kind(r)))
  PROVE  RanksRight'
<1>1. stage[r] = "pass" /\ phase[r] = "turn" /\ pass[r] \in Nat
  BY WorkIsInPass DEF TakeTurn, Control, ControlTypes
<1>2. PICK k, slot, left, kind :
        k = pass[r] /\ slot = current[r] /\ left = todo[r] /\ kind = Kind(r)
  OBVIOUS
<1>3. /\ k \in Nat /\ kind = PassAt(k + 1) /\ slot \in {"iterate", "work"} /\ slot \in Slots
      /\ run' = run /\ pass' = pass /\ current' = current /\ todo' = todo /\ GotoPhase(r, "work")
      /\ run \in Runs
  BY <1>1, <1>2 DEF CellTypes, Slots, TakeTurn, Kind, Control, ControlTypes
<1>4. RankAt(r, "pass", "turn", k, cell[r], slot, left)
  BY <1>1, <1>2 DEF RanksRight, RankHere
<1>5. "turn" \notin WorkedPhases
  BY DEF WorkedPhases, TakenPhases, HandedPhases
<1>6. /\ left = ItemsOf(r, PassAt(k + 1)) /\ kind \in Ascending \cup Descending
      /\ FreshOn(cell[r][slot], Seen(r), k) /\ (k = 0 => slot = "iterate") /\ P # 1
      /\ CellsBounded("pass", "turn", k, cell[r])
  <2>1. FreshOn(cell[r][slot], Known(r, "pass", "turn", k), k)
    BY <1>4, <1>5 DEF RankAt, HoldsRight
  <2>2. Seen(r) \subseteq Known(r, "pass", "turn", k)
    BY OwnAndSeen DEF Known
  <2>3. FreshOn(cell[r][slot], Seen(r), k)
    BY <2>1, <2>2 DEF FreshOn
  <2>. QED  BY <1>3, <1>4, <2>3 DEF RankAt, LeftAt, SlotsRight, FitsKind, SharedPhases
<1>7. FitsKind("pass", "work", k) /\ kind # "block_jacobi" /\ kind # "jacobi"
  BY <1>6 DEF FitsKind, SharedPhases, HaloPhases, Ascending, Descending
<1>8. ASSUME NEW new, OneMoves(r, "pass", "work", k, new, slot, left),
             WorkRight(r, k, new[slot], left),
             \A t \in Slots, u \in Stored : new[t][u] = cell[r][t][u] \/ Bounded(new[t][u], k + 1)
      PROVE  RanksRight'
  <2>1. RankAt(r, "pass", "work", k, new, slot, left)
    BY <1>3, <1>6, <1>7, <1>8, WorkBegins
  <2>. QED  BY <1>8, <2>1, OneMoveKeeps
<1>9. CASE src = PROC_NULL
  <2>1. OneMoves(r, "pass", "work", k, cell[r], slot, left)
    <3>1. Goto(r, "pass", "work") /\ cell' = cell
      BY <1>1, <1>3, <1>9 DEF TakeTurn, GotoPhase
    <3>. QED  BY <1>2, <1>3, <3>1, GoesOnly DEF Control
  <2>2. \A u : ~ UnitDone(r, kind, left, u)
    <3>1. ASSUME NEW u, UnitDone(r, kind, left, u) PROVE FALSE
      <4>1. (kind \in Ascending /\ r > 0) \/ (kind \in Descending /\ r + 1 < P)
        BY <1>3, <1>6, <3>1, NothingDone
      <4>2. kind \in Ascending => kind # "backward"
        BY DEF Ascending
      <4>3. kind \in Descending => kind = "backward"
        BY DEF Descending
      <4>4. src = IF kind # "backward" THEN AboveOf(r) ELSE BelowOf(r)
        BY <1>2 DEF Predecessor, Forward
      <4>5. src # PROC_NULL
        <5>1. r - 1 # PROC_NULL \/ r = 0
          BY DEF PROC_NULL, Ranks
        <5>2. r + 1 # PROC_NULL
          BY DEF PROC_NULL, Ranks
        <5>. QED  BY <4>1, <4>2, <4>3, <4>4, <5>1, <5>2 DEF AboveOf, BelowOf
      <4>. QED  BY <1>9, <4>5
    <3>. QED  BY <3>1
  <2>3. WorkRight(r, k, cell[r][slot], left)
    BY <1>3, <1>6, <2>2 DEF WorkRight, FreshOn
  <2>. QED  BY <1>8, <2>1, <2>3
<1>10. CASE src # PROC_NULL
  <2>1. PICK values, new :
          /\ values = IF Grid THEN [u \in {TurnRowIn(r)} |-> message] ELSE message
          /\ new = [cell[r] EXCEPT ![current[r]] = Restored(r, values)]
    OBVIOUS
  <2>2. OneMoves(r, "pass", "work", k, new, slot, left)
    <3>1. StoreUnits(r, values) /\ Goto(r, "pass", "work")
      BY <1>1, <1>10, <2>1 DEF TakeTurn, GotoPhase
    <3>. QED  BY <1>2, <1>3, <2>1, <3>1, StoresUnitsOnly DEF Control
  <2>3. /\ \A u \in Stored : new[slot][u] = IF u \in DOMAIN values THEN values[u] ELSE cell[r][slot][u]
        /\ \A o \in Slots : o # slot => new[o] = cell[r][o]
    BY <1>2, <2>1, RestoredIs
  <2>4. CASE Grid
    <3>1. PICK into : into = TurnRowIn(r)
      OBVIOUS
    <3>2. DOMAIN values = {into} /\ values[into] = message
      BY <2>1, <2>4, <3>1
    <3>3. RowRight(message, r, into, k + 1)
      BY <1>2, <1>10, <2>4, <3>1
    <3>4. ASSUME NEW u \in Seen(r), UnitDone(r, kind, left, u) PROVE u = into
      <4>1. /\ ~ FlatBlocks(kind) /\ Own(r) # {} /\ u \in UpperHalo(r)..LowerHalo(r) /\ u \in Units
            /\ ItemCount(kind) = N /\ ItemsOf(r, kind) = Own(r) /\ ShareOf(r, kind) = PointRange(r)
        BY <2>4, <3>4 DEF Seen, FlatBlocks, ItemCount, ItemsOf, Own, ShareOf, PointRange
      <4>2. ItemDone(r, kind, left, u)
        BY <3>4, <4>1 DEF UnitDone, UnitsIn
      <4>3. \/ kind \in Ascending /\ u <= PointRange(r).begin
            \/ kind \in Descending /\ u > PointRange(r).end
        BY <1>3, <1>6, <4>1, <4>2 DEF ItemDone
      <4>4. /\ UpperHalo(r) = PointRange(r).begin /\ LowerHalo(r) = PointRange(r).end + 1
            /\ UpperHalo(r) \in 0..N /\ PointRange(r).end \in 0..N /\ N \in Nat
        BY RowsOf, SweepAssumption DEF UpperHalo, LowerHalo, Rows, LastOwned
      <4>5. into = IF kind # "backward" THEN UpperHalo(r) ELSE LowerHalo(r)
        BY <1>2, <3>1 DEF TurnRowIn, Forward
      <4>6. CASE kind \in Ascending /\ u <= PointRange(r).begin
        <5>1. kind # "backward"
          BY <4>6 DEF Ascending
        <5>. QED  BY <4>1, <4>4, <4>5, <4>6, <5>1
      <4>7. CASE kind \in Descending /\ u > PointRange(r).end
        <5>1. kind = "backward"
          BY <4>7 DEF Descending
        <5>. QED  BY <4>1, <4>4, <4>5, <4>7, <5>1
      <4>. QED  BY <4>3, <4>6, <4>7
    <3>5. ASSUME NEW u \in Seen(r), u = into PROVE UnitDone(r, kind, left, u)
      <4>1. /\ ~ FlatBlocks(kind) /\ Own(r) # {} /\ u \in Units
            /\ ItemCount(kind) = N /\ ItemsOf(r, kind) = Own(r) /\ ShareOf(r, kind) = PointRange(r)
        BY <2>4, <3>5 DEF Seen, FlatBlocks, ItemCount, ItemsOf, Own, ShareOf, PointRange
      <4>2. /\ UpperHalo(r) = PointRange(r).begin /\ LowerHalo(r) = PointRange(r).end + 1
            /\ UpperHalo(r) \in 0..N /\ PointRange(r).end \in 0..N /\ N \in Nat
        BY RowsOf, SweepAssumption DEF UpperHalo, LowerHalo, Rows, LastOwned
      <4>3. into = IF kind # "backward" THEN UpperHalo(r) ELSE LowerHalo(r)
        BY <1>2, <3>1 DEF TurnRowIn, Forward
      <4>4. ItemDone(r, kind, left, u)
        <5>1. CASE kind \in Ascending
          <6>1. kind # "backward"
            BY <5>1 DEF Ascending
          <6>. QED  BY <3>5, <4>1, <4>2, <4>3, <5>1, <6>1 DEF ItemDone
        <5>2. CASE kind \in Descending
          <6>1. kind = "backward"
            BY <5>2 DEF Descending
          <6>. QED  BY <3>5, <4>1, <4>2, <4>3, <5>2, <6>1 DEF ItemDone
        <5>. QED  BY <1>6, <5>1, <5>2
      <4>. QED  BY <4>1, <4>4 DEF UnitDone, UnitsIn, Units
    <3>6. WorkRight(r, k, new[slot], left)
      <4>1. ASSUME NEW u \in Seen(r)
            PROVE  Fresh(new[slot][u], IF UnitDone(r, kind, left, u) THEN k + 1 ELSE k)
        <5>1. u \in Units /\ u \in Stored /\ Own(r) # {}
          BY <2>4, <4>1, UnitsStored DEF Seen
        <5>2. CASE u = into
          <6>1. Fresh(new[slot][u], k + 1)
            BY <2>3, <3>2, <3>3, <5>1, <5>2 DEF RowRight
          <6>. QED  BY <3>5, <4>1, <5>2, <6>1
        <5>3. CASE u # into
          <6>1. Fresh(new[slot][u], k)
            BY <1>6, <2>3, <3>2, <4>1, <5>1, <5>3 DEF FreshOn
          <6>. QED  BY <3>4, <4>1, <5>3, <6>1
        <5>. QED  BY <5>2, <5>3
      <4>. QED  BY <1>3, <1>7, <4>1 DEF WorkRight
    <3>7. \A t \in Slots, u \in Stored : new[t][u] = cell[r][t][u] \/ Bounded(new[t][u], k + 1)
      BY <1>3, <2>3, <3>2, <3>3 DEF RowRight
    <3>. QED  BY <1>8, <2>2, <3>6, <3>7
  <2>5. CASE ~ Grid
    <3>1. values = message /\ IsSlot(message) /\ WorkRight(r, k, message, left) /\ Units = Stored
      BY <1>2, <1>3, <1>6, <1>10, <2>1, <2>5, UnitsStored
    <3>2. \A u \in Stored : new[slot][u] = message[u]
      BY <2>3, <3>1 DEF IsSlot
    <3>3. Seen(r) = Units
      BY <2>5 DEF Seen
    <3>4. WorkRight(r, k, new[slot], left)
      BY <3>1, <3>2, <3>3 DEF WorkRight
    <3>5. \A u \in Stored : Bounded(new[slot][u], k + 1)
      <4>1. ASSUME NEW u \in Stored PROVE Bounded(new[slot][u], k + 1)
        <5>1. Fresh(new[slot][u], k + 1) \/ Fresh(new[slot][u], k)
          BY <3>1, <3>3, <3>4 DEF WorkRight
        <5>2. k + 1 \in Nat
          BY <1>3
        <5>. QED  BY <1>3, <5>1, <5>2, FreshIsBounded
      <4>. QED  BY <4>1
    <3>6. \A t \in Slots, u \in Stored : new[t][u] = cell[r][t][u] \/ Bounded(new[t][u], k + 1)
      BY <2>3, <3>5
    <3>. QED  BY <1>8, <2>2, <3>4, <3>6
  <2>. QED  BY <2>4, <2>5
<1>. QED  BY <1>9, <1>10

\* What is gathered or broadcast makes the copy whole.
LEMMA CollectedRanks ==
  ASSUME RanksRight, Control, CellTypes, NEW r \in Ranks, NEW p, GotoPhase(r, p),
         run' = run, pass' = pass, current' = current, todo' = todo,
         NEW values, StoreUnits(r, values), NEW new, NEW has,
         \/ /\ phase[r] = "rows" /\ p \in {"body", "copy"} /\ new = pass[r] /\ has = Own(r)
         \/ /\ phase[r] \in {"rerows", "bcast"} /\ p = "end_pass" /\ new = pass[r] + 1
            /\ has = Reached(r, phase[r], pass[r]),
         DOMAIN values \subseteq Units,
         \A u \in DOMAIN values : Fresh(values[u], new),
         \A u \in Units : u \in DOMAIN values \cup has
  PROVE  RanksRight'
<1>1. PICK k, s, slot, left, cells :
        /\ k = pass[r] /\ s = stage[r] /\ slot = current[r] /\ left = todo[r]
        /\ cells = [cell[r] EXCEPT ![current[r]] = Restored(r, values)]
  OBVIOUS
<1>2. k \in Nat /\ k + 1 \in Nat /\ new \in {k, k + 1} /\ slot \in {"iterate", "work"} /\ slot \in Slots
  BY <1>1 DEF Control, ControlTypes, CellTypes, Slots
<1>3. OneMoves(r, s, p, k, cells, slot, left)
  BY <1>1, StoresUnitsOnly DEF GotoPhase, Control
<1>4. RankAt(r, s, phase[r], k, cell[r], slot, left)
  BY <1>1 DEF RanksRight, RankHere
<1>5. /\ \A u \in Stored : cells[slot][u] = IF u \in DOMAIN values THEN values[u] ELSE cell[r][slot][u]
      /\ \A o \in Slots : o # slot => cells[o] = cell[r][o]
  BY <1>1, RestoredIs
<1>6. LeftAt(r, p, k, left)
  BY <1>4 DEF RankAt, LeftAt
<1>7. CASE phase[r] = "rows"
  <2>1. p \in {"body", "copy"} /\ new = k /\ has = Own(r)
    BY <1>1, <1>7
  <2>2. {"rows", "body", "copy"} \cap WorkedPhases = {}
    BY DEF WorkedPhases, TakenPhases, HandedPhases
  <2>3. FitsKind(s, p, k)
    BY <1>4, <2>1 DEF RankAt, FitsKind, SharedPhases, HaloPhases
  <2>4. s \notin {"barrier_out", "finished"}
    BY <1>1, <1>7, HereLegal DEF LegalAt, PhasesOf
  <2>5. SlotsRight(s, k, cells, slot)
    BY <1>4, <2>4 DEF RankAt, SlotsRight
  <2>6. FreshOn(cell[r][slot], has, k)
    <3>1. FreshOn(cell[r][slot], Known(r, s, "rows", k), k)
      BY <1>4, <1>7, <2>2 DEF RankAt, HoldsRight
    <3>2. has \subseteq Known(r, s, "rows", k)
      BY <2>1, OwnAndSeen DEF Known
    <3>. QED  BY <3>1, <3>2 DEF FreshOn
  <2>7. FreshOn(cells[slot], Units, k)
    BY <1>5, <2>1, <2>6, UnitsStored DEF FreshOn
  <2>8. Known(r, s, p, k) \subseteq Units
    BY <2>1, OwnAndSeen DEF Known
  <2>9. HoldsRight(r, s, p, k, cells, slot, left)
    BY <2>1, <2>2, <2>7, <2>8 DEF HoldsRight, FreshOn
  <2>10. CellsBounded(s, p, k, cells)
    <3>1. \A t \in Slots, u \in Stored : Bounded(cell[r][t][u], k)
      BY <1>4, <1>7, <2>2 DEF RankAt, CellsBounded, BoundAt
    <3>2. \A u \in DOMAIN values : Bounded(values[u], k)
      BY <1>2, <2>1, FreshIsBounded
    <3>3. \A t \in Slots, u \in Stored : Bounded(cells[t][u], k)
      BY <1>2, <1>5, <3>1, <3>2
    <3>. QED  BY <2>1, <2>2, <3>3 DEF CellsBounded, BoundAt
  <2>11. RankAt(r, s, p, k, cells, slot, left)
    BY <1>6, <2>3, <2>5, <2>9, <2>10 DEF RankAt
  <2>. QED  BY <1>3, <2>11, OneMoveKeeps
<1>8. CASE phase[r] \in {"rerows", "bcast"}
  <2>1. p = "end_pass" /\ new = k + 1 /\ has = Reached(r, phase[r], k)
    BY <1>1, <1>8
  <2>2. s = "pass"
    BY <1>1, <1>8, HereLegal DEF LegalAt, PhasesOf, Stages, HaloPhases
  <2>3. {"rerows", "bcast", "end_pass"} \subseteq WorkedPhases \ {"work"}
    BY DEF WorkedPhases, TakenPhases, HandedPhases
  <2>4. ~ Grid /\ PassAt(k + 1) \in Ascending \cup Descending \cup {"block_jacobi"}
    <3>1. phase[r] = "bcast" => ~ Grid
      BY WorkIsInPass
    <3>2. phase[r] = "rerows" => ~ Grid /\ PassAt(k + 1) = "block_jacobi"
      BY <1>4 DEF RankAt, FitsKind
    <3>3. phase[r] = "bcast" => PassAt(k + 1) \in Ascending \cup Descending
      BY <1>4 DEF RankAt, FitsKind
    <3>. QED  BY <1>8, <3>1, <3>2, <3>3
  <2>5. TargetAt(k, slot) = slot
    BY <2>4 DEF TargetAt, Ascending, Descending
  <2>6. FitsKind(s, p, k)
    BY <1>4, <2>1, <2>2 DEF RankAt, FitsKind, SharedPhases, HaloPhases
  <2>7. SlotsRight(s, k, cells, slot)
    BY <1>4, <2>2 DEF RankAt, SlotsRight
  <2>8. FreshOn(cell[r][slot], has, k + 1)
    BY <1>4, <1>8, <2>1, <2>2, <2>3, <2>5 DEF RankAt, HoldsRight
  <2>9. FreshOn(cells[slot], Units, k + 1)
    BY <1>5, <2>1, <2>8, UnitsStored DEF FreshOn
  <2>10. Reached(r, p, k) = Units
    BY <2>1, <2>4 DEF Reached, Whole
  <2>11. HoldsRight(r, s, p, k, cells, slot, left)
    BY <2>1, <2>2, <2>3, <2>5, <2>9, <2>10 DEF HoldsRight
  <2>12. CellsBounded(s, p, k, cells)
    <3>1. \A t \in Slots, u \in Stored : Bounded(cell[r][t][u], k + 1)
      BY <1>4, <1>8, <2>2, <2>3 DEF RankAt, CellsBounded, BoundAt
    <3>2. \A u \in DOMAIN values : Bounded(values[u], k + 1)
      BY <1>2, <2>1, FreshIsBounded
    <3>3. \A t \in Slots, u \in Stored : Bounded(cells[t][u], k + 1)
      BY <1>2, <1>5, <3>1, <3>2
    <3>. QED  BY <2>1, <2>2, <2>3, <3>3 DEF CellsBounded, BoundAt
  <2>13. RankAt(r, s, p, k, cells, slot, left)
    BY <1>6, <2>6, <2>7, <2>11, <2>12 DEF RankAt
  <2>. QED  BY <1>3, <2>13, OneMoveKeeps
<1>. QED  BY <1>7, <1>8

-----------------------------------------------------------------------------
(***************************************************************************)
(* On a grid: what is under way.  A row a rank has sent is what the rank   *)
(* that will take it keeps at its halo, after the passes it has then made. *)
(***************************************************************************)

RowsRight(list, q, u, k) == \A i \in 1..Len(list) : RowRight(list[i], q, u, k)

\* Between ranks r and r + 1, which have made k and l passes.
TrafficAt(r, x, k, l) ==
  /\ RowsRight(x.up, r, LowerHalo(r), l)
  /\ RowsRight(x.down, r + 1, UpperHalo(r + 1), l)
  /\ RowsRight(x.forward, r + 1, UpperHalo(r + 1), l + 1)
  /\ RowsRight(x.backward, r, LowerHalo(r), k + 1)

TrafficRight == \A r \in Uppers : TrafficAt(r, Traffic(r), pass[r], pass[r + 1])

\* What a row must be does not change while the solve is the same.
LEMMA RowsFixed ==
  ASSUME run' = run
  PROVE  \A list, q, u, k : RowsRight(list, q, u, k)' <=> RowsRight(list, q, u, k)
<1>1. ASSUME NEW row, NEW q, NEW u, NEW k PROVE RowRight(row, q, u, k)' <=> RowRight(row, q, u, k)
  BY FreshFixed DEF RowRight
<1>. QED  BY <1>1 DEF RowsRight

\* Nor what the rows between two ranks must be.
LEMMA TrafficFixed ==
  ASSUME run' = run, NEW r, NEW x, NEW k, NEW l
  PROVE  TrafficAt(r, x, k, l)' <=> TrafficAt(r, x, k, l)
BY RowsFixed DEF TrafficAt

\* Where a step takes them.
LEMMA NextTrafficRight ==
  ASSUME run' = run,
         \A r \in Uppers : TrafficAt(r, NextTraffic(r), pass'[r], pass'[r + 1])
  PROVE  TrafficRight'
<1>1. ASSUME NEW r \in Uppers PROVE TrafficAt(r, Traffic(r), pass[r], pass[r + 1])'
  <2>1. PICK x, k, l : x = NextTraffic(r) /\ k = pass'[r] /\ l = pass'[r + 1]
    OBVIOUS
  <2>2. Traffic(r)' = x
    BY <2>1, NextViewIs
  <2>3. TrafficAt(r, x, k, l)'
    BY <2>1, TrafficFixed
  <2>. QED  BY <2>1, <2>2, <2>3
<1>. QED  BY <1>1 DEF TrafficRight, Uppers

\* A row more, and a row less.
LEMMA RowsSent ==
  ASSUME NEW s, IsSequence(s), NEW q, NEW u, NEW k, RowsRight(s, q, u, k), NEW x,
         RowRight(x, q, u, k)
  PROVE  RowsRight(Append(s, x), q, u, k)
<1>1. /\ Len(s) \in Nat /\ Len(Append(s, x)) = Len(s) + 1 /\ Append(s, x)[Len(s) + 1] = x
      /\ \A i \in 1..Len(s) : Append(s, x)[i] = s[i]
  BY AppendedList
<1>2. ASSUME NEW i \in 1..(Len(s) + 1) PROVE RowRight(Append(s, x)[i], q, u, k)
  <2>1. CASE i = Len(s) + 1
    BY <1>1, <2>1
  <2>2. CASE i # Len(s) + 1
    BY <1>1, <2>2 DEF RowsRight
  <2>. QED  BY <2>1, <2>2
<1>. QED  BY <1>1, <1>2 DEF RowsRight

\* Taking the first row leaves the others right.
LEMMA RowsTaken ==
  ASSUME NEW s, IsSequence(s), s # <<>>, NEW q, NEW u, NEW k, RowsRight(s, q, u, k)
  PROVE  RowsRight(Tail(s), q, u, k) /\ RowRight(s[1], q, u, k)
<1>1. /\ Len(s) \in Nat \ {0} /\ Len(Tail(s)) = Len(s) - 1
      /\ \A i \in 1..Len(Tail(s)) : Tail(s)[i] = s[i + 1]
  BY RestOfList
<1>. QED  BY <1>1 DEF RowsRight

\* Who is still to take what is under way.
LEMMA Pending ==
  ASSUME NEW q, Neighbours(q)
  PROVE  /\ Traffic(q).up # <<>> \/ Traffic(q).down # <<>> => phase[q + 1] \in HaloPhases
         /\ Traffic(q).forward # <<>> =>
              phase[q + 1] \in HaloPhases \cup {"body", "turn"}
         /\ Traffic(q).backward # <<>> => phase[q] \in HaloPhases \cup {"body", "turn"}
<1>. DEFINE v == View(q)
            w == View(q + 1)
            x == Traffic(q)
<1>1. /\ w.halo # 4 => phase[q + 1] \in HaloPhases
      /\ w.turn = 0 => phase[q + 1] \in HaloPhases \cup {"body", "turn"}
      /\ v.turn = 0 => phase[q] \in HaloPhases \cup {"body", "turn"}
  BY DEF View, HaloStep, TurnStep, HaloPhases
<1>. HIDE DEF v, w, x
<1>2. CASE rep[q] = rep[q + 1]
  <2>1. InStep(v, w, x)
    BY <1>2 DEF Neighbours, v, w, x
  <2>2. /\ x.up # <<>> \/ x.down # <<>> => w.halo # 4
        /\ x.forward # <<>> => w.turn = 0
        /\ x.backward # <<>> => v.turn = 0
    BY <2>1 DEF InStep, Halos, Holds, Turns
  <2>. QED  BY <1>1, <2>2 DEF x
<1>3. CASE rep[q] # rep[q + 1]
  <2>1. Halos(x, FALSE, FALSE) /\ Turns(NoExchange, 2, 2, x)
    BY <1>3 DEF Neighbours, x
  <2>. QED  BY <2>1 DEF Halos, Holds, Turns, x
<1>. QED  BY <1>2, <1>3

\* Nothing is asked of a wire without rows.
LEMMA NoRows ==
  ASSUME NEW list, list = <<>>, NEW q, NEW u, NEW k
  PROVE  RowsRight(list, q, u, k)
BY DEF RowsRight

\* A step that sends and takes nothing.
LEMMA TrafficStays ==
  ASSUME TrafficRight, HaloControl, NEW m \in Ranks, run' = run, wire' = wire,
         \A q \in Ranks : pass'[q] = pass[q] \/
            (q = m /\ phase[m] \notin HaloPhases \cup {"body", "turn"})
  PROVE  TrafficRight'
<1>1. ASSUME NEW r \in Uppers PROVE TrafficAt(r, NextTraffic(r), pass'[r], pass'[r + 1])
  <2>1. PICK x : x = Traffic(r)
    OBVIOUS
  <2>2. NextTraffic(r) = x /\ r \in Ranks /\ r + 1 \in Ranks
    BY <2>1, SameTraffic, UpperRanks
  <2>3. TrafficAt(r, x, pass[r], pass[r + 1]) /\ Neighbours(r)
    BY <2>1 DEF TrafficRight, HaloControl
  <2>4. pass'[r + 1] = pass[r + 1] \/ (x.up = <<>> /\ x.down = <<>> /\ x.forward = <<>>)
    BY <2>1, <2>2, <2>3, Pending
  <2>5. pass'[r] = pass[r] \/ x.backward = <<>>
    BY <2>1, <2>2, <2>3, Pending
  <2>. QED  BY <2>2, <2>3, <2>4, <2>5, NoRows DEF TrafficAt
<1>. QED  BY <1>1, NextTrafficRight

\* A step that sends or takes between two ranks.
LEMMA TrafficMoves ==
  ASSUME TrafficRight, run' = run, pass' = pass, NEW a,
         \A q \in Uppers : q # a => NextTraffic(q) = Traffic(q),
         a \in Uppers => TrafficAt(a, NextTraffic(a), pass[a], pass[a + 1])
  PROVE  TrafficRight'
BY NextTrafficRight DEF TrafficRight

-----------------------------------------------------------------------------
(* What the ranks of a grid send each other, and what they take. *)

GridData ==
  /\ Grid /\ Control /\ HaloControl /\ CellTypes /\ RingControl
  /\ RanksRight /\ TrafficRight

\* The exchange and the turn a rank is in are those of its pass.
LEMMA ExchangeIs ==
  ASSUME GridData, NEW r \in Ranks
  PROVE  /\ View(r).halo # 4 <=> phase[r] \in {"halo_up", "halo_up_sent", "halo_down"}
         /\ phase[r] \in HaloPhases => View(r).exchange = Exchange(stage[r], pass[r])
         /\ View(r).turn = 0 => View(r).exchange = Exchange("pass", pass[r])
<1>1. View(r).halo # 4 <=> phase[r] \in {"halo_up", "halo_up_sent", "halo_down"}
  BY DEF View, HaloStep
<1>2. phase[r] \in HaloPhases => View(r).exchange = Exchange(stage[r], pass[r])
  <2>1. phase[r] \in HaloPhases => stage[r] \in {"initial", "pass", "residual"}
    BY ExchangePhases DEF GridData
  <2>2. stage[r] = "initial" => pass[r] = 0
    BY DEF GridData, HaloControl, StageRight, RightAt
  <2>3. phase[r] \in HaloPhases => phase[r] # "exchange"
    BY DEF HaloPhases
  <2>. QED  BY <2>1, <2>2, <2>3 DEF View, LastExchange
<1>3. View(r).turn = 0 => View(r).exchange = Exchange("pass", pass[r])
  BY DEF View, TurnStep, LastExchange, HaloPhases
<1>. QED  BY <1>1, <1>2, <1>3

\* A row of a rank in an exchange.
LEMMA ExchangeRow ==
  ASSUME GridData, NEW r \in Ranks, phase[r] \in HaloPhases \cup {"exchange"},
         NEW u \in Stored, NEW q,
         u \in Units /\ Own(q) # {} => u \in Own(r)
  PROVE  RowRight(Mine(r)[u], q, u, pass[r])
<1>1. phase[r] \notin TakenPhases \cup {"turn", "work", "copy"}
  BY DEF HaloPhases, TakenPhases, HandedPhases
<1>2. RankAt(r, stage[r], phase[r], pass[r], cell[r], current[r], todo[r])
  BY DEF GridData, RanksRight, RankHere
<1>3. CellsBounded(stage[r], phase[r], pass[r], cell[r]) /\ current[r] \in Slots
  BY <1>2 DEF RankAt, GridData, CellTypes, Slots
<1>4. Bounded(Mine(r)[u], pass[r])
  BY <1>1, <1>3 DEF CellsBounded, BoundAt, WorkedPhases, Mine
<1>5. FreshOn(Mine(r), Known(r, stage[r], phase[r], pass[r]), pass[r])
  BY <1>1, <1>2 DEF RankAt, HoldsRight, WorkedPhases, Mine
<1>6. /\ Own(r) \subseteq Units /\ Own(r) \subseteq Known(r, stage[r], phase[r], pass[r])
      /\ pass[r] = 0 => Known(r, stage[r], phase[r], pass[r]) = Units
  BY OwnAndSeen DEF Known
<1>. QED  BY <1>4, <1>5, <1>6 DEF RowRight, FreshOn

\* What comes up to a rank that awaits it.
LEMMA UpComes ==
  ASSUME GridData, NEW r \in Uppers, phase[r] = "halo_up", Traffic(r).up # <<>>
  PROVE  RowRight(Traffic(r).up[1], r, LowerHalo(r), pass[r])
<1>1. r \in Ranks /\ r + 1 \in Ranks
  BY UpperRanks
<1>2. stage[r] \in Solving
  BY <1>1, ExchangePhases DEF GridData, HaloPhases, Solving
<1>3. PICK v, w, x : v = View(r) /\ w = View(r + 1) /\ x = Traffic(r)
  OBVIOUS
<1>4. InStep(v, w, x) /\ v.halo = 1
  BY <1>1, <1>2, <1>3, PairInStep DEF GridData, View, HaloStep
<1>5. v.exchange = w.exchange /\ w.halo # 4
  BY <1>3, <1>4 DEF InStep, Halos, Holds
<1>6. pass[r] = pass[r + 1]
  <2>1. phase[r] \in HaloPhases /\ phase[r + 1] \in HaloPhases
    BY <1>1, <1>3, <1>5, ExchangeIs DEF HaloPhases
  <2>2. Exchange(stage[r], pass[r]) = Exchange(stage[r + 1], pass[r + 1])
    BY <1>1, <1>3, <1>5, <2>1, ExchangeIs
  <2>. QED  BY <2>2 DEF Exchange
<1>7. RowsRight(Traffic(r).up, r, LowerHalo(r), pass[r + 1])
  BY DEF GridData, TrafficRight, TrafficAt
<1>8. IsSequence(Traffic(r).up)
  BY <1>1 DEF GridData, HaloControl, Wires, Traffic, Tags
<1>. QED  BY <1>6, <1>7, <1>8, RowsTaken

\* A rank that sends down has a neighbour below in the same exchange.
LEMMA DownGoes ==
  ASSUME GridData, NEW r \in Uppers, phase[r] = "halo_up_sent"
  PROVE  pass[r] = pass[r + 1]
<1>1. r \in Ranks /\ r + 1 \in Ranks
  BY UpperRanks
<1>2. stage[r] \in Solving
  BY <1>1, ExchangePhases DEF GridData, HaloPhases, Solving
<1>3. PICK v, w, x : v = View(r) /\ w = View(r + 1) /\ x = Traffic(r)
  OBVIOUS
<1>4. InStep(v, w, x) /\ v.halo = 2
  BY <1>1, <1>2, <1>3, PairInStep DEF GridData, View, HaloStep
<1>5. v.exchange = w.exchange /\ w.halo # 4
  BY <1>4 DEF InStep
<1>6. phase[r] \in HaloPhases /\ phase[r + 1] \in HaloPhases
  BY <1>1, <1>3, <1>5, ExchangeIs DEF HaloPhases
<1>7. Exchange(stage[r], pass[r]) = Exchange(stage[r + 1], pass[r + 1])
  BY <1>1, <1>3, <1>5, <1>6, ExchangeIs
<1>. QED  BY <1>7 DEF Exchange

\* A rank hands on to one that is in the same pass.
LEMMA TurnGoes ==
  ASSUME GridData, NEW r \in Ranks, phase[r] = "work", Ordered(Kind(r))
  PROVE  /\ Forward(r) /\ r \in Uppers => pass[r] = pass[r + 1]
         /\ ~ Forward(r) /\ r - 1 \in Uppers => pass[r - 1] = pass[r]
<1>1. PICK v : v = View(r)
  OBVIOUS
<1>2. /\ stage[r] \in Solving /\ v.exchange = Exchange("pass", pass[r]) /\ v.halo = 4 /\ v.turn = 1
      /\ Turning(v.exchange) /\ (Upwards(v.exchange) <=> ~ Forward(r))
  BY <1>1, TurnView DEF GridData, Solving
<1>3. ASSUME Forward(r), r \in Uppers PROVE pass[r] = pass[r + 1]
  <2>1. PICK w, x : w = View(r + 1) /\ x = Traffic(r)
    OBVIOUS
  <2>2. r + 1 \in Ranks /\ InStep(v, w, x) /\ w.turn \in 0..2
    BY <1>1, <1>2, <1>3, <2>1, UpperRanks, PairInStep DEF GridData, OkView
  <2>3. v.exchange = w.exchange /\ w.turn = 0
    BY <1>2, <1>3, <2>2 DEF InStep, Turns
  <2>4. Exchange("pass", pass[r]) = Exchange("pass", pass[r + 1])
    BY <1>2, <2>1, <2>2, <2>3, ExchangeIs
  <2>. QED  BY <2>4 DEF Exchange
<1>4. ASSUME ~ Forward(r), r - 1 \in Uppers PROVE pass[r - 1] = pass[r]
  <2>1. PICK w, x : w = View(r - 1) /\ x = Traffic(r - 1)
    OBVIOUS
  <2>2. r - 1 \in Ranks /\ InStep(w, v, x) /\ w.turn \in 0..2
    BY <1>1, <1>2, <1>4, <2>1, UpperRanks, PairInStep DEF GridData, OkView
  <2>3. v.exchange = w.exchange /\ w.turn = 0
    <3>1. Turns(v.exchange, w.turn, v.turn, x) => ~ (w.turn > 0)
      BY <1>2, <1>4 DEF Turns
    <3>2. ~ Turns(v.exchange, 2, v.turn, x)
      BY <1>2, <1>4 DEF Turns
    <3>3. InStep(w, v, x) <=>
            \/ /\ w.exchange = v.exchange /\ (v.halo = 4 => w.halo >= 3)
               /\ Halos(x, w.halo = 1, w.halo >= 3 /\ v.halo < 4)
               /\ Turns(w.exchange, w.turn, v.turn, x)
            \/ /\ ExchangeBefore(v.exchange) = w.exchange /\ w.halo >= 3 /\ v.halo < 4
               /\ Halos(x, TRUE, FALSE) /\ Turns(w.exchange, w.turn, 2, x)
            \/ /\ ExchangeBefore(w.exchange) = v.exchange /\ w.halo = 1
               /\ Halos(x, FALSE, v.halo < 4) /\ Turns(v.exchange, 2, v.turn, x)
      BY Zenon DEF InStep
    <3>4. w.exchange = v.exchange /\ Turns(v.exchange, w.turn, v.turn, x)
      <4>1. ~ (v.halo < 4)
        BY <1>2
      <4>. QED  BY <2>2, <3>2, <3>3, <4>1, Zenon
    <3>. QED  BY <2>2, <3>1, <3>4
  <2>4. Exchange("pass", pass[r]) = Exchange("pass", pass[r - 1])
    BY <1>2, <2>1, <2>2, <2>3, ExchangeIs
  <2>. QED  BY <2>4 DEF Exchange
<1>. QED  BY <1>3, <1>4

\* The steps of a rank on a grid, and what is under way.
LEMMA ExchangeHaloTraffic ==
  ASSUME GridData, NEW r \in Ranks, ExchangeHalo(r)
  PROVE  TrafficRight'
<1>1. run' = run /\ pass' = pass
  BY DEF ExchangeHalo
<1>2. CASE P = 1 \/ r = 0
  <2>1. wire' = wire
    BY <1>2 DEF ExchangeHalo, Send, AboveOf, PROC_NULL
  <2>. QED  BY <1>1, <2>1, TrafficStays DEF GridData
<1>3. CASE P # 1 /\ r # 0
  <2>1. PICK row \in SendBuffer(r, FirstOwned(r), LowerHalo(r), BelowOf(r), "TAG_HALO_UP") :
          Send(r, AboveOf(r), "TAG_HALO_UP", row)
    BY <1>3 DEF ExchangeHalo, GridData
  <2>2. r > 0 /\ r - 1 \in Uppers /\ (r - 1) + 1 = r /\ r - 1 \in Ranks
    BY <1>3, RanksAssumption DEF Ranks, Uppers
  <2>3. PICK a : a = r - 1
    OBVIOUS
  <2>4. a \in Uppers /\ a + 1 = r /\ a \in Ranks
    BY <2>2, <2>3
  <2>5. /\ OnlyWire("TAG_HALO_UP", r, a, Append(wire["TAG_HALO_UP"][r][a], row))
        /\ \A q \in Uppers : q # a => NextTraffic(q) = Traffic(q)
    <3>1. /\ OnlyWire("TAG_HALO_UP", r, r - 1, Append(wire["TAG_HALO_UP"][r][r - 1], row))
          /\ \A q \in Uppers : q + 1 # r => NextTraffic(q) = Traffic(q)
      BY <2>1, <2>2, SentUp DEF GridData, HaloControl
    <3>2. \A q \in Uppers : q # a => q + 1 # r
      BY <2>4, RanksAssumption DEF Uppers
    <3>. QED  BY <2>3, <3>1, <3>2
  <2>6. RowRight(row, a, LowerHalo(a), pass[r])
    <3>1. FirstOwned(r) = LowerHalo(a) /\ FirstOwned(r) \in Stored
      BY <2>4, RowsMeet, RowsAreStored DEF GridData
    <3>2. CASE row = Mine(r)[FirstOwned(r)]
      <4>1. phase[r] = "exchange"
        BY DEF ExchangeHalo
      <4>2. LowerHalo(a) \in Units /\ Own(a) # {} => LowerHalo(a) \in Own(r)
        BY <2>4, SenderOwns
      <4>. QED  BY <3>1, <3>2, <4>1, <4>2, ExchangeRow
    <3>3. CASE /\ FirstOwned(r) = LowerHalo(r) /\ Incoming(r, BelowOf(r), "TAG_HALO_UP")
               /\ row = Message(r, BelowOf(r), "TAG_HALO_UP")
      <4>1. r + 1 < P /\ BelowOf(r) = r + 1 /\ r + 1 \in Ranks /\ r \in Uppers
        BY <3>3, UpperIndex DEF Incoming
      <4>2. LowerHalo(r) = N + 1 /\ LandsAt(r + 1, r) = LowerHalo(r)
        <5>1. Own(r) = {}
          BY <3>3, RowsOf DEF Own
        <5>. QED  BY <4>1, <5>1, SenderOwns, RowsLand
      <4>3. LowerHalo(a) \notin Units
        BY <3>1, <3>3, <4>2, SweepAssumption DEF Units
      <4>4. PICK s : s = wire["TAG_HALO_UP"][r + 1][r]
        OBVIOUS
      <4>5. s # <<>> /\ IsSequence(s) /\ row = Head(s)
        BY <3>3, <4>1, <4>4 DEF Incoming, Message, GridData, HaloControl, Wires, Tags
      <4>6. RingRows(s)
        BY <3>1, <3>3, <4>1, <4>2, <4>3, <4>4 DEF GridData, RingControl, RingMessages, Tags
      <4>7. RingRow(row)
        BY <4>5, <4>6, RestOfList DEF RingRows
      <4>8. pass[r] \in Nat
        BY HereLegal DEF GridData, ControlTypes
      <4>. QED  BY <4>3, <4>7, <4>8, RingIsBounded DEF RowRight
    <3>. QED  BY <2>1, <3>2, <3>3 DEF SendBuffer
  <2>7. TrafficAt(a, NextTraffic(a), pass[a], pass[a + 1])
    <3>1. NextTraffic(a) = [Traffic(a) EXCEPT !.up = Append(Traffic(a).up, row)]
      <4>1. Traffic(a).up = wire["TAG_HALO_UP"][r][a]
        BY <2>4 DEF Traffic
      <4>. QED  BY <2>4, <2>5, <4>1, ThisTraffic
    <3>2. /\ NextTraffic(a).up = Append(Traffic(a).up, row)
          /\ NextTraffic(a).down = Traffic(a).down
          /\ NextTraffic(a).forward = Traffic(a).forward
          /\ NextTraffic(a).backward = Traffic(a).backward
      BY <3>1 DEF Traffic
    <3>3. TrafficAt(a, Traffic(a), pass[a], pass[a + 1])
      BY <2>4 DEF GridData, TrafficRight
    <3>4. IsSequence(Traffic(a).up)
      BY <2>4, UpperRanks DEF GridData, HaloControl, Wires, Traffic, Tags
    <3>5. RowsRight(Append(Traffic(a).up, row), a, LowerHalo(a), pass[a + 1])
      BY <2>4, <2>6, <3>3, <3>4, RowsSent DEF TrafficAt
    <3>. QED  BY <3>2, <3>3, <3>5 DEF TrafficAt
  <2>. QED  BY <1>1, <2>5, <2>7, TrafficMoves DEF GridData
<1>. QED  BY <1>2, <1>3

\* The row sent down is that of the exchange its receiver is in.
LEMMA SendHaloDownTraffic ==
  ASSUME GridData, NEW r \in Ranks, SendHaloDown(r)
  PROVE  TrafficRight'
<1>1. run' = run /\ pass' = pass /\ phase[r] = "halo_up_sent"
  BY DEF SendHaloDown
<1>2. PICK row \in SendBuffer(r, LastOwned(r), UpperHalo(r), AboveOf(r), "TAG_HALO_DOWN") :
        Send(r, BelowOf(r), "TAG_HALO_DOWN", row)
  BY DEF SendHaloDown
<1>3. CASE ~ (r + 1 < P)
  <2>1. wire' = wire
    BY <1>2, <1>3, UpperIndex DEF Send
  <2>. QED  BY <1>1, <2>1, TrafficStays DEF GridData
<1>4. CASE r + 1 < P
  <2>1. r + 1 \in Ranks /\ r \in Uppers
    BY <1>4, UpperIndex
  <2>2. /\ OnlyWire("TAG_HALO_DOWN", r, r + 1, Append(wire["TAG_HALO_DOWN"][r][r + 1], row))
        /\ \A q \in Uppers : q # r => NextTraffic(q) = Traffic(q)
    BY <1>2, <1>4, SentDown DEF GridData, HaloControl
  <2>3. pass[r] = pass[r + 1]
    BY <1>1, <2>1, DownGoes
  <2>4. RowRight(row, r + 1, UpperHalo(r + 1), pass[r])
    <3>1. LastOwned(r) = UpperHalo(r + 1) /\ LastOwned(r) \in Stored
      BY <2>1, RowsMeet, RowsAreStored DEF GridData
    <3>2. CASE row = Mine(r)[LastOwned(r)]
      <4>1. UpperHalo(r + 1) \in Units /\ Own(r + 1) # {} => UpperHalo(r + 1) \in Own(r)
        BY <2>1, SenderOwns
      <4>. QED  BY <1>1, <3>1, <3>2, <4>1, ExchangeRow DEF HaloPhases
    <3>3. CASE /\ LastOwned(r) = UpperHalo(r) /\ Incoming(r, AboveOf(r), "TAG_HALO_DOWN")
               /\ row = Message(r, AboveOf(r), "TAG_HALO_DOWN")
      <4>1. r > 0 /\ AboveOf(r) = r - 1 /\ r - 1 \in Ranks /\ r - 1 \in Uppers /\ (r - 1) + 1 = r
        BY <3>3, UpperIndex DEF Incoming
      <4>2. Own(r) = {} /\ Own(r + 1) = {}
        <5>1. Own(r) = {}
          BY <3>3, RowsOf DEF Own
        <5>. QED  BY <2>1, <5>1, SenderOwns
      <4>3. PICK a : a = r - 1
        OBVIOUS
      <4>4. a \in Uppers /\ a + 1 = r /\ a \in Ranks /\ AboveOf(r) = a
        BY <4>1, <4>3
      <4>5. PICK s : s = wire["TAG_HALO_DOWN"][a][r]
        OBVIOUS
      <4>6. s # <<>> /\ IsSequence(s) /\ row = Head(s)
        BY <3>3, <4>4, <4>5 DEF Incoming, Message, GridData, HaloControl, Wires, Tags
      <4>7. RowsRight(Traffic(a).down, a + 1, UpperHalo(a + 1), pass[a + 1])
        BY <4>4 DEF GridData, TrafficRight, TrafficAt
      <4>8. RowsRight(s, r, UpperHalo(r), pass[r])
        BY <4>4, <4>5, <4>7 DEF Traffic
      <4>9. RowRight(row, r, UpperHalo(r), pass[r])
        BY <4>6, <4>8, RowsTaken, RestOfList
      <4>. QED  BY <3>1, <3>3, <4>2, <4>9 DEF RowRight
    <3>. QED  BY <1>2, <3>2, <3>3 DEF SendBuffer
  <2>5. TrafficAt(r, NextTraffic(r), pass[r], pass[r + 1])
    <3>1. NextTraffic(r) = [Traffic(r) EXCEPT !.down = Append(Traffic(r).down, row)]
      <4>1. Traffic(r).down = wire["TAG_HALO_DOWN"][r][r + 1]
        BY DEF Traffic
      <4>. QED  BY <2>1, <2>2, <4>1, ThisTraffic
    <3>2. /\ NextTraffic(r).down = Append(Traffic(r).down, row)
          /\ NextTraffic(r).up = Traffic(r).up
          /\ NextTraffic(r).forward = Traffic(r).forward
          /\ NextTraffic(r).backward = Traffic(r).backward
      BY <3>1 DEF Traffic
    <3>3. TrafficAt(r, Traffic(r), pass[r], pass[r + 1])
      BY <2>1 DEF GridData, TrafficRight
    <3>4. IsSequence(Traffic(r).down)
      BY <2>1 DEF GridData, HaloControl, Wires, Traffic, Tags
    <3>5. RowsRight(Append(Traffic(r).down, row), r + 1, UpperHalo(r + 1), pass[r + 1])
      BY <2>3, <2>4, <3>3, <3>4, RowsSent DEF TrafficAt
    <3>. QED  BY <3>2, <3>3, <3>5 DEF TrafficAt
  <2>. QED  BY <1>1, <2>2, <2>5, TrafficMoves DEF GridData
<1>. QED  BY <1>3, <1>4

\* The row handed on is of the pass its receiver is still in.
LEMMA HandOnTraffic ==
  ASSUME GridData, NEW r \in Ranks, HandOn(r)
  PROVE  TrafficRight'
<1>1. /\ run' = run /\ pass' = pass /\ phase[r] = "work" /\ todo[r] = {} /\ Ordered(Kind(r))
      /\ Send(r, Successor(r), "TAG_ORDERED", Mine(r)[TurnRowOut(r)])
  BY DEF HandOn, GridData
<1>2. CASE Successor(r) = PROC_NULL
  BY <1>1, <1>2, TrafficStays DEF GridData, Send
<1>. DEFINE row == Mine(r)[TurnRowOut(r)]
<1>3. /\ FreshOn(Mine(r), Own(r), pass[r] + 1)
      /\ \A u \in Stored : Bounded(Mine(r)[u], pass[r] + 1)
  <2>1. WorksHere(r) /\ pass[r] \in Nat /\ Kind(r) = PassAt(pass[r] + 1)
    BY <1>1, WorkedHere DEF GridData
  <2>2. Works(r, pass[r], cell[r], current[r], {})
    BY <1>1, <2>1 DEF WorksHere
  <2>3. ~ FlatBlocks(PassAt(pass[r] + 1)) /\ TargetAt(pass[r], current[r]) = current[r]
    BY <1>1, <2>1, OrderedIs DEF FlatBlocks, GridData, TargetAt
  <2>4. FreshOn(cell[r][TargetAt(pass[r], current[r])], Own(r), pass[r] + 1)
    BY <2>1, <2>2, <2>3, WorkEnds
  <2>5. RankAt(r, stage[r], phase[r], pass[r], cell[r], current[r], todo[r]) /\ current[r] \in Slots
    BY DEF GridData, RanksRight, RankHere, CellTypes, Slots
  <2>6. stage[r] = "pass"
    BY <1>1, WorkIsInPass DEF GridData
  <2>7. \A u \in Stored : Bounded(cell[r][current[r]][u], pass[r] + 1)
    BY <1>1, <2>5, <2>6 DEF RankAt, CellsBounded, BoundAt, WorkedPhases, TakenPhases
  <2>. QED  BY <2>3, <2>4, <2>7 DEF Mine
<1>. HIDE DEF row
<1>4. CASE Forward(r) /\ r + 1 < P
  <2>1. r + 1 \in Ranks /\ r \in Uppers /\ row = Mine(r)[LastOwned(r)]
    BY <1>4, UpperIndex DEF row, TurnRowOut
  <2>2. Send(r, BelowOf(r), "TAG_ORDERED", row)
    BY <1>1, <1>4 DEF Successor, row
  <2>3. /\ OnlyWire("TAG_ORDERED", r, r + 1, Append(wire["TAG_ORDERED"][r][r + 1], row))
        /\ \A q \in Uppers : q # r => NextTraffic(q) = Traffic(q)
    BY <1>4, <2>2, SentDown DEF GridData, HaloControl
  <2>4. pass[r] = pass[r + 1] /\ pass[r] \in Nat
    BY <1>1, <1>4, <2>1, TurnGoes, HereLegal DEF GridData, ControlTypes
  <2>5. RowRight(row, r + 1, UpperHalo(r + 1), pass[r + 1] + 1)
    <3>1. LastOwned(r) = UpperHalo(r + 1) /\ LastOwned(r) \in Stored
      BY <2>1, RowsMeet, RowsAreStored DEF GridData
    <3>2. UpperHalo(r + 1) \in Units /\ Own(r + 1) # {} => UpperHalo(r + 1) \in Own(r)
      BY <2>1, SenderOwns
    <3>3. pass[r] + 1 # 0
      BY <2>4
    <3>. QED  BY <1>3, <2>1, <2>4, <3>1, <3>2, <3>3 DEF RowRight, FreshOn
  <2>6. TrafficAt(r, NextTraffic(r), pass[r], pass[r + 1])
    <3>1. NextTraffic(r) = [Traffic(r) EXCEPT !.forward = Append(Traffic(r).forward, row)]
      <4>1. Traffic(r).forward = wire["TAG_ORDERED"][r][r + 1]
        BY DEF Traffic
      <4>. QED  BY <2>1, <2>3, <4>1, ThisTraffic
    <3>2. /\ NextTraffic(r).forward = Append(Traffic(r).forward, row)
          /\ NextTraffic(r).up = Traffic(r).up
          /\ NextTraffic(r).down = Traffic(r).down
          /\ NextTraffic(r).backward = Traffic(r).backward
      BY <3>1 DEF Traffic
    <3>3. TrafficAt(r, Traffic(r), pass[r], pass[r + 1])
      BY <2>1 DEF GridData, TrafficRight
    <3>4. IsSequence(Traffic(r).forward)
      BY <2>1 DEF GridData, HaloControl, Wires, Traffic, Tags
    <3>5. RowsRight(Append(Traffic(r).forward, row), r + 1, UpperHalo(r + 1), pass[r + 1] + 1)
      BY <2>5, <3>3, <3>4, RowsSent DEF TrafficAt
    <3>. QED  BY <3>2, <3>3, <3>5 DEF TrafficAt
  <2>. QED  BY <1>1, <2>3, <2>6, TrafficMoves DEF GridData
<1>5. CASE ~ Forward(r) /\ r > 0
  <2>1. PICK a : a = r - 1
    OBVIOUS
  <2>2. a \in Ranks /\ a \in Uppers /\ a + 1 = r /\ row = Mine(r)[FirstOwned(r)]
    BY <1>5, <2>1, UpperIndex DEF row, TurnRowOut
  <2>3. Send(r, AboveOf(r), "TAG_ORDERED", row)
    BY <1>1, <1>5 DEF Successor, row
  <2>4. /\ OnlyWire("TAG_ORDERED", r, a, Append(wire["TAG_ORDERED"][r][a], row))
        /\ \A q \in Uppers : q # a => NextTraffic(q) = Traffic(q)
    <3>1. /\ OnlyWire("TAG_ORDERED", r, r - 1, Append(wire["TAG_ORDERED"][r][r - 1], row))
          /\ \A q \in Uppers : q + 1 # r => NextTraffic(q) = Traffic(q)
      BY <1>5, <2>3, SentUp DEF GridData, HaloControl
    <3>2. \A q \in Uppers : q # a => q + 1 # r
      BY <2>2, RanksAssumption DEF Uppers
    <3>. QED  BY <2>1, <3>1, <3>2
  <2>5. pass[a] = pass[r] /\ pass[r] \in Nat
    BY <1>1, <1>5, <2>1, <2>2, TurnGoes, HereLegal DEF GridData, ControlTypes
  <2>6. RowRight(row, a, LowerHalo(a), pass[a] + 1)
    <3>1. FirstOwned(r) = LowerHalo(a) /\ FirstOwned(r) \in Stored
      BY <2>2, RowsMeet, RowsAreStored DEF GridData
    <3>2. LowerHalo(a) \in Units /\ Own(a) # {} => LowerHalo(a) \in Own(r)
      BY <2>2, SenderOwns
    <3>3. pass[r] + 1 # 0
      BY <2>5
    <3>. QED  BY <1>3, <2>2, <2>5, <3>1, <3>2, <3>3 DEF RowRight, FreshOn
  <2>7. TrafficAt(a, NextTraffic(a), pass[a], pass[a + 1])
    <3>1. NextTraffic(a) = [Traffic(a) EXCEPT !.backward = Append(Traffic(a).backward, row)]
      <4>1. Traffic(a).backward = wire["TAG_ORDERED"][r][a]
        BY <2>2 DEF Traffic
      <4>2. OnlyWire("TAG_ORDERED", a + 1, a, Append(Traffic(a).backward, row))
        BY <2>2, <2>4, <4>1
      <4>. QED  BY <2>2, <4>2, ThisTraffic
    <3>2. /\ NextTraffic(a).backward = Append(Traffic(a).backward, row)
          /\ NextTraffic(a).up = Traffic(a).up
          /\ NextTraffic(a).down = Traffic(a).down
          /\ NextTraffic(a).forward = Traffic(a).forward
      BY <3>1 DEF Traffic
    <3>3. TrafficAt(a, Traffic(a), pass[a], pass[a + 1])
      BY <2>2 DEF GridData, TrafficRight
    <3>4. IsSequence(Traffic(a).backward)
      BY <2>2 DEF GridData, HaloControl, Wires, Traffic, Tags
    <3>5. RowsRight(Append(Traffic(a).backward, row), a, LowerHalo(a), pass[a] + 1)
      BY <2>6, <3>3, <3>4, RowsSent DEF TrafficAt
    <3>. QED  BY <3>2, <3>3, <3>5 DEF TrafficAt
  <2>. QED  BY <1>1, <2>4, <2>7, TrafficMoves DEF GridData
<1>. QED  BY <1>2, <1>4, <1>5, UpperIndex DEF Successor

\* One wire of a pair gives up its first row.
LEMMA TrafficTaken ==
  ASSUME GridData, NEW a \in Uppers, run' = run, pass' = pass,
         \A q \in Uppers : q # a => NextTraffic(q) = Traffic(q),
         NEW s,
         \/ s = Traffic(a).up /\ NextTraffic(a) = [Traffic(a) EXCEPT !.up = Tail(s)]
         \/ s = Traffic(a).down /\ NextTraffic(a) = [Traffic(a) EXCEPT !.down = Tail(s)]
         \/ s = Traffic(a).forward /\ NextTraffic(a) = [Traffic(a) EXCEPT !.forward = Tail(s)]
         \/ s = Traffic(a).backward /\ NextTraffic(a) = [Traffic(a) EXCEPT !.backward = Tail(s)],
         s # <<>>
  PROVE  TrafficRight' /\ IsSequence(s)
<1>1. /\ IsSequence(Traffic(a).up) /\ IsSequence(Traffic(a).down)
      /\ IsSequence(Traffic(a).forward) /\ IsSequence(Traffic(a).backward)
  BY UpperRanks DEF GridData, HaloControl, Wires, Traffic, Tags
<1>2. IsSequence(s)
  BY <1>1
<1>3. PICK x, y : x = Traffic(a) /\ y = NextTraffic(a)
  OBVIOUS
<1>4. x = [up |-> x.up, down |-> x.down, forward |-> x.forward, backward |-> x.backward]
  BY <1>3 DEF Traffic
<1>5. TrafficAt(a, x, pass[a], pass[a + 1])
  BY <1>3 DEF GridData, TrafficRight
<1>6. TrafficAt(a, y, pass[a], pass[a + 1])
  <2>1. CASE s = x.up /\ y = [x EXCEPT !.up = Tail(s)]
    <3>1. RowsRight(Tail(s), a, LowerHalo(a), pass[a + 1])
      BY <1>2, <1>5, <2>1, RowsTaken DEF TrafficAt
    <3>. QED  BY <1>4, <1>5, <2>1, <3>1 DEF TrafficAt
  <2>2. CASE s = x.down /\ y = [x EXCEPT !.down = Tail(s)]
    <3>1. RowsRight(Tail(s), a + 1, UpperHalo(a + 1), pass[a + 1])
      BY <1>2, <1>5, <2>2, RowsTaken DEF TrafficAt
    <3>. QED  BY <1>4, <1>5, <2>2, <3>1 DEF TrafficAt
  <2>3. CASE s = x.forward /\ y = [x EXCEPT !.forward = Tail(s)]
    <3>1. RowsRight(Tail(s), a + 1, UpperHalo(a + 1), pass[a + 1] + 1)
      BY <1>2, <1>5, <2>3, RowsTaken DEF TrafficAt
    <3>. QED  BY <1>4, <1>5, <2>3, <3>1 DEF TrafficAt
  <2>4. CASE s = x.backward /\ y = [x EXCEPT !.backward = Tail(s)]
    <3>1. RowsRight(Tail(s), a, LowerHalo(a), pass[a] + 1)
      BY <1>2, <1>5, <2>4, RowsTaken DEF TrafficAt
    <3>. QED  BY <1>4, <1>5, <2>4, <3>1 DEF TrafficAt
  <2>. QED  BY <1>3, <2>1, <2>2, <2>3, <2>4
<1>. QED  BY <1>2, <1>3, <1>6, TrafficMoves DEF GridData

\* What is received from below is right, so the receiver is.
LEMMA TakeLowerHaloTraffic ==
  ASSUME GridData, NEW r \in Ranks, TakeLowerHalo(r)
  PROVE  TrafficRight' /\ RanksRight'
<1>1. run' = run /\ pass' = pass /\ phase[r] = "halo_up"
  BY DEF TakeLowerHalo, TakeHalo
<1>2. CASE ~ (r + 1 < P)
  <2>1. wire' = wire
    BY <1>2, UpperIndex DEF TakeLowerHalo, TakeHalo
  <2>. QED  BY <1>1, <1>2, <2>1, TrafficStays, TakeLowerHaloRanks DEF GridData
<1>3. CASE r + 1 < P
  <2>1. r \in Uppers /\ BelowOf(r) = r + 1 /\ r + 1 # PROC_NULL
    BY <1>3, UpperIndex DEF PROC_NULL, Ranks
  <2>2. Incoming(r, r + 1, "TAG_HALO_UP") /\ Receive(r, r + 1, "TAG_HALO_UP")
    BY <2>1 DEF TakeLowerHalo, TakeHalo
  <2>3. PICK s : s = wire["TAG_HALO_UP"][r + 1][r]
    OBVIOUS
  <2>4. /\ OnlyWire("TAG_HALO_UP", r + 1, r, Tail(s)) /\ s # <<>>
        /\ Message(r, r + 1, "TAG_HALO_UP") = s[1]
        /\ \A q \in Uppers : q # r => NextTraffic(q) = Traffic(q)
    BY <1>3, <2>2, <2>3, TakenFromBelow DEF GridData, HaloControl
  <2>5. Traffic(r).up = s /\ NextTraffic(r) = [Traffic(r) EXCEPT !.up = Tail(s)]
    <3>1. NextTraffic(r) = [Traffic(r) EXCEPT !.up = Tail(s)]
      BY <2>1, <2>4, ThisTraffic
    <3>. QED  BY <2>3, <3>1 DEF Traffic
  <2>6. TrafficRight'
    BY <1>1, <2>1, <2>4, <2>5, TrafficTaken
  <2>7. RowRight(s[1], r, LowerHalo(r), pass[r])
    <3>1. RowRight(Traffic(r).up[1], r, LowerHalo(r), pass[r])
      BY <1>1, <2>1, <2>4, <2>5, UpComes
    <3>. QED  BY <2>5, <3>1
  <2>8. RanksRight'
    BY <2>4, <2>7, TakeLowerHaloRanks DEF GridData
  <2>. QED  BY <2>6, <2>8
<1>. QED  BY <1>2, <1>3

\* Likewise from above,
LEMMA TakeUpperHaloTraffic ==
  ASSUME GridData, NEW r \in Ranks, TakeUpperHalo(r)
  PROVE  TrafficRight' /\ RanksRight'
<1>1. run' = run /\ pass' = pass /\ phase[r] = "halo_down"
  BY DEF TakeUpperHalo, TakeHalo
<1>2. CASE ~ (r > 0)
  <2>1. wire' = wire
    BY <1>2, UpperIndex DEF TakeUpperHalo, TakeHalo
  <2>. QED  BY <1>1, <1>2, <2>1, TrafficStays, TakeUpperHaloRanks DEF GridData
<1>3. CASE r > 0
  <2>1. PICK a : a = r - 1
    OBVIOUS
  <2>2. a \in Uppers /\ a + 1 = r /\ a \in Ranks /\ AboveOf(r) = a /\ a # PROC_NULL
    BY <1>3, <2>1, UpperIndex DEF PROC_NULL, Ranks
  <2>3. Incoming(r, a, "TAG_HALO_DOWN") /\ Receive(r, a, "TAG_HALO_DOWN")
    BY <2>2 DEF TakeUpperHalo, TakeHalo
  <2>4. PICK s : s = wire["TAG_HALO_DOWN"][a][r]
    OBVIOUS
  <2>5. /\ OnlyWire("TAG_HALO_DOWN", a, r, Tail(s)) /\ s # <<>>
        /\ Message(r, a, "TAG_HALO_DOWN") = s[1]
        /\ \A q \in Uppers : q # a => NextTraffic(q) = Traffic(q)
    <3>1. /\ OnlyWire("TAG_HALO_DOWN", a, r, Tail(s)) /\ s # <<>>
          /\ Message(r, a, "TAG_HALO_DOWN") = s[1]
          /\ \A q \in Uppers : q + 1 # r => NextTraffic(q) = Traffic(q)
      BY <1>3, <2>1, <2>3, <2>4, TakenFromAbove DEF GridData, HaloControl
    <3>2. \A q \in Uppers : q # a => q + 1 # r
      BY <2>2, RanksAssumption DEF Uppers
    <3>. QED  BY <3>1, <3>2
  <2>6. Traffic(a).down = s /\ NextTraffic(a) = [Traffic(a) EXCEPT !.down = Tail(s)]
    <3>1. NextTraffic(a) = [Traffic(a) EXCEPT !.down = Tail(s)]
      BY <2>2, <2>5, ThisTraffic
    <3>. QED  BY <2>2, <2>4, <3>1 DEF Traffic
  <2>7. TrafficRight' /\ IsSequence(s)
    BY <1>1, <2>2, <2>5, <2>6, TrafficTaken
  <2>8. RowRight(s[1], r, UpperHalo(r), pass[r])
    <3>1. RowsRight(s, a + 1, UpperHalo(a + 1), pass[a + 1])
      BY <2>2, <2>6 DEF GridData, TrafficRight, TrafficAt
    <3>. QED  BY <2>2, <2>5, <2>7, <3>1, RowsTaken
  <2>9. RanksRight'
    <3>1. r > 0 => RowRight(Message(r, r - 1, "TAG_HALO_DOWN"), r, UpperHalo(r), pass[r])
      BY <2>1, <2>5, <2>8
    <3>. QED  BY <3>1, TakeUpperHaloRanks DEF GridData
  <2>. QED  BY <2>7, <2>9
<1>. QED  BY <1>2, <1>3

\* and with a turn.
LEMMA TakeTurnTraffic ==
  ASSUME GridData, NEW r \in Ranks, TakeTurn(r)
  PROVE  TrafficRight' /\ RanksRight'
<1>1. run' = run /\ pass' = pass /\ phase[r] = "turn"
  BY DEF TakeTurn
<1>2. PICK src, message : src = Predecessor(r) /\ message = Message(r, src, "TAG_ORDERED")
  OBVIOUS
<1>3. CASE src = PROC_NULL
  <2>1. wire' = wire
    BY <1>2, <1>3 DEF TakeTurn
  <2>. QED  BY <1>1, <1>2, <1>3, <2>1, TrafficStays, TakeTurnRanks DEF GridData
<1>4. CASE src # PROC_NULL
  <2>1. Incoming(r, src, "TAG_ORDERED") /\ Receive(r, src, "TAG_ORDERED")
    BY <1>2, <1>4 DEF TakeTurn
  <2>2. CASE Forward(r)
    <3>1. src = r - 1 /\ r > 0 /\ src \in Ranks /\ src \in Uppers /\ src + 1 = r
      BY <1>2, <1>4, <2>2, UpperIndex DEF Predecessor
    <3>2. PICK s : s = wire["TAG_ORDERED"][src][r]
      OBVIOUS
    <3>3. /\ OnlyWire("TAG_ORDERED", src, r, Tail(s)) /\ s # <<>> /\ message = s[1]
          /\ \A q \in Uppers : q # src => NextTraffic(q) = Traffic(q)
      <4>1. /\ OnlyWire("TAG_ORDERED", src, r, Tail(s)) /\ s # <<>> /\ message = s[1]
            /\ \A q \in Uppers : q + 1 # r => NextTraffic(q) = Traffic(q)
        BY <1>2, <2>1, <3>1, <3>2, TakenFromAbove DEF GridData, HaloControl
      <4>2. \A q \in Uppers : q # src => q + 1 # r
        BY <3>1, RanksAssumption DEF Uppers
      <4>. QED  BY <4>1, <4>2
    <3>4. Traffic(src).forward = s /\ NextTraffic(src) = [Traffic(src) EXCEPT !.forward = Tail(s)]
      <4>1. NextTraffic(src) = [Traffic(src) EXCEPT !.forward = Tail(s)]
        <5>1. OnlyWire("TAG_ORDERED", src, src + 1, Tail(s))
          BY <3>1, <3>3
        <5>2. src \in Uppers
          BY <3>1
        <5>. QED  BY <5>1, <5>2, ThisTraffic
      <4>. QED  BY <3>1, <3>2, <4>1 DEF Traffic
    <3>5. TrafficRight' /\ IsSequence(s)
      BY <1>1, <3>1, <3>3, <3>4, TrafficTaken
    <3>6. RowRight(message, r, TurnRowIn(r), pass[r] + 1)
      <4>1. RowsRight(s, src + 1, UpperHalo(src + 1), pass[src + 1] + 1)
        BY <3>1, <3>4 DEF GridData, TrafficRight, TrafficAt
      <4>. QED  BY <2>2, <3>1, <3>3, <3>5, <4>1, RowsTaken DEF TurnRowIn
    <3>. QED  BY <1>2, <3>5, <3>6, TakeTurnRanks DEF GridData
  <2>3. CASE ~ Forward(r)
    <3>1. src = r + 1 /\ r + 1 < P /\ r \in Uppers
      BY <1>2, <1>4, <2>3, UpperIndex DEF Predecessor
    <3>2. PICK s : s = wire["TAG_ORDERED"][r + 1][r]
      OBVIOUS
    <3>3. /\ OnlyWire("TAG_ORDERED", r + 1, r, Tail(s)) /\ s # <<>> /\ message = s[1]
          /\ \A q \in Uppers : q # r => NextTraffic(q) = Traffic(q)
      BY <1>2, <2>1, <3>1, <3>2, TakenFromBelow DEF GridData, HaloControl
    <3>4. Traffic(r).backward = s /\ NextTraffic(r) = [Traffic(r) EXCEPT !.backward = Tail(s)]
      <4>1. NextTraffic(r) = [Traffic(r) EXCEPT !.backward = Tail(s)]
        BY <3>1, <3>3, ThisTraffic
      <4>. QED  BY <3>2, <4>1 DEF Traffic
    <3>5. TrafficRight' /\ IsSequence(s)
      BY <1>1, <3>1, <3>3, <3>4, TrafficTaken
    <3>6. RowRight(message, r, TurnRowIn(r), pass[r] + 1)
      <4>1. RowsRight(s, r, LowerHalo(r), pass[r] + 1)
        BY <3>1, <3>4 DEF GridData, TrafficRight, TrafficAt
      <4>. QED  BY <2>3, <3>3, <3>5, <4>1, RowsTaken DEF TurnRowIn
    <3>. QED  BY <1>2, <3>5, <3>6, TakeTurnRanks DEF GridData
  <2>. QED  BY <2>2, <2>3
<1>. QED  BY <1>3, <1>4

\* The steps that send and take nothing.
LEMMA QuietTraffic ==
  ASSUME GridData, NEW r \in Ranks,
         \/ Reset(r) \/ EnterBarrier(r) \/ LeaveBarrier(r) \/ HaloDone(r) \/ Gather(r)
         \/ GatherRows(r) \/ StoreRows(r) \/ StartPass(r) \/ UpdateItem(r) \/ HandedOn(r)
         \/ LeaveBcast(r) \/ WorkDone(r) \/ EndPass(r) \/ Evaluate(r) \/ LeaveReduce(r)
         \/ Finish(r)
  PROVE  TrafficRight'
<1>1. pass = [q \in Ranks |-> pass[q]]
  BY DEF GridData, Control, ControlTypes
<1>2. CASE Reset(r) \/ EndPass(r)
  <2>1. run' = run /\ wire' = wire /\ phase[r] \in {"start", "end_pass"}
    BY <1>2 DEF Reset, EndPass, At
  <2>2. \E k : pass' = [pass EXCEPT ![r] = k]
    BY <1>2 DEF Reset, EndPass
  <2>3. \A q \in Ranks : q # r => pass'[q] = pass[q]
    BY <1>1, <2>2
  <2>4. phase[r] \notin HaloPhases \cup {"body", "turn"}
    BY <2>1 DEF HaloPhases
  <2>. QED  BY <2>1, <2>3, <2>4, TrafficStays DEF GridData
<1>3. CASE ~ (Reset(r) \/ EndPass(r))
  <2>1. run' = run /\ wire' = wire /\ pass' = pass
    BY <1>3 DEF EnterBarrier, LeaveBarrier, HaloDone, Gather, GatherRows, StoreRows, StartPass,
       UpdateItem, HandedOn, LeaveBcast, WorkDone, Evaluate, LeaveReduce, Finish
  <2>. QED  BY <2>1, TrafficStays DEF GridData
<1>. QED  BY <1>2, <1>3

-----------------------------------------------------------------------------
(***************************************************************************)
(* On the dense problem: what is handed on.  Several turns may be under    *)
(* way; the one a copy belongs to is known by how many were taken before.  *)
(***************************************************************************)

\* The copies under way to rank q, which has taken so many turns of these kinds.
CopiesAt(list, q, kinds, taken) ==
  \A i \in 1..Len(list) : \A k \in Nat :
    PassAt(k + 1) \in kinds /\ TurnsMade(kinds, k) = taken + i - 1 =>
      IsSlot(list[i]) /\ WorkRight(q, k, list[i], ItemsOf(q, PassAt(k + 1)))

\* Between ranks r and r + 1, with these tallies.
CopiesOf(r, x, v, w) ==
  /\ CopiesAt(x.forward, r + 1, Ascending, w.fromAbove)
  /\ CopiesAt(x.backward, r, Descending, v.fromBelow)

CopiesRight == \A r \in Uppers : CopiesOf(r, Traffic(r), Tally(r), Tally(r + 1))

\* What a copy on a wire must be does not change while the solve is the same.
LEMMA CopiesFixed ==
  ASSUME run' = run, NEW list, NEW q, NEW kinds, NEW taken
  PROVE  CopiesAt(list, q, kinds, taken)' <=> CopiesAt(list, q, kinds, taken)
<1>1. ASSUME NEW k PROVE TurnsMade(kinds, k)' = TurnsMade(kinds, k)
  <2>1. {j \in 1..k : PassAt(j) \in kinds}' = {j \in 1..k : PassAt(j) \in kinds}
    BY ScheduleFixed
  <2>. QED  BY <2>1 DEF TurnsMade
<1>2. ASSUME NEW k
      PROVE  /\ PassAt(k + 1)' = PassAt(k + 1)
             /\ ItemsOf(q, PassAt(k + 1))' = ItemsOf(q, PassAt(k + 1))
  BY ScheduleFixed DEF ItemsOf, FlatBlocks
<1>3. ASSUME NEW k, NEW x, NEW left PROVE WorkRight(q, k, x, left)' <=> WorkRight(q, k, x, left)
  BY <1>3, WorkFixed
<1>4. ASSUME NEW k, NEW x
      PROVE  WorkRight(q, k, x, ItemsOf(q, PassAt(k + 1)))' <=> WorkRight(q, k, x, ItemsOf(q, PassAt(k + 1)))
  <2>1. PICK left : left = ItemsOf(q, PassAt(k + 1))
    OBVIOUS
  <2>2. WorkRight(q, k, x, ItemsOf(q, PassAt(k + 1)))' <=> WorkRight(q, k, x, left)'
    BY <1>2, <2>1 DEF WorkRight
  <2>. QED  BY <1>3, <2>1, <2>2
<1>. QED  BY <1>1, <1>2, <1>4 DEF CopiesAt, IsSlot

\* It is enough to look at the wires and counts of the next state.
LEMMA NextCopiesRight ==
  ASSUME run' = run,
         \A r \in Uppers : CopiesOf(r, NextTraffic(r), NextTally(r), NextTally(r + 1))
  PROVE  CopiesRight'
<1>1. ASSUME NEW r \in Uppers PROVE CopiesOf(r, Traffic(r), Tally(r), Tally(r + 1))'
  <2>1. PICK x, v, w : x = NextTraffic(r) /\ v = NextTally(r) /\ w = NextTally(r + 1)
    OBVIOUS
  <2>2. Traffic(r)' = x /\ Tally(r)' = v /\ Tally(r + 1)' = w
    BY <2>1, NextTallyIs
  <2>3. CopiesOf(r, x, v, w)
    BY <2>1
  <2>4. CopiesOf(r, x, v, w)'
    BY <2>3, CopiesFixed DEF CopiesOf, Ascending, Descending
  <2>. QED  BY <2>2, <2>4
<1>. QED  BY <1>1 DEF CopiesRight, Uppers

\* The tally of one who does not move.
LEMMA TallyStays ==
  ASSUME NEW m \in Ranks, OthersStay(m), NEW q \in Ranks, q # m
  PROVE  NextTally(q) = Tally(q)
BY DEF OthersStay, Tally, NextTally

\* No two passes of a direction have as many turns before them.
LEMMA TurnsDiffer ==
  ASSUME NEW kinds, NEW k \in Nat, NEW l \in Nat, PassAt(k + 1) \in kinds,
         PassAt(l + 1) \in kinds, TurnsMade(kinds, k) = TurnsMade(kinds, l)
  PROVE  k = l
<1>1. ASSUME NEW m \in Nat, NEW n \in Nat, m < n, PassAt(m + 1) \in kinds
      PROVE  TurnsMade(kinds, m) # TurnsMade(kinds, n)
  <2>. DEFINE S(i) == {j \in 1..i : PassAt(j) \in kinds}
  <2>1. S(m + 1) \subseteq S(n) /\ IsFiniteSet(S(n))
    <3>1. IsFiniteSet(1..n) /\ S(n) \subseteq 1..n
      <4>1. IsFiniteSet(1..n)
        BY FS_Interval
      <4>. QED  BY <4>1
    <3>2. 1..(m + 1) \subseteq 1..n
      BY <1>1
    <3>. QED  BY <3>1, <3>2, FS_Subset
  <2>. HIDE DEF S
  <2>2. Cardinality(S(m + 1)) <= Cardinality(S(n))
    BY <2>1, FS_Subset
  <2>3. TurnsMade(kinds, m + 1) = Cardinality(S(m + 1)) /\ TurnsMade(kinds, n) = Cardinality(S(n))
    BY DEF TurnsMade, S
  <2>4. TurnsMade(kinds, m + 1) = TurnsMade(kinds, m) + 1 /\ TurnsMade(kinds, m) \in Nat
    BY <1>1, TurnsCount
  <2>5. TurnsMade(kinds, n) \in Nat
    BY TurnsCount
  <2>. QED  BY <2>2, <2>3, <2>4, <2>5
<1>2. k < l \/ l < k \/ k = l
  OBVIOUS
<1>. QED  BY <1>1, <1>2

\* A copy more, and a copy less.
LEMMA CopiesSent ==
  ASSUME NEW s, IsSequence(s), NEW q, NEW kinds, NEW taken \in Int, CopiesAt(s, q, kinds, taken),
         NEW k \in Nat, PassAt(k + 1) \in kinds, TurnsMade(kinds, k) = taken + Len(s),
         NEW x, IsSlot(x), WorkRight(q, k, x, ItemsOf(q, PassAt(k + 1)))
  PROVE  CopiesAt(Append(s, x), q, kinds, taken)
<1>1. /\ Len(s) \in Nat /\ Len(Append(s, x)) = Len(s) + 1 /\ Append(s, x)[Len(s) + 1] = x
      /\ \A i \in 1..Len(s) : Append(s, x)[i] = s[i]
  BY AppendedList
<1>2. ASSUME NEW i \in 1..(Len(s) + 1), NEW l \in Nat,
             PassAt(l + 1) \in kinds, TurnsMade(kinds, l) = taken + i - 1
      PROVE  IsSlot(Append(s, x)[i]) /\ WorkRight(q, l, Append(s, x)[i], ItemsOf(q, PassAt(l + 1)))
  <2>1. CASE i = Len(s) + 1
    <3>1. TurnsMade(kinds, l) = TurnsMade(kinds, k)
      BY <1>1, <1>2, <2>1
    <3>2. l = k
      BY <1>2, <3>1, TurnsDiffer
    <3>. QED  BY <1>1, <2>1, <3>2
  <2>2. CASE i # Len(s) + 1
    <3>1. i \in 1..Len(s) /\ Append(s, x)[i] = s[i]
      BY <1>1, <2>2
    <3>. QED  BY <1>2, <3>1 DEF CopiesAt
  <2>. QED  BY <2>1, <2>2
<1>. QED  BY <1>1, <1>2 DEF CopiesAt

\* Taking the first copy leaves the others right; it is the one of the receiver's pass.
LEMMA CopiesTaken ==
  ASSUME NEW s, IsSequence(s), s # <<>>, NEW q, NEW kinds, NEW taken \in Int,
         CopiesAt(s, q, kinds, taken)
  PROVE  /\ CopiesAt(Tail(s), q, kinds, taken + 1)
         /\ \A k \in Nat : PassAt(k + 1) \in kinds /\ TurnsMade(kinds, k) = taken =>
              IsSlot(s[1]) /\ WorkRight(q, k, s[1], ItemsOf(q, PassAt(k + 1)))
<1>1. /\ Len(s) \in Nat \ {0} /\ Len(Tail(s)) = Len(s) - 1
      /\ \A i \in 1..Len(Tail(s)) : Tail(s)[i] = s[i + 1]
  BY RestOfList
<1>2. ASSUME NEW i \in 1..Len(Tail(s)), NEW k \in Nat,
             PassAt(k + 1) \in kinds, TurnsMade(kinds, k) = (taken + 1) + i - 1
      PROVE  IsSlot(Tail(s)[i]) /\ WorkRight(q, k, Tail(s)[i], ItemsOf(q, PassAt(k + 1)))
  <2>1. i + 1 \in 1..Len(s) /\ (taken + 1) + i - 1 = taken + (i + 1) - 1
    BY <1>1
  <2>2. TurnsMade(kinds, k) = taken + (i + 1) - 1
    BY <1>2, <2>1
  <2>3. IsSlot(s[i + 1]) /\ WorkRight(q, k, s[i + 1], ItemsOf(q, PassAt(k + 1)))
    BY <1>2, <2>1, <2>2 DEF CopiesAt
  <2>. QED  BY <1>1, <2>3
<1>3. 1 \in 1..Len(s) /\ taken + 1 - 1 = taken
  BY <1>1
<1>. QED  BY <1>2, <1>3 DEF CopiesAt

\* Nothing is asked of a wire without copies.
LEMMA NoCopies ==
  ASSUME NEW list, list = <<>>, NEW q, NEW kinds, NEW taken
  PROVE  CopiesAt(list, q, kinds, taken)
BY DEF CopiesAt

-----------------------------------------------------------------------------
(* The steps of a rank on the dense problem, and what is handed on. *)

FlatData == ~ Grid /\ Control /\ TurnControl /\ CellTypes /\ RanksRight /\ CopiesRight

\* The counts are numbers.
LEMMA TallyAtTypes ==
  ASSUME NEW s, NEW p, NEW k \in Nat
  PROVE  /\ TallyAt(s, p, k).down \in Int /\ TallyAt(s, p, k).up \in Int
         /\ TallyAt(s, p, k).fromAbove \in Int /\ TallyAt(s, p, k).fromBelow \in Int
<1>1. PassesMade(s, k) \in Nat
  BY DEF PassesMade
<1>. QED  BY <1>1, TurnsCount DEF TallyAt, HandedAt, TakenAt

\* A step that hands on and takes nothing: the balance shows that no count of
\* what was taken changes where something is under way.
LEMMA CopiesStay ==
  ASSUME FlatData, TurnControl', NEW m \in Ranks, OthersStay(m), wire' = wire,
         \A q \in Ranks : pass'[q] \in Nat
  PROVE  CopiesRight'
<1>1. run' = run
  BY DEF OthersStay
<1>2. ASSUME NEW r \in Uppers
      PROVE  CopiesOf(r, NextTraffic(r), NextTally(r), NextTally(r + 1))
  <2>1. PICK x, v, w, v2, w2 : /\ x = Traffic(r) /\ v = Tally(r) /\ w = Tally(r + 1)
                               /\ v2 = NextTally(r) /\ w2 = NextTally(r + 1)
    OBVIOUS
  <2>2. NextTraffic(r) = x /\ r \in Ranks /\ r + 1 \in Ranks /\ r + 1 # r
    BY <2>1, SameTraffic, UpperRanks
  <2>3. CopiesOf(r, x, v, w)
    BY <2>1 DEF FlatData, CopiesRight
  <2>4. IF rep[r] = rep[r + 1] THEN Balanced(v, w, x) ELSE Idle(x)
    <3>1. PairBalanced(r)
      BY DEF FlatData, TurnControl
    <3>. QED  BY <2>1, <3>1 DEF PairBalanced
  <2>5. IF rep'[r] = rep'[r + 1] THEN Balanced(v2, w2, x) ELSE Idle(x)
    <3>1. PairBalanced(r)'
      BY DEF TurnControl, Uppers
    <3>2. Tally(r)' = v2 /\ Tally(r + 1)' = w2 /\ Traffic(r)' = x
      BY <1>1, <2>1, <2>2, NextTallyIs
    <3>3. Balanced(Tally(r), Tally(r + 1), Traffic(r))' <=> Balanced(v2, w2, x)
      BY <3>2 DEF Balanced
    <3>4. Idle(Traffic(r))' <=> Idle(x)
      BY <3>2 DEF Idle
    <3>. QED  BY <3>1, <3>3, <3>4 DEF PairBalanced
  <2>6. CASE Idle(x)
    BY <2>1, <2>2, <2>6, NoCopies DEF Idle, CopiesOf
  <2>7. CASE ~ Idle(x)
    <3>1. Balanced(v, w, x) /\ Balanced(v2, w2, x)
      BY <2>4, <2>5, <2>7
    <3>2. r = m \/ v2 = v
      BY <2>1, <2>2, TallyStays
    <3>3. r + 1 = m \/ w2 = w
      BY <2>1, <2>2, TallyStays
    <3>4. /\ v.down \in Int /\ v.up \in Int /\ v.fromAbove \in Int /\ v.fromBelow \in Int
          /\ w.down \in Int /\ w.up \in Int /\ w.fromAbove \in Int /\ w.fromBelow \in Int
      <4>1. pass[r] \in Nat /\ pass[r + 1] \in Nat
        BY <2>2 DEF FlatData, Control, ControlTypes
      <4>. QED  BY <2>1, <4>1, TallyTypes
    <3>5. /\ v2.down \in Int /\ v2.up \in Int /\ v2.fromAbove \in Int /\ v2.fromBelow \in Int
          /\ w2.down \in Int /\ w2.up \in Int /\ w2.fromAbove \in Int /\ w2.fromBelow \in Int
      <4>1. pass'[r] \in Nat /\ pass'[r + 1] \in Nat
        BY <2>2
      <4>. QED  BY <2>1, <4>1, TallyAtTypes DEF NextTally
    <3>6. w2.fromAbove = w.fromAbove /\ v2.fromBelow = v.fromBelow
      <4>1. /\ v.down - w.fromAbove = v2.down - w2.fromAbove
            /\ w.up - v.fromBelow = w2.up - v2.fromBelow
        BY <3>1 DEF Balanced
      <4>2. CASE r = m
        <5>1. w2 = w
          BY <2>2, <3>3, <4>2
        <5>. QED  BY <3>4, <3>5, <4>1, <5>1
      <4>3. CASE r # m
        <5>1. v2 = v
          BY <3>2, <4>3
        <5>. QED  BY <3>4, <3>5, <4>1, <5>1
      <4>. QED  BY <4>2, <4>3
    <3>7. CopiesOf(r, x, v2, w2)
      BY <2>3, <3>6 DEF CopiesOf
    <3>. QED  BY <2>1, <2>2, <3>7
  <2>. QED  BY <2>6, <2>7
<1>. QED  BY <1>1, <1>2, NextCopiesRight

\* What one rank ends its work with is what the next one begins its own with.
LEMMA DoneAcross ==
  ASSUME NEW r \in Uppers, NEW kind, NEW u
  PROVE  /\ kind \in Ascending =>
              (UnitDone(r + 1, kind, ItemsOf(r + 1, kind), u) <=> UnitDone(r, kind, {}, u))
         /\ kind \in Descending =>
              (UnitDone(r, kind, ItemsOf(r, kind), u) <=> UnitDone(r + 1, kind, {}, u))
<1>1. r \in Ranks /\ r + 1 \in Ranks
  BY UpperRanks
<1>2. PICK n, a, b : n = ItemCount(kind) /\ a = ShareOf(r, kind) /\ b = ShareOf(r + 1, kind)
  OBVIOUS
<1>3. /\ a.end = b.begin /\ n \in Nat
      /\ a.begin \in Nat /\ a.end \in Nat /\ a.begin <= a.end
      /\ b.begin \in Nat /\ b.end \in Nat /\ b.begin <= b.end
      /\ ItemsOf(r, kind) = (a.begin + 1)..a.end /\ ItemsOf(r + 1, kind) = (b.begin + 1)..b.end
  <2>1. /\ n \in Nat /\ ItemsOf(r, kind) = UnitsOf(a) /\ ItemsOf(r + 1, kind) = UnitsOf(b)
        /\ a.begin \in Nat /\ a.end \in Nat /\ a.begin <= a.end
        /\ b.begin \in Nat /\ b.end \in Nat /\ b.begin <= b.end
    BY <1>1, <1>2, ItemNumbers
  <2>2. a.end = b.begin
    BY <1>2, SharesMeet
  <2>. QED  BY <2>1, <2>2 DEF UnitsOf
<1>4. Ascending \cap Descending = {}
  BY DEF Ascending, Descending
<1>5. ASSUME kind \in Ascending, NEW i \in 1..n
      PROVE  ItemDone(r + 1, kind, ItemsOf(r + 1, kind), i) <=> ItemDone(r, kind, {}, i)
  BY <1>2, <1>3, <1>4, <1>5 DEF ItemDone
<1>6. ASSUME kind \in Descending, NEW i \in 1..n
      PROVE  ItemDone(r, kind, ItemsOf(r, kind), i) <=> ItemDone(r + 1, kind, {}, i)
  BY <1>2, <1>3, <1>4, <1>6 DEF ItemDone
<1>. QED  BY <1>2, <1>5, <1>6 DEF UnitDone

\* What a rank holds after its last item its neighbour must hold before its first.
LEMMA WorkAcross ==
  ASSUME ~ Grid, NEW r \in Uppers, NEW k, NEW x
  PROVE  /\ PassAt(k + 1) \in Ascending /\ WorkRight(r, k, x, {}) =>
              WorkRight(r + 1, k, x, ItemsOf(r + 1, PassAt(k + 1)))
         /\ PassAt(k + 1) \in Descending /\ WorkRight(r + 1, k, x, {}) =>
              WorkRight(r, k, x, ItemsOf(r, PassAt(k + 1)))
<1>1. PICK kind : kind = PassAt(k + 1)
  OBVIOUS
<1>2. \A q : Seen(q) = Units
  BY DEF Seen
<1>. QED  BY <1>1, <1>2, DoneAcross DEF WorkRight

\* The copy handed on is right for the pass of its number.
LEMMA HandOnCopies ==
  ASSUME FlatData, NEW r \in Ranks, HandOn(r)
  PROVE  CopiesRight'
<1>1. PICK x : x = Mine(r)
  OBVIOUS
<1>2. /\ run' = run /\ pass' = pass /\ phase[r] = "work" /\ todo[r] = {} /\ Ordered(Kind(r))
      /\ Send(r, Successor(r), "TAG_ORDERED", x) /\ Steps(r, "handed_on")
  BY <1>1 DEF HandOn, FlatData, Steps
<1>3. /\ WorksHere(r) /\ pass[r] \in Nat /\ Kind(r) = PassAt(pass[r] + 1) /\ stage[r] = "pass"
  BY <1>2, WorkedHere, WorkIsInPass DEF FlatData
<1>4. PICK k : k = pass[r]
  OBVIOUS
<1>5. k \in Nat /\ Ordered(PassAt(k + 1)) /\ (Forward(r) <=> PassAt(k + 1) # "backward")
  BY <1>2, <1>3, <1>4 DEF Forward
<1>6. IsSlot(x) /\ WorkRight(r, k, x, {})
  BY <1>1, <1>2, <1>3, <1>4, WorkSlots DEF FlatData, WorksHere, Works, Mine
<1>7. OthersStay(r) /\ stage'[r] = stage[r] /\ phase'[r] = "handed_on"
  BY <1>2, StepsTo DEF FlatData
<1>8. PICK v, w : v = Tally(r) /\ w = NextTally(r)
  OBVIOUS
<1>9. v = TallyAt("pass", "work", k) /\ w = TallyAt("pass", "handed_on", k)
  BY <1>2, <1>3, <1>4, <1>7, <1>8 DEF Tally, NextTally
<1>10. w.fromAbove = v.fromAbove /\ w.fromBelow = v.fromBelow
  BY <1>5, <1>9, TurnTallies
<1>11. v.down = TurnsMade(Ascending, k) /\ v.up = TurnsMade(Descending, k)
  <2>1. PassesMade("pass", k) = k /\ "work" \notin HandedPhases
    BY DEF PassesMade, HandedPhases
  <2>2. TurnsMade(Ascending, k) \in Nat /\ TurnsMade(Descending, k) \in Nat
    BY <1>5, TurnsCount
  <2>. QED  BY <1>9, <2>1, <2>2 DEF TallyAt, HandedAt
<1>12. \A q \in Ranks : q # r => NextTally(q) = Tally(q)
  BY <1>7, TallyStays
\* Every wire but one is as it was, and so are the counts of what was taken.
<1>13. ASSUME NEW q \in Uppers, NextTraffic(q) = Traffic(q)
       PROVE  CopiesOf(q, NextTraffic(q), NextTally(q), NextTally(q + 1))
  <2>1. q \in Ranks /\ q + 1 \in Ranks
    BY UpperRanks
  <2>2. \A p \in Ranks : NextTally(p).fromAbove = Tally(p).fromAbove /\ NextTally(p).fromBelow = Tally(p).fromBelow
    BY <1>8, <1>10, <1>12
  <2>. QED  BY <1>13, <2>1, <2>2 DEF FlatData, CopiesRight, CopiesOf
<1>14. CASE Successor(r) = PROC_NULL
  <2>1. wire' = wire
    BY <1>2, <1>14 DEF Send
  <2>. QED  BY <1>2, <1>13, <2>1, SameTraffic, NextCopiesRight
<1>15. CASE Forward(r) /\ r + 1 < P
  <2>1. r \in Uppers /\ r + 1 \in Ranks /\ Send(r, BelowOf(r), "TAG_ORDERED", x) /\ r + 1 # r
    BY <1>2, <1>15, UpperIndex DEF Successor
  <2>2. /\ OnlyWire("TAG_ORDERED", r, r + 1, Append(wire["TAG_ORDERED"][r][r + 1], x))
        /\ \A q \in Uppers : q # r => NextTraffic(q) = Traffic(q)
    BY <1>15, <2>1, SentDown DEF FlatData, TurnControl
  <2>3. PICK s : s = wire["TAG_ORDERED"][r][r + 1]
    OBVIOUS
  <2>4. /\ NextTraffic(r).forward = Append(s, x) /\ Traffic(r).forward = s
        /\ NextTraffic(r).backward = Traffic(r).backward
    <3>1. NextTraffic(r) = [Traffic(r) EXCEPT !.forward = Append(s, x)]
      BY <2>1, <2>2, <2>3, ThisTraffic
    <3>. QED  BY <2>3, <3>1 DEF Traffic
  <2>5. IsSequence(s) /\ Len(s) \in Nat
    <3>1. IsSequence(s)
      BY <2>1, <2>3 DEF FlatData, TurnControl, Wires, Tags
    <3>. QED  BY <3>1, AppendedList
  <2>6. PICK taken : taken = Tally(r + 1).fromAbove
    OBVIOUS
  <2>7. taken \in Int /\ TurnsMade(Ascending, k) = taken + Len(s)
    <3>1. Balanced(v, Tally(r + 1), Traffic(r))
      BY <1>3, <1>8, <2>1, BalancedHere DEF FlatData
    <3>2. Len(s) = v.down - taken
      BY <2>4, <2>6, <3>1 DEF Balanced
    <3>3. taken \in Int
      <4>1. pass[r + 1] \in Nat
        BY <2>1 DEF FlatData, Control, ControlTypes
      <4>. QED  BY <2>6, <4>1, TallyTypes
    <3>4. TurnsMade(Ascending, k) \in Nat
      BY <1>5, TurnsCount
    <3>. QED  BY <1>11, <2>5, <3>2, <3>3, <3>4
  <2>8. CopiesAt(s, r + 1, Ascending, taken) /\ CopiesAt(Traffic(r).backward, r, Descending, v.fromBelow)
    BY <1>8, <2>1, <2>4, <2>6 DEF FlatData, CopiesRight, CopiesOf
  <2>9. PassAt(k + 1) \in Ascending
    BY <1>5, <1>15, OrderedIs DEF Descending
  <2>10. WorkRight(r + 1, k, x, ItemsOf(r + 1, PassAt(k + 1)))
    BY <1>6, <2>1, <2>9, WorkAcross DEF FlatData
  <2>11. CopiesAt(Append(s, x), r + 1, Ascending, taken)
    BY <1>5, <1>6, <2>5, <2>7, <2>8, <2>9, <2>10, CopiesSent
  <2>12. NextTally(r + 1) = Tally(r + 1)
    BY <1>12, <2>1
  <2>13. CopiesOf(r, NextTraffic(r), NextTally(r), NextTally(r + 1))
    BY <1>8, <1>10, <2>4, <2>6, <2>8, <2>11, <2>12 DEF CopiesOf
  <2>14. \A q \in Uppers : CopiesOf(q, NextTraffic(q), NextTally(q), NextTally(q + 1))
    BY <1>13, <2>2, <2>13
  <2>. QED  BY <1>2, <2>14, NextCopiesRight
<1>16. CASE ~ Forward(r) /\ r > 0
  <2>0. PICK a : a = r - 1
    OBVIOUS
  <2>1. a \in Uppers /\ a \in Ranks /\ a + 1 = r /\ a # r /\ Send(r, AboveOf(r), "TAG_ORDERED", x)
    BY <1>2, <1>16, <2>0, UpperIndex DEF Successor
  <2>2. /\ OnlyWire("TAG_ORDERED", r, a, Append(wire["TAG_ORDERED"][r][a], x))
        /\ \A q \in Uppers : q # a => NextTraffic(q) = Traffic(q)
    <3>1. /\ OnlyWire("TAG_ORDERED", r, r - 1, Append(wire["TAG_ORDERED"][r][r - 1], x))
          /\ \A q \in Uppers : q + 1 # r => NextTraffic(q) = Traffic(q)
      BY <1>16, <2>1, SentUp DEF FlatData, TurnControl
    <3>2. \A q \in Uppers : q # a => q + 1 # r
      BY <2>1, RanksAssumption DEF Uppers
    <3>. QED  BY <2>0, <3>1, <3>2
  <2>3. PICK s : s = wire["TAG_ORDERED"][r][a]
    OBVIOUS
  <2>4. /\ NextTraffic(a).backward = Append(s, x) /\ Traffic(a).backward = s
        /\ NextTraffic(a).forward = Traffic(a).forward
    <3>1. OnlyWire("TAG_ORDERED", a + 1, a, Append(s, x))
      BY <2>1, <2>2, <2>3
    <3>2. NextTraffic(a) = [Traffic(a) EXCEPT !.backward = Append(s, x)]
      BY <2>1, <3>1, ThisTraffic
    <3>. QED  BY <2>1, <2>3, <3>2 DEF Traffic
  <2>5. IsSequence(s) /\ Len(s) \in Nat
    <3>1. IsSequence(s)
      BY <2>1, <2>3 DEF FlatData, TurnControl, Wires, Tags
    <3>. QED  BY <3>1, AppendedList
  <2>6. PICK taken : taken = Tally(a).fromBelow
    OBVIOUS
  <2>7. taken \in Int /\ TurnsMade(Descending, k) = taken + Len(s)
    <3>1. Balanced(Tally(a), v, Traffic(a))
      BY <1>3, <1>8, <2>0, <2>1, BalancedHere DEF FlatData
    <3>2. Len(s) = v.up - taken
      BY <2>4, <2>6, <3>1 DEF Balanced
    <3>3. taken \in Int
      <4>1. pass[a] \in Nat
        BY <2>1 DEF FlatData, Control, ControlTypes
      <4>. QED  BY <2>6, <4>1, TallyTypes
    <3>4. TurnsMade(Descending, k) \in Nat
      BY <1>5, TurnsCount
    <3>. QED  BY <1>11, <2>5, <3>2, <3>3, <3>4
  <2>8. CopiesAt(s, a, Descending, taken) /\ CopiesAt(Traffic(a).forward, r, Ascending, v.fromAbove)
    BY <1>8, <2>1, <2>4, <2>6 DEF FlatData, CopiesRight, CopiesOf
  <2>9. PassAt(k + 1) \in Descending
    BY <1>5, <1>16 DEF Descending
  <2>10. WorkRight(a, k, x, ItemsOf(a, PassAt(k + 1)))
    BY <1>6, <2>1, <2>9, WorkAcross DEF FlatData
  <2>11. CopiesAt(Append(s, x), a, Descending, taken)
    BY <1>5, <1>6, <2>5, <2>7, <2>8, <2>9, <2>10, CopiesSent
  <2>12. NextTally(a) = Tally(a)
    BY <1>12, <2>1
  <2>13. CopiesOf(a, NextTraffic(a), NextTally(a), NextTally(a + 1))
    BY <1>8, <1>10, <2>1, <2>4, <2>6, <2>8, <2>11, <2>12 DEF CopiesOf
  <2>14. \A q \in Uppers : CopiesOf(q, NextTraffic(q), NextTally(q), NextTally(q + 1))
    BY <1>13, <2>2, <2>13
  <2>. QED  BY <1>2, <2>14, NextCopiesRight
<1>. QED  BY <1>14, <1>15, <1>16, UpperIndex DEF Successor

\* A rank takes its turn, and with it the copy of the one before it.
LEMMA TakeTurnCopies ==
  ASSUME FlatData, NEW r \in Ranks, TakeTurn(r)
  PROVE  CopiesRight' /\ RanksRight'
<1>1. PICK src, message : src = Predecessor(r) /\ message = Message(r, src, "TAG_ORDERED")
  OBVIOUS
<1>2. run' = run /\ pass' = pass /\ phase[r] = "turn" /\ Steps(r, "work")
  BY DEF TakeTurn, Steps
<1>3. /\ pass[r] \in Nat /\ Kind(r) = PassAt(pass[r] + 1) /\ stage[r] = "pass"
      /\ Ordered(PassAt(pass[r] + 1))
  <2>1. PlaceAt(stage[r], phase[r], pass[r])
    BY DEF FlatData, TurnControl, PlaceRight
  <2>. QED  BY <1>2, <2>1, WorkIsInPass DEF FlatData, PlaceAt, Kind
<1>4. PICK k : k = pass[r]
  OBVIOUS
<1>5. k \in Nat /\ Ordered(PassAt(k + 1)) /\ (Forward(r) <=> PassAt(k + 1) # "backward")
  BY <1>3, <1>4 DEF Forward
<1>6. OthersStay(r) /\ stage'[r] = stage[r] /\ phase'[r] = "work"
  BY <1>2, StepsTo DEF FlatData
<1>7. PICK v, w : v = Tally(r) /\ w = NextTally(r)
  OBVIOUS
<1>8. v = TallyAt("pass", "turn", k) /\ w = TallyAt("pass", "work", k)
  BY <1>2, <1>3, <1>4, <1>6, <1>7 DEF Tally, NextTally
<1>9. /\ Forward(r) => w.fromAbove = v.fromAbove + 1 /\ w.fromBelow = v.fromBelow
      /\ ~ Forward(r) => w.fromAbove = v.fromAbove /\ w.fromBelow = v.fromBelow + 1
  <2>1. PICK u : u = TallyAt("pass", "handed_on", k)
    OBVIOUS
  <2>. QED  BY <1>5, <1>8, <2>1, TurnTallies
<1>10. /\ v.fromAbove = TurnsMade(Ascending, k) /\ v.fromBelow = TurnsMade(Descending, k)
       /\ v.fromAbove \in Int /\ v.fromBelow \in Int
  <2>1. PassesMade("pass", k) = k /\ "turn" \notin TakenPhases
    BY DEF PassesMade, HandedPhases, TakenPhases
  <2>2. TurnsMade(Ascending, k) \in Nat /\ TurnsMade(Descending, k) \in Nat
    BY <1>5, TurnsCount
  <2>. QED  BY <1>8, <2>1, <2>2 DEF TallyAt, TakenAt
<1>11. \A q \in Ranks : q # r => NextTally(q) = Tally(q)
  BY <1>6, TallyStays
\* A pair whose wires are as they were, and for which nothing else was taken.
<1>12. ASSUME NEW q \in Uppers, NextTraffic(q) = Traffic(q),
              q = r => Forward(r), q + 1 = r => ~ Forward(r)
       PROVE  CopiesOf(q, NextTraffic(q), NextTally(q), NextTally(q + 1))
  <2>1. q \in Ranks /\ q + 1 \in Ranks
    BY UpperRanks
  <2>2. NextTally(q).fromBelow = Tally(q).fromBelow
    BY <1>7, <1>9, <1>11, <1>12, <2>1
  <2>3. NextTally(q + 1).fromAbove = Tally(q + 1).fromAbove
    BY <1>7, <1>9, <1>11, <1>12, <2>1
  <2>. QED  BY <1>12, <2>2, <2>3 DEF FlatData, CopiesRight, CopiesOf
<1>13. CASE src = PROC_NULL
  <2>1. wire' = wire
    BY <1>1, <1>13 DEF TakeTurn
  <2>2. (Forward(r) => r = 0) /\ (~ Forward(r) => r = P - 1)
    BY <1>1, <1>13, UpperIndex, RanksAssumption DEF Predecessor, PROC_NULL, Ranks
  <2>3. ASSUME NEW q \in Uppers PROVE (q = r => Forward(r)) /\ (q + 1 = r => ~ Forward(r))
    BY <2>2, RanksAssumption DEF Uppers
  <2>4. CopiesRight'
    <3>1. \A q \in Uppers : CopiesOf(q, NextTraffic(q), NextTally(q), NextTally(q + 1))
      BY <1>12, <2>1, <2>3, SameTraffic
    <3>. QED  BY <1>2, <3>1, NextCopiesRight
  <2>. QED  BY <1>1, <1>13, <2>4, TakeTurnRanks DEF FlatData
<1>14. CASE src # PROC_NULL /\ Forward(r)
  <2>1. /\ Incoming(r, src, "TAG_ORDERED") /\ Receive(r, src, "TAG_ORDERED")
        /\ src = r - 1 /\ r > 0 /\ src \in Ranks /\ src \in Uppers /\ src + 1 = r /\ src # r
    <3>1. Incoming(r, src, "TAG_ORDERED") /\ Receive(r, src, "TAG_ORDERED")
      BY <1>1, <1>14 DEF TakeTurn
    <3>. QED  BY <1>1, <1>14, <3>1, UpperIndex DEF Predecessor
  <2>2. PICK s : s = wire["TAG_ORDERED"][src][r]
    OBVIOUS
  <2>3. /\ OnlyWire("TAG_ORDERED", src, r, Tail(s)) /\ s # <<>> /\ message = s[1]
        /\ \A q \in Uppers : q # src => NextTraffic(q) = Traffic(q)
    <3>1. /\ OnlyWire("TAG_ORDERED", src, r, Tail(s)) /\ s # <<>> /\ message = s[1]
          /\ \A q \in Uppers : q + 1 # r => NextTraffic(q) = Traffic(q)
      BY <1>1, <2>1, <2>2, TakenFromAbove DEF FlatData, TurnControl
    <3>2. \A q \in Uppers : q # src => q + 1 # r
      BY <2>1, RanksAssumption DEF Uppers
    <3>. QED  BY <3>1, <3>2
  <2>4. /\ Traffic(src).forward = s /\ NextTraffic(src).forward = Tail(s)
        /\ NextTraffic(src).backward = Traffic(src).backward
    <3>1. OnlyWire("TAG_ORDERED", src, src + 1, Tail(s))
      BY <2>1, <2>3
    <3>2. NextTraffic(src) = [Traffic(src) EXCEPT !.forward = Tail(s)]
      BY <2>1, <3>1, ThisTraffic
    <3>. QED  BY <2>1, <2>2, <3>2 DEF Traffic
  <2>5. IsSequence(s)
    BY <2>1, <2>2 DEF FlatData, TurnControl, Wires, Tags
  <2>6. CopiesAt(s, r, Ascending, v.fromAbove) /\ CopiesAt(Traffic(src).backward, src, Descending, Tally(src).fromBelow)
    BY <1>7, <2>1, <2>4 DEF FlatData, CopiesRight, CopiesOf
  <2>7. PassAt(k + 1) \in Ascending
    BY <1>5, <1>14, OrderedIs DEF Descending
  <2>8. /\ CopiesAt(Tail(s), r, Ascending, v.fromAbove + 1)
        /\ IsSlot(s[1]) /\ WorkRight(r, k, s[1], ItemsOf(r, PassAt(k + 1)))
    BY <1>5, <1>10, <2>3, <2>5, <2>6, <2>7, CopiesTaken
  <2>9. CopiesOf(src, NextTraffic(src), NextTally(src), NextTally(src + 1))
    <3>1. NextTally(src) = Tally(src) /\ NextTally(src + 1).fromAbove = v.fromAbove + 1
      BY <1>7, <1>9, <1>11, <1>14, <2>1
    <3>. QED  BY <2>1, <2>4, <2>6, <2>8, <3>1 DEF CopiesOf
  <2>10. CopiesRight'
    <3>1. ASSUME NEW q \in Uppers, q # src PROVE q + 1 # r
      BY <2>1, <3>1, RanksAssumption DEF Uppers
    <3>2. \A q \in Uppers : CopiesOf(q, NextTraffic(q), NextTally(q), NextTally(q + 1))
      BY <1>12, <1>14, <2>3, <2>9, <3>1
    <3>. QED  BY <1>2, <3>2, NextCopiesRight
  <2>11. IsSlot(message) /\ WorkRight(r, pass[r], message, ItemsOf(r, Kind(r)))
    BY <1>3, <1>4, <2>3, <2>8
  <2>. QED  BY <1>1, <2>10, <2>11, TakeTurnRanks DEF FlatData
<1>15. CASE src # PROC_NULL /\ ~ Forward(r)
  <2>1. /\ Incoming(r, src, "TAG_ORDERED") /\ Receive(r, src, "TAG_ORDERED")
        /\ src = r + 1 /\ r + 1 < P /\ r \in Uppers /\ r + 1 \in Ranks /\ r + 1 # r
    <3>1. Incoming(r, src, "TAG_ORDERED") /\ Receive(r, src, "TAG_ORDERED")
      BY <1>1, <1>15 DEF TakeTurn
    <3>. QED  BY <1>1, <1>15, <3>1, UpperIndex DEF Predecessor
  <2>2. PICK s : s = wire["TAG_ORDERED"][r + 1][r]
    OBVIOUS
  <2>3. /\ OnlyWire("TAG_ORDERED", r + 1, r, Tail(s)) /\ s # <<>> /\ message = s[1]
        /\ \A q \in Uppers : q # r => NextTraffic(q) = Traffic(q)
    BY <1>1, <2>1, <2>2, TakenFromBelow DEF FlatData, TurnControl
  <2>4. /\ Traffic(r).backward = s /\ NextTraffic(r).backward = Tail(s)
        /\ NextTraffic(r).forward = Traffic(r).forward
    <3>1. NextTraffic(r) = [Traffic(r) EXCEPT !.backward = Tail(s)]
      BY <2>1, <2>3, ThisTraffic
    <3>. QED  BY <2>2, <3>1 DEF Traffic
  <2>5. IsSequence(s)
    BY <2>1, <2>2 DEF FlatData, TurnControl, Wires, Tags
  <2>6. CopiesAt(s, r, Descending, v.fromBelow) /\ CopiesAt(Traffic(r).forward, r + 1, Ascending, Tally(r + 1).fromAbove)
    BY <1>7, <2>1, <2>4 DEF FlatData, CopiesRight, CopiesOf
  <2>7. PassAt(k + 1) \in Descending
    BY <1>5, <1>15 DEF Descending
  <2>8. /\ CopiesAt(Tail(s), r, Descending, v.fromBelow + 1)
        /\ IsSlot(s[1]) /\ WorkRight(r, k, s[1], ItemsOf(r, PassAt(k + 1)))
    BY <1>5, <1>10, <2>3, <2>5, <2>6, <2>7, CopiesTaken
  <2>9. CopiesOf(r, NextTraffic(r), NextTally(r), NextTally(r + 1))
    <3>1. NextTally(r + 1) = Tally(r + 1) /\ NextTally(r).fromBelow = v.fromBelow + 1
      BY <1>7, <1>9, <1>11, <1>15, <2>1
    <3>. QED  BY <2>4, <2>6, <2>8, <3>1 DEF CopiesOf
  <2>10. CopiesRight'
    <3>1. \A q \in Uppers : CopiesOf(q, NextTraffic(q), NextTally(q), NextTally(q + 1))
      BY <1>12, <1>15, <2>3, <2>9
    <3>. QED  BY <1>2, <3>1, NextCopiesRight
  <2>11. IsSlot(message) /\ WorkRight(r, pass[r], message, ItemsOf(r, Kind(r)))
    BY <1>3, <1>4, <2>3, <2>8
  <2>. QED  BY <1>1, <2>10, <2>11, TakeTurnRanks DEF FlatData
<1>. QED  BY <1>13, <1>14, <1>15

\* A step is of one rank, and the others stay where they are.
LEMMA StepOfOne ==
  ASSUME Control, NEW r \in Ranks, Computes(r) \/ LeavesSend(r)
  PROVE  OthersStay(r)
<1>1. ControlTypes
  BY DEF Control
<1>2. run' = run
  BY DEF Computes, LeavesSend, Reset, EnterBarrier, LeaveBarrier, ExchangeHalo, TakeLowerHalo,
     TakeUpperHalo, TakeHalo, Gather, GatherRows, StoreRows, StartPass, TakeTurn, UpdateItem, HandOn,
     LeaveBcast, WorkDone, EndPass, Evaluate, LeaveReduce, Finish, SendHaloDown, HaloDone, HandedOn
<1>3. LeaveReduce(r) => stage[r] \in {"rhs_norm", "initial", "residual"}
  BY HereLegal DEF LeaveReduce, LegalAt, PhasesOf, HaloPhases, Stages
<1>4. \A s, k : Begin(r, s, k) => Goto(r, s, FirstPhase(s, k))
  BY DEF Begin
<1>5. \A k : Loop(r, k) => \E s, p : Goto(r, s, p)
  BY <1>4 DEF Loop
<1>6. UpdateItem(r) \/ (\E p : GotoPhase(r, p)) \/ (\E s, p : Goto(r, s, p))
  <2>1. ASSUME ExchangeHalo(r) \/ Gather(r) \/ HandedOn(r) PROVE \E p : GotoPhase(r, p)
    BY <2>1 DEF ExchangeHalo, Gather, HandedOn
  <2>2. ASSUME LeaveBarrier(r) PROVE \E s, p : Goto(r, s, p)
    BY <1>4, <2>2 DEF LeaveBarrier
  <2>3. ASSUME EndPass(r) PROVE \E s, p : Goto(r, s, p)
    <3>1. \/ Begin(r, "pass", pass[r] + 1) \/ Begin(r, "residual", pass[r] + 1)
          \/ Loop(r, pass[r] + 1)
      BY <2>3 DEF EndPass
    <3>. QED  BY <1>4, <1>5, <3>1
  <2>4. ASSUME LeaveReduce(r) PROVE \E s, p : Goto(r, s, p)
    <3>1. \/ Begin(r, "initial", 0) \/ Goto(r, "barrier_out", "start")
          \/ Loop(r, pass[r]) \/ Begin(r, "synchronise", pass[r])
      BY <1>3, <2>4 DEF LeaveReduce
    <3>. QED  BY <1>4, <1>5, <3>1
  <2>5. ASSUME Reset(r) \/ Finish(r) PROVE \E s, p : Goto(r, s, p)
    BY <2>5 DEF Reset, Finish
  <2>6. ASSUME \/ EnterBarrier(r) \/ TakeLowerHalo(r) \/ TakeUpperHalo(r) \/ GatherRows(r)
               \/ StoreRows(r) \/ StartPass(r) \/ TakeTurn(r) \/ HandOn(r) \/ LeaveBcast(r)
               \/ WorkDone(r) \/ Evaluate(r) \/ SendHaloDown(r) \/ HaloDone(r)
        PROVE  \E p : GotoPhase(r, p)
    BY <2>6 DEF EnterBarrier, TakeLowerHalo, TakeUpperHalo, TakeHalo, GatherRows, StoreRows,
       StartPass, TakeTurn, HandOn, LeaveBcast, WorkDone, Evaluate, SendHaloDown, HaloDone
  <2>. QED  BY <2>1, <2>2, <2>3, <2>4, <2>5, <2>6 DEF Computes, LeavesSend
<1>7. \A q \in Ranks : q # r => stage'[q] = stage[q] /\ phase'[q] = phase[q]
  <2>1. CASE UpdateItem(r)
    BY <2>1 DEF UpdateItem
  <2>2. ASSUME NEW p, GotoPhase(r, p)
        PROVE  \A q \in Ranks : q # r => stage'[q] = stage[q] /\ phase'[q] = phase[q]
    BY <1>1, <2>2, GoneToPhase
  <2>3. ASSUME NEW s, NEW p, Goto(r, s, p)
        PROVE  \A q \in Ranks : q # r => stage'[q] = stage[q] /\ phase'[q] = phase[q]
    BY <1>1, <2>3, GoneTo
  <2>. QED  BY <1>6, <2>1, <2>2, <2>3
<1>8. pass' = pass \/ (\E k : pass' = [pass EXCEPT ![r] = k])
  BY DEF Computes, LeavesSend, Reset, EnterBarrier, LeaveBarrier, ExchangeHalo, TakeLowerHalo,
     TakeUpperHalo, TakeHalo, Gather, GatherRows, StoreRows, StartPass, TakeTurn, UpdateItem, HandOn,
     LeaveBcast, WorkDone, EndPass, Evaluate, LeaveReduce, Finish, SendHaloDown, HaloDone, HandedOn
<1>9. rep' = rep \/ (\E k : rep' = [rep EXCEPT ![r] = k])
  BY DEF Computes, LeavesSend, Reset, EnterBarrier, LeaveBarrier, ExchangeHalo, TakeLowerHalo,
     TakeUpperHalo, TakeHalo, Gather, GatherRows, StoreRows, StartPass, TakeTurn, UpdateItem, HandOn,
     LeaveBcast, WorkDone, EndPass, Evaluate, LeaveReduce, Finish, SendHaloDown, HaloDone, HandedOn
<1>10. outcome' = outcome \/ (\E o : outcome' = [outcome EXCEPT ![r] = o])
  <2>1. ASSUME LeaveReduce(r), stage[r] = "rhs_norm" PROVE outcome' = outcome
    BY <2>1 DEF LeaveReduce
  <2>2. ASSUME LeaveReduce(r), stage[r] = "initial"
        PROVE  \E o : outcome' = [outcome EXCEPT ![r] = o]
    BY <2>2 DEF LeaveReduce
  <2>3. ASSUME LeaveReduce(r), stage[r] = "residual"
        PROVE  \E o : outcome' = [outcome EXCEPT ![r] = o]
    <3>1. PICK x : outcome' = [outcome EXCEPT ![r].reason = x]
      BY <2>3 DEF LeaveReduce
    <3>2. outcome' = [outcome EXCEPT ![r] = [outcome[r] EXCEPT !.reason = x]]
      BY <3>1
    <3>. QED  BY <3>2
  <2>4. ASSUME Finish(r) PROVE \E o : outcome' = [outcome EXCEPT ![r] = o]
    BY <2>4 DEF Finish
  <2>5. ASSUME ~ LeaveReduce(r), ~ Finish(r) PROVE outcome' = outcome
    BY <2>5 DEF Computes, LeavesSend, Reset, EnterBarrier, LeaveBarrier, ExchangeHalo,
       TakeLowerHalo, TakeUpperHalo, TakeHalo, Gather, GatherRows, StoreRows, StartPass, TakeTurn,
       UpdateItem, HandOn, LeaveBcast, WorkDone, EndPass, Evaluate, SendHaloDown, HaloDone, HandedOn
  <2>. QED  BY <1>3, <2>1, <2>2, <2>3, <2>4, <2>5
<1>11. calls' = calls \/ (\E c, d : Enter(r, c, d))
  BY DEF Computes, LeavesSend, Reset, EnterBarrier, LeaveBarrier, ExchangeHalo, TakeLowerHalo,
     TakeUpperHalo, TakeHalo, Gather, GatherRows, StoreRows, StartPass, TakeTurn, UpdateItem, HandOn,
     LeaveBcast, WorkDone, EndPass, Evaluate, LeaveReduce, Finish, SendHaloDown, HaloDone, HandedOn
<1>. QED  BY <1>1, <1>2, <1>7, <1>8, <1>9, <1>10, <1>11, OthersOut

\* The other steps leave every wire as it is.
LEMMA QuietCopies ==
  ASSUME FlatData, TurnControl', Control', NEW r \in Ranks,
         \/ Reset(r) \/ EnterBarrier(r) \/ LeaveBarrier(r) \/ ExchangeHalo(r) \/ Gather(r)
         \/ GatherRows(r) \/ StoreRows(r) \/ StartPass(r) \/ UpdateItem(r) \/ HandedOn(r)
         \/ LeaveBcast(r) \/ WorkDone(r) \/ EndPass(r) \/ Evaluate(r) \/ LeaveReduce(r)
         \/ Finish(r)
  PROVE  CopiesRight'
<1>1. \A q \in Ranks : pass'[q] \in Nat
  <2>1. pass' \in [Ranks -> Nat]
    BY DEF Control, ControlTypes, Ranks
  <2>. QED  BY <2>1
<1>2. wire' = wire
  BY DEF FlatData, Reset, EnterBarrier, LeaveBarrier, ExchangeHalo, Gather, GatherRows, StoreRows,
     StartPass, UpdateItem, HandedOn, LeaveBcast, WorkDone, EndPass, Evaluate, LeaveReduce, Finish
<1>3. OthersStay(r)
  BY StepOfOne DEF FlatData, Computes, LeavesSend
<1>. QED  BY <1>1, <1>2, <1>3, CopiesStay

-----------------------------------------------------------------------------
(***************************************************************************)
(* What the ranks bring to their collectives: their ranges and the rows    *)
(* they have of them, and the copy that is broadcast, at its place on the  *)
(* journey.                                                                *)
(***************************************************************************)

\* What rank q brings to the collective at w.
DataAt(w, q, data) ==
  /\ w.phase = "gather" => data = PointRange(q)
  /\ w.phase = "regather" => data = OwnedRows(q)
  /\ w.phase = "ranges" => FreshOn(data, Own(q), w.pass)
  /\ w.phase = "reranges" => FreshOn(data, OwnBlocks(q), w.pass + 1)
  /\ w.phase = "handed_on" /\ q = TurnEnd(PassAt(w.pass + 1)) =>
       IsSlot(data) /\ FreshOn(data, Units, w.pass + 1)

\* The first n collectives of the ranks are those of this path.
Journey(path, n) == IsPath(path, n) /\ \A q \in Ranks : IsOn(q, path, n)

Brings(path, r, k) == DataAt(path[k], r, calls[r][k].data)

LogsRight ==
  P # 1 => \A n \in Nat : \A path : Journey(path, n) =>
    \A r \in Ranks : \A k \in 1..Entered(r) : Brings(path, r, k)

\* What a rank brings must be does not change while the solve is the same.
LEMMA DataFixed ==
  ASSUME run' = run
  PROVE  \A w, q, data : DataAt(w, q, data)' <=> DataAt(w, q, data)
<1>1. \A x, S, k : FreshOn(x, S, k)' <=> FreshOn(x, S, k)
  BY FreshFixed
<1>2. \A k : PassAt(k)' = PassAt(k)
  BY ScheduleFixed
<1>3. ASSUME NEW w PROVE TurnEnd(PassAt(w.pass + 1))' = TurnEnd(PassAt(w.pass + 1))
  BY <1>2 DEF TurnEnd
<1>4. ASSUME NEW w, NEW q, NEW data PROVE DataAt(w, q, data)' <=> DataAt(w, q, data)
  BY <1>1, <1>3 DEF DataAt, IsSlot, Own, OwnBlocks, PointRange, OwnedRows
<1>. QED  BY <1>4

\* Two paths go the same way as far as both go.
LEMMA PathsAgree ==
  ASSUME NEW path, NEW n \in Nat, IsPath(path, n)', NEW other, NEW m \in Nat, IsPath(other, m)',
         NEW k \in 1..n, k <= m
  PROVE  path[k] = other[k]
<1>. SUFFICES ASSUME path[k] # other[k] PROVE FALSE
  OBVIOUS
<1>. DEFINE S == {j \in Nat : j \in 1..n /\ j <= m /\ path[j] # other[j]}
<1>1. S # {} /\ S \subseteq Nat
  <2>1. k \in S
    OBVIOUS
  <2>. QED  BY <2>1
<1>2. PICK j \in S : \A x \in S : j <= x
  BY <1>1, LeastNatural
<1>3. /\ j \in Nat /\ j \in 1..n /\ j \in 1..m /\ path[j] # other[j]
  BY <1>2
<1>4. path[j] = Due(path, j - 1)' /\ other[j] = Due(other, j - 1)'
  BY <1>3 DEF IsPath
<1>5. CASE j = 1
  BY <1>3, <1>4, <1>5 DEF Due
<1>6. CASE j # 1
  <2>1. j - 1 \in Nat /\ j - 1 \in 1..n /\ j - 1 <= m /\ ~ (j <= j - 1) /\ j - 1 # 0
    BY <1>3, <1>6
  <2>2. path[j - 1] = other[j - 1]
    BY <1>2, <2>1
  <2>. QED  BY <1>3, <1>4, <2>1, <2>2 DEF Due
<1>. QED  BY <1>5, <1>6

\* A step that brings nothing, and one that brings what it ought to.
LEMMA LogsRightGrow ==
  ASSUME Control, Control', LogsRight, NEW r \in Ranks, LogsGrow,
         \A q \in Ranks : q # r => Entered(q)' = Entered(q),
         \/ Entered(r)' = Entered(r)
         \/ /\ Entered(r)' = Entered(r) + 1 /\ Resting(r)'
            /\ DataAt(Inside(r)', r, calls'[r][Entered(r) + 1].data)
  PROVE  LogsRight'
<1>. SUFFICES ASSUME P # 1, NEW n \in Nat, NEW path, Journey(path, n)',
                     NEW q \in Ranks, NEW k \in 1..Entered(q)'
              PROVE  Brings(path, q, k)'
  BY DEF LogsRight, Ranks
<1>1. run' = run
  BY DEF LogsGrow
<1>2. IsPath(path, n)' /\ \A p \in Ranks : IsOn(p, path, n)'
  BY DEF Journey, Ranks
<1>3. PICK m \in Nat : \E old : IsPath(old, m) /\ \A p \in Ranks : IsOn(p, old, m)
  BY DEF Control, OneJourney
<1>4. PICK old : IsPath(old, m) /\ \A p \in Ranks : IsOn(p, old, m)
  BY <1>3
<1>5. IsPath(old, m)'
  BY <1>4, PathKept
<1>6. Entered(q) \in 0..m /\ Entered(q)' \in 0..n
  BY <1>2, <1>4 DEF IsOn
<1>7. PICK w, data : w = path[k] /\ data = calls'[q][k].data
  OBVIOUS
<1>8. DataAt(w, q, data)
  <2>1. CASE k \in 1..Entered(q)
    <3>1. path[k] = old[k]
      <4>1. k \in 1..m /\ k \in 1..n /\ k <= m
        BY <1>6, <2>1
      <4>. QED  BY <1>2, <1>5, <4>1, PathsAgree
    <3>2. Brings(old, q, k)
      BY <1>4, <2>1 DEF LogsRight, Journey
    <3>3. calls'[q][k] = calls[q][k]
      BY <2>1 DEF LogsGrow
    <3>. QED  BY <1>7, <3>1, <3>2, <3>3 DEF Brings
  <2>2. CASE k \notin 1..Entered(q)
    <3>1. q = r /\ Entered(r)' # Entered(r)
      BY <2>2
    <3>2. /\ Entered(r)' = Entered(r) + 1 /\ Resting(r)'
          /\ DataAt(Inside(r)', r, calls'[r][Entered(r) + 1].data)
      BY <3>1
    <3>3. k = Entered(r)'
      BY <1>6, <2>2, <3>1, <3>2
    <3>4. path[k] = Inside(r)'
      BY <1>2, <3>2, <3>3 DEF IsOn, Resting
    <3>. QED  BY <1>7, <3>1, <3>2, <3>3, <3>4
  <2>. QED  BY <2>1, <2>2
<1>9. DataAt(w, q, data)'
  BY <1>1, <1>8, DataFixed
<1>. QED  BY <1>7, <1>9 DEF Brings

\* A step that enters no collective keeps the logs right.
LEMMA LogsRightStay ==
  ASSUME Control, Control', LogsRight, NEW r \in Ranks, OthersStay(r), calls' = calls
  PROVE  LogsRight'
<1>1. LogsGrow
  BY LogsStay DEF Control
<1>2. \A q \in Ranks : Entered(q)' = Entered(q)
  BY DEF Entered
<1>. QED  BY <1>1, <1>2, LogsRightGrow

\* A step that enters one with the right data does as well.
LEMMA LogsRightBring ==
  ASSUME Control, Control', LogsRight, NEW r \in Ranks, OthersStay(r), NEW c, NEW d,
         Enter(r, c, d), phase'[r] \in WaitingPhases,
         P # 1 => DataAt(Inside(r)', r, d)
  PROVE  LogsRight'
<1>1. CASE P = 1
  BY <1>1 DEF LogsRight
<1>2. CASE P # 1
  <2>1. /\ LogsGrow /\ Entered(r)' = Entered(r) + 1
    BY LogsAppended DEF Control
  <2>2. \A q \in Ranks : q # r => Entered(q)' = Entered(q)
    BY DEF Entered, OthersStay
  <2>3. calls'[r][Entered(r) + 1].data = d
    <3>1. calls'[r] = Append(calls[r], [call |-> c, data |-> d]) /\ IsSequence(calls[r])
      BY DEF Enter, Control, ControlTypes
    <3>2. calls'[r][Len(calls[r]) + 1] = [call |-> c, data |-> d]
      BY <3>1, AppendedList
    <3>. QED  BY <3>2 DEF Entered
  <2>4. Resting(r)'
    BY DEF Resting, Waiting
  <2>. QED  BY <1>2, <2>1, <2>2, <2>3, <2>4, LogsRightGrow
<1>. QED  BY <1>1, <1>2

\* The collective a rank in the middle of a solve is in.
LEMMA WithinIs ==
  ASSUME NEW n, NEW s, s # "finished", NEW k, NEW p, NEW o
  PROVE  /\ Within(n, s, k, p, o).pass = k
         /\ p = "ranges" => Within(n, s, k, p, o).phase = "gather"
         /\ p = "reranges" => Within(n, s, k, p, o).phase = "regather"
         /\ p = "rows" => Within(n, s, k, p, o).phase = "ranges"
         /\ p = "rerows" => Within(n, s, k, p, o).phase = "reranges"
         /\ p = "bcast" => Within(n, s, k, p, o).phase = "handed_on"
         /\ p \in {"wait", "reduce"} =>
              Within(n, s, k, p, o).phase \in {"start", "evaluate", "body"}
BY DEF Within, Call

\* The place at which a rank enters, for the gathers and the broadcast.
LEMMA BringsAt ==
  ASSUME Control, NEW r \in Ranks, stage[r] # "finished", NEW p, Steps(r, p) \/ GoesTo(r, p),
         NEW w, w = Inside(r)'
  PROVE  /\ w.pass = pass[r]
         /\ p = "ranges" => w.phase = "gather"
         /\ p = "reranges" => w.phase = "regather"
         /\ p = "rows" => w.phase = "ranges"
         /\ p = "rerows" => w.phase = "reranges"
         /\ p = "bcast" => w.phase = "handed_on"
         /\ p \in {"wait", "reduce"} => w.phase \in {"start", "evaluate", "body"}
<1>1. stage'[r] = stage[r] /\ phase'[r] = p /\ pass'[r] = pass[r]
  BY StepsTo, GoesToPlace DEF Steps
<1>2. PICK n, o : n = rep'[r] /\ o = outcome'[r]
  OBVIOUS
<1>3. w = Within(n, stage[r], pass[r], p, o)
  BY <1>1, <1>2 DEF Inside, Within, Call
<1>. QED  BY <1>3, WithinIs

\* A barrier is brought nothing.
LEMMA EnterBarrierLogs ==
  ASSUME Control, Control', LogsRight, NEW r \in Ranks, EnterBarrier(r)
  PROVE  LogsRight'
<1>1. PICK w : w = Inside(r)'
  OBVIOUS
<1>2. stage[r] # "finished" /\ GoesTo(r, "wait") /\ Enter(r, "Barrier", 0)
  BY DEF EnterBarrier, GoesTo
<1>3. w.phase \in {"start", "evaluate", "body"}
  BY <1>1, <1>2, BringsAt
<1>4. DataAt(w, r, 0)
  BY <1>3 DEF DataAt
<1>5. phase'[r] \in WaitingPhases /\ OthersStay(r)
  BY <1>2, GoesToPlace DEF WaitingPhases
<1>. QED  BY <1>1, <1>2, <1>4, <1>5, LogsRightBring

\* What a reduction is brought is no copy of a unit; PartialsRight speaks of it.
LEMMA EvaluateLogs ==
  ASSUME Control, Control', LogsRight, NEW r \in Ranks, Evaluate(r)
  PROVE  LogsRight'
<1>1. PICK w : w = Inside(r)'
  OBVIOUS
<1>2. PICK d : Enter(r, "Allgather_doubles", d)
  BY DEF Evaluate
<1>3. stage[r] # "finished" /\ GoesTo(r, "reduce")
  BY <1>2 DEF Evaluate, GoesTo
<1>4. w.phase \in {"start", "evaluate", "body"}
  BY <1>1, <1>3, BringsAt
<1>5. DataAt(w, r, d)
  BY <1>4 DEF DataAt
<1>6. phase'[r] \in WaitingPhases /\ OthersStay(r)
  BY <1>3, GoesToPlace DEF WaitingPhases
<1>. QED  BY <1>1, <1>2, <1>5, <1>6, LogsRightBring

\* The range a rank brings is that of its own rows.
LEMMA GatherLogs ==
  ASSUME Control, Control', LogsRight, NEW r \in Ranks, Gather(r)
  PROVE  LogsRight'
<1>1. CASE P = 1
  BY <1>1 DEF LogsRight
<1>2. CASE P # 1
  <2>1. PICK w : w = Inside(r)'
    OBVIOUS
  <2>2. stage[r] # "finished"
    BY HereLegal DEF Gather, LegalAt, PhasesOf
  <2>3. PICK p : /\ p = (IF phase[r] = "gather" THEN "ranges" ELSE "reranges") /\ GoesTo(r, p)
                 /\ Enter(r, "Allgather_ints", GatherRange(r))
    BY <1>2 DEF Gather, GoesTo
  <2>4. DataAt(w, r, GatherRange(r))
    <3>1. w.phase = IF phase[r] = "gather" THEN "gather" ELSE "regather"
      BY <2>1, <2>2, <2>3, BringsAt
    <3>2. phase[r] \in {"gather", "regather"}
      BY DEF Gather
    <3>. QED  BY <3>1, <3>2 DEF DataAt, GatherRange
  <2>5. phase'[r] \in WaitingPhases /\ OthersStay(r)
    BY <2>3, GoesToPlace DEF WaitingPhases
  <2>. QED  BY <2>1, <2>3, <2>4, <2>5, LogsRightBring
<1>. QED  BY <1>1, <1>2

\* A rank has its rows when it brings them.
LEMMA GatherRowsLogs ==
  ASSUME Control, Control', CellTypes, RanksRight, LogsRight, NEW r \in Ranks, GatherRows(r)
  PROVE  LogsRight'
<1>1. PICK w, d : w = Inside(r)' /\ d = [u \in UnitsOf(GatherRange(r)) |-> Mine(r)[u]]
  OBVIOUS
<1>2. /\ stage[r] # "finished" /\ phase[r] \in {"ranges", "reranges"}
      /\ phase[r] = "reranges" => stage[r] = "pass"
  <2>1. phase[r] \in {"ranges", "reranges"} /\ phase[r] \in PhasesOf(stage[r]) /\ stage[r] \in Stages
    BY HereLegal DEF GatherRows, LegalAt
  <2>2. "ranges" \notin PhasesOf("finished") /\ "reranges" \notin PhasesOf("finished")
    BY DEF PhasesOf
  <2>3. \A s \in Stages : "reranges" \in PhasesOf(s) => s = "pass"
    BY DEF PhasesOf, Stages, HaloPhases
  <2>. QED  BY <2>1, <2>2, <2>3
<1>3. PICK p : p = (IF phase[r] = "ranges" THEN "rows" ELSE "rerows") /\ GoesTo(r, p)
  BY DEF GatherRows, GoesTo
<1>4. Enter(r, "Allgatherv", d)
  BY <1>1 DEF GatherRows
<1>5. PICK k : k = pass[r]
  OBVIOUS
<1>6. HoldsRight(r, stage[r], phase[r], k, cell[r], current[r], todo[r]) /\ FitsKind(stage[r], phase[r], k)
  BY <1>5 DEF RanksRight, RankHere, RankAt
<1>7. DataAt(w, r, d)
  <2>1. CASE phase[r] = "ranges"
    <3>1. w.phase = "ranges" /\ w.pass = k
      BY <1>1, <1>2, <1>3, <1>5, <2>1, BringsAt
    <3>2. GatherRange(r) = PointRange(r)
      BY <2>1 DEF GatherRange
    <3>3. FreshOn(Mine(r), Known(r, stage[r], "ranges", k), k)
      BY <1>6, <2>1 DEF HoldsRight, WorkedPhases, TakenPhases, HandedPhases, Mine
    <3>4. Own(r) \subseteq Known(r, stage[r], "ranges", k)
      BY OwnAndSeen DEF Known
    <3>5. FreshOn(d, Own(r), k)
      BY <1>1, <3>2, <3>3, <3>4 DEF FreshOn, Own
    <3>. QED  BY <3>1, <3>5 DEF DataAt
  <2>2. CASE phase[r] = "reranges"
    <3>1. w.phase = "reranges" /\ w.pass = k
      BY <1>1, <1>2, <1>3, <1>5, <2>2, BringsAt
    <3>2. GatherRange(r) = OwnedRows(r)
      BY <2>2 DEF GatherRange
    <3>3. FreshOn(cell[r][TargetAt(k, current[r])], OwnBlocks(r), k + 1)
      BY <1>2, <1>6, <2>2 DEF HoldsRight, WorkedPhases, TakenPhases, HandedPhases, Reached
    <3>4. TargetAt(k, current[r]) = current[r]
      BY <1>6, <2>2 DEF FitsKind, TargetAt
    <3>5. FreshOn(d, OwnBlocks(r), k + 1)
      BY <1>1, <3>2, <3>3, <3>4 DEF FreshOn, OwnBlocks, Mine
    <3>. QED  BY <3>1, <3>5 DEF DataAt
  <2>. QED  BY <1>2, <2>1, <2>2
<1>8. phase'[r] \in WaitingPhases /\ OthersStay(r)
  BY <1>3, GoesToPlace DEF WaitingPhases
<1>. QED  BY <1>1, <1>4, <1>7, <1>8, LogsRightBring

\* The last of a chain has the whole result when it broadcasts it.
LEMMA HandedOnLogs ==
  ASSUME ~ Grid, Control, Control', CellTypes, RanksRight, LogsRight, NEW r \in Ranks, HandedOn(r)
  PROVE  LogsRight'
<1>1. PICK w, d : w = Inside(r)' /\ d = (IF r = LastInTurn(r) THEN Mine(r) ELSE <<>>)
  OBVIOUS
<1>2. stage[r] = "pass" /\ phase[r] = "handed_on" /\ Kind(r) = PassAt(pass[r] + 1)
  BY WorkIsInPass DEF HandedOn, Kind
<1>3. GoesTo(r, "bcast") /\ Enter(r, "Bcast", d)
  BY <1>1 DEF HandedOn, GoesTo
<1>4. PICK k : k = pass[r]
  OBVIOUS
<1>5. HoldsRight(r, "pass", "handed_on", k, cell[r], current[r], todo[r]) /\ FitsKind("pass", "handed_on", k)
  BY <1>2, <1>4 DEF RanksRight, RankHere, RankAt
<1>6. w.phase = "handed_on" /\ w.pass = k
  BY <1>1, <1>2, <1>3, <1>4, BringsAt
<1>7. CASE r = TurnEnd(PassAt(k + 1))
  <2>1. d = Mine(r)
    BY <1>1, <1>2, <1>4, <1>7 DEF LastInTurn, Forward, TurnEnd
  <2>2. FreshOn(cell[r][TargetAt(k, current[r])], Units, k + 1)
    BY <1>5, <1>7 DEF HoldsRight, WorkedPhases, TakenPhases, HandedPhases, Reached
  <2>3. TargetAt(k, current[r]) = current[r]
    <3>1. PassAt(k + 1) # "jacobi"
      BY <1>5 DEF FitsKind, Ascending, Descending
    <3>. QED  BY <3>1 DEF TargetAt
  <2>4. IsSlot(d) /\ FreshOn(d, Units, k + 1)
    BY <2>1, <2>2, <2>3, WorkSlots DEF Mine
  <2>. QED
    <3>1. DataAt(w, r, d)
      BY <1>6, <2>4 DEF DataAt
    <3>2. phase'[r] \in WaitingPhases /\ OthersStay(r)
      BY <1>3, GoesToPlace DEF WaitingPhases
    <3>. QED  BY <1>1, <1>3, <3>1, <3>2, LogsRightBring
<1>8. CASE r # TurnEnd(PassAt(k + 1))
  <2>1. DataAt(w, r, d)
    BY <1>6, <1>8 DEF DataAt
  <2>2. phase'[r] \in WaitingPhases /\ OthersStay(r)
    BY <1>3, GoesToPlace DEF WaitingPhases
  <2>. QED  BY <1>1, <1>3, <2>1, <2>2, LogsRightBring
<1>. QED  BY <1>7, <1>8

\* Whatever else a rank does, it makes no collective.
LEMMA SilentLogs ==
  ASSUME Control, Control', LogsRight, NEW r \in Ranks, Computes(r) \/ LeavesSend(r), calls' = calls
  PROVE  LogsRight'
BY StepOfOne, LogsRightStay

-----------------------------------------------------------------------------
(* What a rank takes from a collective. *)

\* The segments come after the ranges, and after nothing else.
LEMMA RangesComeFirst ==
  ASSUME NEW w, NEW v
  PROVE  /\ After(w, v).phase = "ranges" => w.phase = "gather"
         /\ After(w, v).phase = "reranges" => w.phase = "regather"
<1>. DEFINE Plain == {"start", "evaluate", "body", "handed_on", "gather", "regather", "copy", "end_pass"}
<1>1. \A n, s, k, o : /\ Opening(n, s, k, o).phase \in Plain
                      /\ OpeningLoop(n, k, o).phase \in Plain
                      /\ OpeningAfterPass(n, k, o).phase \in Plain
  <2>1. \A n, s, k, o : Opening(n, s, k, o).phase \in Plain
    BY DEF Opening, Call
  <2>2. \A n, k, o : OpeningLoop(n, k, o).phase \in Plain
    BY <2>1 DEF OpeningLoop
  <2>. QED  BY <2>1, <2>2 DEF OpeningAfterPass
<1>2. \A n, s, k, o : \A p \in {"copy", "body", "end_pass"} : Ahead(n, s, k, p, o).phase \in Plain
  <2>1. \A n, k, o : \A p \in {"copy", "body", "end_pass"} : AheadInPass(n, k, p, o).phase \in Plain
    BY <1>1 DEF AheadInPass, Call
  <2>2. ASSUME NEW n, NEW s, NEW k, NEW o, NEW p \in {"copy", "body", "end_pass"}
        PROVE  Ahead(n, s, k, p, o).phase \in Plain
    <3>1. Opening(n, s, k, o).phase \in Plain /\ AheadInPass(n, k, p, o).phase \in Plain
      BY <1>1, <2>1
    <3>. QED  BY <3>1 DEF Ahead, Call
  <2>. QED  BY <2>2
<1>3. AfterReduce(w, v).phase \in Plain
  BY <1>1 DEF AfterReduce, Call
<1>4. /\ AfterGather(w).phase = "ranges" => w.phase = "gather"
      /\ AfterGather(w).phase = "reranges" => w.phase = "regather"
  <2>1. w.phase = "gather" => AfterGather(w).phase = "ranges"
    BY DEF AfterGather, Call
  <2>2. w.phase = "regather" => AfterGather(w).phase = "reranges"
    BY DEF AfterGather, Call
  <2>3. w.phase \notin {"gather", "regather"} => AfterGather(w).phase \in Plain
    BY <1>2 DEF AfterGather
  <2>. QED  BY <2>1, <2>2, <2>3
<1>5. CASE w.stage \in {"barrier_in", "rhs_norm", "barrier_out"}
  BY <1>1, <1>5 DEF After, Call
<1>6. CASE w.stage \notin {"barrier_in", "rhs_norm", "barrier_out"}
  <2>1. After(w, v) = AfterGather(w) \/ After(w, v) = AfterReduce(w, v)
    BY <1>6 DEF After
  <2>. QED  BY <1>3, <1>4, <2>1
<1>. QED  BY <1>5, <1>6

\* What a rank finds of another in the collective it is in, and in the one before.
LEMMA Finds ==
  ASSUME Control, LogsRight, P # 1, NEW r \in Ranks, Waiting(r), NEW q \in Ranks,
         Entered(q) >= Entered(r)
  PROVE  /\ DataAt(Inside(r), q, calls[q][Entered(r)].data)
         /\ Inside(r).phase = "ranges" => calls[q][Entered(r) - 1].data = PointRange(q)
         /\ Inside(r).phase = "reranges" => calls[q][Entered(r) - 1].data = OwnedRows(q)
<1>1. PICK n \in Nat : \E path : IsPath(path, n) /\ \A p \in Ranks : IsOn(p, path, n)
  BY DEF Control, OneJourney
<1>2. PICK path : IsPath(path, n) /\ \A p \in Ranks : IsOn(p, path, n)
  BY <1>1
<1>3. PICK e, f : e = Entered(r) /\ f = Entered(q)
  OBVIOUS
<1>4. /\ e \in 0..n /\ f \in 0..n /\ e > 0 /\ path[e] = Inside(r) /\ f >= e
  BY <1>2, <1>3 DEF IsOn
<1>5. \A k \in 1..f : DataAt(path[k], q, calls[q][k].data)
  BY <1>2, <1>3 DEF LogsRight, Journey, Brings
<1>6. e \in 1..f
  BY <1>4
<1>7. DataAt(Inside(r), q, calls[q][e].data)
  BY <1>4, <1>5, <1>6
<1>8. ASSUME Inside(r).phase \in {"ranges", "reranges"}
      PROVE  /\ e - 1 \in 1..f
             /\ path[e - 1].phase = IF Inside(r).phase = "ranges" THEN "gather" ELSE "regather"
  <2>1. path[e] = Due(path, e - 1)
    BY <1>2, <1>4 DEF IsPath
  <2>2. e - 1 # 0
    BY <1>4, <1>8, <2>1 DEF Due, Call
  <2>3. path[e] = After(path[e - 1], ResidualAt(e - 1))
    BY <2>1, <2>2 DEF Due
  <2>4. e - 1 \in 1..f
    BY <1>4, <2>2
  <2>. QED  BY <1>4, <1>8, <2>3, <2>4, RangesComeFirst
<1>9. ASSUME Inside(r).phase \in {"ranges", "reranges"}
      PROVE  calls[q][e - 1].data =
               IF Inside(r).phase = "ranges" THEN PointRange(q) ELSE OwnedRows(q)
  <2>1. DataAt(path[e - 1], q, calls[q][e - 1].data)
    BY <1>5, <1>8, <1>9
  <2>. QED  BY <1>8, <1>9, <2>1 DEF DataAt
<1>. QED  BY <1>3, <1>7, <1>9

\* The rows of all ranks land in the copy of each.
LEMMA StoreRowsRanks ==
  ASSUME RanksRight, Control, CellTypes, LogsRight, NEW r \in Ranks, StoreRows(r)
  PROVE  RanksRight'
<1>1. /\ phase[r] \in {"rows", "rerows"} /\ AllEntered(r) /\ StoreUnits(r, Collected(r))
      /\ GotoPhase(r, Gathered(r, phase[r] = "rerows"))
      /\ run' = run /\ pass' = pass /\ current' = current /\ todo' = todo
  BY DEF StoreRows
<1>2. FitsKind(stage[r], phase[r], pass[r]) /\ P # 1 /\ Waiting(r)
  BY <1>1, FitsHere DEF FitsKind, SharedPhases, Waiting, WaitingPhases
<1>3. PICK k, e : k = pass[r] /\ e = Entered(r)
  OBVIOUS
<1>4. PICK has, new : /\ has = [q \in Ranks |-> IF phase[r] = "rows" THEN Own(q) ELSE OwnBlocks(q)]
                      /\ new = IF phase[r] = "rows" THEN k ELSE k + 1
  OBVIOUS
<1>5. PICK w : w = Inside(r)
  OBVIOUS
<1>6. /\ w.pass = k
      /\ w.phase = IF phase[r] = "rows" THEN "ranges" ELSE "reranges"
  <2>1. stage[r] # "finished"
    BY <1>1, HereLegal DEF LegalAt, PhasesOf
  <2>. QED  BY <1>1, <1>3, <1>5, <2>1, WithinIs DEF Inside
<1>7. ASSUME NEW q \in Ranks
      PROVE  UnitsOf(calls[q][e - 1].data) = has[q] /\ FreshOn(Brought(r, q), has[q], new)
  <2>1. Entered(q) >= Entered(r)
    BY <1>1 DEF AllEntered
  <2>2. /\ DataAt(w, q, Brought(r, q))
        /\ calls[q][e - 1].data = IF phase[r] = "rows" THEN PointRange(q) ELSE OwnedRows(q)
    <3>1. /\ DataAt(w, q, Brought(r, q))
          /\ w.phase = "ranges" => calls[q][e - 1].data = PointRange(q)
          /\ w.phase = "reranges" => calls[q][e - 1].data = OwnedRows(q)
      BY <1>2, <1>3, <1>5, <2>1, Finds DEF Brought
    <3>. QED  BY <1>6, <3>1
  <2>3. CASE phase[r] = "rows"
    BY <1>4, <1>6, <2>2, <2>3 DEF DataAt, Own
  <2>4. CASE phase[r] # "rows"
    BY <1>4, <1>6, <2>2, <2>4 DEF DataAt, OwnBlocks
  <2>. QED  BY <2>3, <2>4
<1>8. /\ \A q \in Ranks : has[q] \subseteq Units
      /\ \A u \in Units : \E q \in Ranks : u \in has[q]
  <2>1. CASE phase[r] = "rows"
    BY <1>4, <2>1, OwnAndSeen, OwnsCover
  <2>2. CASE phase[r] # "rows"
    <3>1. ~ Grid /\ PassAt(k + 1) = "block_jacobi"
      BY <1>1, <1>2, <1>3, <2>2 DEF FitsKind
    <3>2. FlatBlocks("block_jacobi")
      BY <3>1 DEF FlatBlocks, ByBlocks
    <3>3. \A q \in Ranks : OwnBlocks(q) \subseteq Units
      BY <3>2, BlocksOwned
    <3>. QED  BY <1>4, <2>2, <3>1, <3>3, OwnBlocksCover
  <2>. QED  BY <2>1, <2>2
<1>9. PICK values : values = Collected(r)
  OBVIOUS
<1>10. /\ DOMAIN values = UNION {has[q] : q \in Ranks \ {r}}
       /\ \A u \in DOMAIN values : Fresh(values[u], new)
  <2>1. values = [u \in UNION {UnitsOf(calls[q][e - 1].data) : q \in Ranks \ {r}} |->
                    Brought(r, CHOOSE q \in Ranks \ {r} : u \in UnitsOf(calls[q][e - 1].data))[u]]
    BY <1>3, <1>9 DEF Collected
  <2>2. {UnitsOf(calls[q][e - 1].data) : q \in Ranks \ {r}} = {has[q] : q \in Ranks \ {r}}
    BY <1>7
  <2>3. DOMAIN values = UNION {has[q] : q \in Ranks \ {r}}
    BY <2>1, <2>2
  <2>4. ASSUME NEW u \in DOMAIN values PROVE Fresh(values[u], new)
    <3>1. PICK q : q = CHOOSE p \in Ranks \ {r} : u \in UnitsOf(calls[p][e - 1].data)
      OBVIOUS
    <3>2. \E p \in Ranks \ {r} : u \in UnitsOf(calls[p][e - 1].data)
      BY <1>7, <2>3, <2>4
    <3>3. q \in Ranks \ {r} /\ u \in UnitsOf(calls[q][e - 1].data)
      BY <3>1, <3>2
    <3>4. values[u] = Brought(r, q)[u]
      BY <2>1, <3>1
    <3>. QED  BY <1>7, <3>3, <3>4 DEF FreshOn
  <2>. QED  BY <2>3, <2>4
<1>11. DOMAIN values \subseteq Units /\ \A u \in Units : u \in DOMAIN values \cup has[r]
  BY <1>8, <1>10
<1>12. PICK p : p = Gathered(r, phase[r] = "rerows")
  OBVIOUS
<1>13. CASE phase[r] = "rows"
  <2>1. p \in {"body", "copy"} /\ new = pass[r] /\ has[r] = Own(r)
    BY <1>3, <1>4, <1>12, <1>13 DEF Gathered
  <2>2. GotoPhase(r, p) /\ StoreUnits(r, values)
    BY <1>1, <1>9, <1>12
  <2>. QED  BY <1>1, <1>10, <1>11, <1>13, <2>1, <2>2, CollectedRanks
<1>14. CASE phase[r] = "rerows"
  <2>1. p = "end_pass" /\ new = pass[r] + 1 /\ has[r] = Reached(r, phase[r], pass[r])
    BY <1>3, <1>4, <1>12, <1>14 DEF Gathered, Reached
  <2>2. GotoPhase(r, p) /\ StoreUnits(r, values)
    BY <1>1, <1>9, <1>12
  <2>. QED  BY <1>1, <1>10, <1>11, <1>14, <2>1, <2>2, CollectedRanks
<1>. QED  BY <1>1, <1>13, <1>14

\* And the copy of the last of a chain.
LEMMA LeaveBcastRanks ==
  ASSUME RanksRight, Control, CellTypes, LogsRight, NEW r \in Ranks, LeaveBcast(r)
  PROVE  RanksRight'
<1>1. /\ phase[r] = "bcast" /\ RootEntered(r, LastInTurn(r)) /\ GotoPhase(r, "end_pass")
      /\ run' = run /\ pass' = pass /\ current' = current /\ todo' = todo
      /\ StoreUnits(r, IF r = LastInTurn(r) THEN <<>> ELSE Brought(r, LastInTurn(r)))
  BY DEF LeaveBcast
<1>2. /\ stage[r] = "pass" /\ ~ Grid /\ P # 1 /\ Waiting(r) /\ pass[r] \in Nat
      /\ Kind(r) = PassAt(pass[r] + 1)
  BY <1>1, FitsHere, WorkIsInPass DEF FitsKind, SharedPhases, Waiting, WaitingPhases, Kind
<1>3. PICK k, root : k = pass[r] /\ root = TurnEnd(PassAt(k + 1))
  OBVIOUS
<1>4. root = LastInTurn(r) /\ root \in Ranks
  BY <1>2, <1>3, RanksAssumption DEF LastInTurn, Forward, TurnEnd, Ranks
<1>5. PICK values : values = (IF r = root THEN <<>> ELSE Brought(r, root))
  OBVIOUS
<1>6. StoreUnits(r, values)
  BY <1>1, <1>4, <1>5
<1>7. PICK has : has = Reached(r, phase[r], pass[r])
  OBVIOUS
<1>8. has = IF r = root THEN Units ELSE {}
  BY <1>1, <1>2, <1>3, <1>7 DEF Reached
<1>9. /\ DOMAIN values \subseteq Units
      /\ \A u \in DOMAIN values : Fresh(values[u], k + 1)
      /\ \A u \in Units : u \in DOMAIN values \cup has
  <2>1. CASE r = root
    <3>1. DOMAIN values = {}
      BY <1>5, <2>1
    <3>. QED  BY <1>8, <2>1, <3>1
  <2>2. CASE r # root
    <3>1. PICK w : w = Inside(r)
      OBVIOUS
    <3>2. w.phase = "handed_on" /\ w.pass = k
      BY <1>1, <1>2, <1>3, <3>1, WithinIs DEF Inside
    <3>3. DataAt(w, root, Brought(r, root))
      <4>1. Entered(root) >= Entered(r)
        BY <1>1, <1>4 DEF RootEntered
      <4>. QED  BY <1>2, <1>4, <3>1, <4>1, Finds DEF Brought
    <3>4. IsSlot(values) /\ FreshOn(values, Units, k + 1)
      BY <1>3, <1>5, <2>2, <3>2, <3>3 DEF DataAt
    <3>5. DOMAIN values = Units
      <4>1. values = [u \in Stored |-> values[u]]
        BY <3>4 DEF IsSlot
      <4>2. DOMAIN values = Stored
        BY <4>1
      <4>. QED  BY <1>2, <4>2, UnitsStored
    <3>. QED  BY <3>4, <3>5 DEF FreshOn
  <2>. QED  BY <2>1, <2>2
<1>. QED  BY <1>1, <1>3, <1>6, <1>7, <1>9, CollectedRanks

-----------------------------------------------------------------------------
(* What a rank judges: its partial residual, and the outcome. *)

PartialAt(list) ==
  \A k \in 1..Len(list) : list[k].call = "Allgather_doubles" => list[k].data # Wrong

PartialsRight == \A r \in Ranks : PartialAt(calls[r])

\* A residual is evaluated over the values of one iterate.
LEMMA PartialIsRight ==
  ASSUME Control, CellTypes, Grid => RingKept, RanksRight, NEW r \in Ranks,
         stage[r] \in {"initial", "residual"}, phase[r] = "body"
  PROVE  Partial(r) # Wrong
<1>1. PICK k, x : k = pass[r] /\ x = Mine(r)
  OBVIOUS
<1>2. k \in Nat /\ run \in Runs /\ current[r] \in Slots
  BY <1>1 DEF Control, ControlTypes, CellTypes, Slots
<1>3. FreshOn(x, Known(r, stage[r], "body", k), k)
  <2>1. HoldsRight(r, stage[r], "body", k, cell[r], current[r], todo[r])
    BY <1>1 DEF RanksRight, RankHere, RankAt
  <2>. QED  BY <1>1, <2>1 DEF HoldsRight, Mine
<1>4. Own(r) \cup Seen(r) \subseteq Known(r, stage[r], "body", k)
  BY OwnAndSeen DEF Known
<1>5. PICK read : read = Own(r) \cup UNION {Coupled({u}) : u \in Own(r)}
  OBVIOUS
<1>6. ASSUME NEW u \in read, u \in Units PROVE u \in Own(r) \cup Seen(r)
  <2>1. CASE Grid
    <3>1. PICK v \in Own(r) : u = v \/ u = v - 1 \/ u = v + 1
      BY <1>5, <1>6, <2>1 DEF Coupled
    <3>2. /\ Own(r) = FirstOwned(r)..LastOwned(r) /\ FirstOwned(r) = UpperHalo(r) + 1
          /\ LowerHalo(r) = LastOwned(r) + 1 /\ UpperHalo(r) \in 0..N /\ LastOwned(r) \in 0..N
      BY RowsOf DEF Own
    <3>3. u \in UpperHalo(r)..LowerHalo(r)
      BY <3>1, <3>2, SweepAssumption
    <3>. QED  BY <1>6, <2>1, <3>1, <3>3 DEF Seen
  <2>2. CASE ~ Grid
    BY <1>6, <2>2 DEF Seen
  <2>. QED  BY <2>1, <2>2
<1>7. ASSUME NEW u \in read, u \notin Units, NEW c \in Colours PROVE x[u][c] = Ring
  <2>1. Own(r) \subseteq Units
    BY OwnAndSeen
  <2>2. Grid
    BY <1>5, <1>7, <2>1 DEF Coupled
  <2>3. u \in Stored
    <3>1. PICK v \in Own(r) : u = v - 1 \/ u = v + 1
      BY <1>5, <1>7, <2>1, <2>2 DEF Coupled
    <3>. QED  BY <2>1, <2>2, <3>1, SweepAssumption DEF Stored, Units
  <2>4. RingSlot(cell[r][current[r]])
    BY <1>2, <2>2 DEF RingKept
  <2>. QED  BY <1>1, <1>7, <2>3, <2>4 DEF RingSlot, RingRow, Mine
<1>8. \A u \in read : \A c \in Colours :
        Mine(r)[u][c] = IF u \in Units THEN Latest(c, pass[r]) ELSE Ring
  BY <1>1, <1>3, <1>4, <1>6, <1>7 DEF FreshOn, Fresh
<1>9. Partial(r) = Iterations(pass[r])
  BY <1>5, <1>8 DEF Partial, Own
<1>10. Iterations(pass[r]) \in Nat
  <2>1. PassesPerIteration \in {1, 2}
    BY <1>2, PassCount
  <2>. QED  BY <1>1, <1>2, <2>1 DEF Iterations
<1>. QED  BY <1>9, <1>10 DEF Wrong

\* A step that enters no collective keeps the partials right.
LEMMA PartialsStay ==
  ASSUME PartialsRight, calls' = calls
  PROVE  PartialsRight'
BY DEF PartialsRight, PartialAt, Ranks, Wrong

\* A step that enters one with a partial that is right does as well.
LEMMA PartialsBring ==
  ASSUME PartialsRight, ControlTypes, NEW r \in Ranks, NEW c, NEW d, Enter(r, c, d),
         c = "Allgather_doubles" => d # Wrong
  PROVE  PartialsRight'
<1>1. IsSequence(calls[r])
  BY DEF ControlTypes
<1>2. PICK s, e : s = calls[r] /\ e = [call |-> c, data |-> d]
  OBVIOUS
<1>3. calls'[r] = Append(s, e) /\ \A q \in Ranks : q # r => calls'[q] = calls[q]
  BY <1>2 DEF Enter, ControlTypes
<1>4. PartialAt(Append(s, e))
  <2>1. /\ Len(s) \in Nat /\ Len(Append(s, e)) = Len(s) + 1
        /\ \A k \in 1..Len(s) : Append(s, e)[k] = s[k]
        /\ Append(s, e)[Len(s) + 1] = e
    BY <1>1, <1>2, AppendedList
  <2>2. PartialAt(s)
    BY <1>2 DEF PartialsRight
  <2>3. ASSUME NEW k \in 1..(Len(s) + 1), Append(s, e)[k].call = "Allgather_doubles"
        PROVE  Append(s, e)[k].data # Wrong
    <3>1. CASE k = Len(s) + 1
      BY <1>2, <2>1, <2>3, <3>1
    <3>2. CASE k # Len(s) + 1
      <4>1. k \in 1..Len(s)
        BY <2>1, <3>2
      <4>. QED  BY <2>1, <2>2, <2>3, <4>1 DEF PartialAt
    <3>. QED  BY <3>1, <3>2
  <2>. QED  BY <2>1, <2>3 DEF PartialAt
<1>5. \A q \in Ranks : PartialAt(calls'[q])
  <2>1. ASSUME NEW q \in Ranks PROVE PartialAt(calls'[q])
    <3>1. CASE q = r
      BY <1>3, <1>4, <3>1
    <3>2. CASE q # r
      BY <1>3, <3>2 DEF PartialsRight
    <3>. QED  BY <3>1, <3>2
  <2>. QED  BY <2>1
<1>. QED  BY <1>5 DEF PartialsRight, PartialAt, Ranks, Wrong

\* So every step does.
LEMMA PartialsKept ==
  ASSUME PartialsRight, Control, CellTypes, Grid => RingKept, RanksRight, NEW r \in Ranks,
         Computes(r) \/ LeavesSend(r)
  PROVE  PartialsRight'
<1>1. CASE Evaluate(r)
  <2>1. PICK d : d = IF stage[r] = "rhs_norm" THEN 0 ELSE Partial(r)
    OBVIOUS
  <2>2. Enter(r, "Allgather_doubles", d)
    BY <1>1, <2>1 DEF Evaluate
  <2>3. d # Wrong
    <3>1. CASE stage[r] = "rhs_norm"
      BY <2>1, <3>1 DEF Wrong
    <3>2. CASE stage[r] # "rhs_norm"
      BY <1>1, <2>1, <3>2, PartialIsRight DEF Evaluate
    <3>. QED  BY <3>1, <3>2
  <2>. QED  BY <2>2, <2>3, PartialsBring DEF Control
<1>2. CASE ~ Evaluate(r)
  <2>1. calls' = calls \/ \E c, d : c # "Allgather_doubles" /\ Enter(r, c, d)
    BY <1>2 DEF Computes, LeavesSend, Reset, EnterBarrier, LeaveBarrier, ExchangeHalo, TakeLowerHalo,
       TakeUpperHalo, TakeHalo, Gather, GatherRows, StoreRows, StartPass, TakeTurn, UpdateItem, HandOn,
       LeaveBcast, WorkDone, EndPass, LeaveReduce, Finish, SendHaloDown, HaloDone, HandedOn
  <2>. QED  BY <2>1, PartialsStay, PartialsBring DEF Control
<1>. QED  BY <1>1, <1>2

OutcomeAt(o) == o.iterations \in 0..run.max_iterations /\ o.reason \in Reasons
OutcomesRight == \A r \in Ranks : OutcomeAt(outcome[r])

\* One rank's new outcome leaves those of the others.
LEMMA OneOutcome ==
  ASSUME OutcomesRight, ControlTypes, NEW r \in Ranks, NEW o, run' = run,
         outcome' = [outcome EXCEPT ![r] = o], OutcomeAt(o)
  PROVE  OutcomesRight'
<1>1. \A q \in Ranks : OutcomeAt(outcome'[q])
  <2>1. outcome = [q \in Ranks |-> outcome[q]]
    BY DEF ControlTypes
  <2>. QED  BY <2>1 DEF OutcomesRight
<1>. QED  BY <1>1 DEF OutcomesRight, OutcomeAt, Ranks, Reasons

\* No rank counts more iterations than its cap.
LEMMA OutcomesKept ==
  ASSUME OutcomesRight, Control, NEW r \in Ranks, Computes(r) \/ LeavesSend(r)
  PROVE  OutcomesRight'
<1>1. run' = run
  BY StepOfOne DEF OthersStay
<1>2. ControlTypes /\ run.max_iterations \in Nat /\ PassesPerIteration \in {1, 2}
  BY PassCount DEF Control, ControlTypes
<1>3. CASE outcome' = outcome
  BY <1>1, <1>3 DEF OutcomesRight, OutcomeAt, Ranks, Reasons
<1>4. CASE LeaveReduce(r)
  <2>1. stage[r] \in {"rhs_norm", "initial", "residual"}
    BY <1>4, HereLegal DEF LeaveReduce, LegalAt, PhasesOf, HaloPhases, Stages
  <2>2. CASE stage[r] = "rhs_norm"
    BY <1>3, <1>4, <2>2 DEF LeaveReduce
  <2>3. CASE stage[r] = "initial"
    <3>1. PICK o : /\ o = [iterations |-> 0, reason |-> IF Converged(r) THEN "Converged" ELSE "none"]
                   /\ outcome' = [outcome EXCEPT ![r] = o]
      BY <1>4, <2>3 DEF LeaveReduce
    <3>2. OutcomeAt(o)
      BY <1>2, <3>1 DEF OutcomeAt, Reasons
    <3>. QED  BY <1>1, <1>2, <3>1, <3>2, OneOutcome
  <2>4. CASE stage[r] = "residual"
    <3>1. PICK reason \in Reasons : outcome' = [outcome EXCEPT ![r].reason = reason]
      <4>1. PICK reason : /\ reason = CASE Residual(r) = "not_finite" -> "Diverged"
                                        [] Converged(r) -> "Converged"
                                        [] OTHER -> "none"
                          /\ outcome' = [outcome EXCEPT ![r].reason = reason]
        BY <1>4, <2>4 DEF LeaveReduce
      <4>2. reason \in Reasons
        BY <4>1 DEF Reasons
      <4>. QED  BY <4>1, <4>2
    <3>2. PICK o : o = [outcome[r] EXCEPT !.reason = reason]
      OBVIOUS
    <3>3. outcome' = [outcome EXCEPT ![r] = o]
      BY <3>1, <3>2
    <3>4. OutcomeAt(o)
      BY <3>1, <3>2 DEF OutcomesRight, OutcomeAt
    <3>. QED  BY <1>1, <1>2, <3>3, <3>4, OneOutcome
  <2>. QED  BY <2>1, <2>2, <2>3, <2>4
<1>5. CASE Finish(r)
  <2>1. PICK o : /\ o = [iterations |-> Iterations(pass[r]), reason |-> FinalReason(outcome[r].reason)]
                 /\ outcome' = [outcome EXCEPT ![r] = o]
    BY <1>5 DEF Finish
  <2>2. Iterations(pass[r]) \in 0..run.max_iterations
    <3>1. PICK k, m, d : k = pass[r] /\ m = run.max_iterations /\ d = PassesPerIteration
      OBVIOUS
    <3>2. k \in 0..(m * d)
      BY <3>1, HereLegal DEF LegalAt, Last
    <3>3. k \div d \in 0..m
      <4>1. CASE d = 1
        BY <1>2, <3>1, <3>2, <4>1
      <4>2. CASE d = 2
        BY <1>2, <3>1, <3>2, <4>2
      <4>. QED  BY <1>2, <3>1, <4>1, <4>2
    <3>. QED  BY <3>1, <3>3 DEF Iterations
  <2>3. FinalReason(outcome[r].reason) \in Reasons
    BY DEF FinalReason, OutcomesRight, OutcomeAt, Reasons
  <2>4. OutcomeAt(o)
    BY <2>1, <2>2, <2>3 DEF OutcomeAt
  <2>. QED  BY <1>1, <1>2, <2>1, <2>4, OneOutcome
<1>6. LeaveReduce(r) \/ Finish(r) \/ outcome' = outcome
  BY DEF Computes, LeavesSend, Reset, EnterBarrier, LeaveBarrier, ExchangeHalo, TakeLowerHalo,
     TakeUpperHalo, TakeHalo, Gather, GatherRows, StoreRows, StartPass, TakeTurn, UpdateItem, HandOn,
     LeaveBcast, WorkDone, EndPass, Evaluate, SendHaloDown, HaloDone, HandedOn
<1>. QED  BY <1>3, <1>4, <1>5, <1>6

-----------------------------------------------------------------------------
(***************************************************************************)
(* All of it together: what the ranks hold, what is under way, what they   *)
(* have brought to their collectives and what they judge.                  *)
(***************************************************************************)

DataControl ==
  /\ DataTypes /\ (Grid \/ TurnControl)
  /\ RanksRight /\ LogsRight /\ PartialsRight /\ OutcomesRight
  /\ Grid => RingControl /\ TrafficRight
  /\ Grid \/ CopiesRight

\* What the lemmas about the grid and about the dense problem start from.
LEMMA DataViews ==
  ASSUME DataControl
  PROVE  /\ Control /\ CellTypes /\ RanksRight /\ (Grid => RingKept)
         /\ Grid => GridData
         /\ ~ Grid => FlatData
BY DEF DataControl, DataTypes, GridData, FlatData, RingControl

\* Whatever step a rank makes, all ranks hold what they must.
LEMMA RanksKept ==
  ASSUME DataControl, NEW r \in Ranks, Computes(r) \/ LeavesSend(r)
  PROVE  RanksRight'
<1>1. /\ Control /\ CellTypes /\ RanksRight /\ (Grid => RingKept)
      /\ (Grid => GridData) /\ (~ Grid => FlatData) /\ LogsRight
  BY DataViews DEF DataControl
<1>2. CASE TakeLowerHalo(r)
  <2>1. Grid
    BY <1>1, <1>2, HaloIsOnGrid DEF TakeLowerHalo, HaloPhases
  <2>. QED  BY <1>1, <1>2, <2>1, TakeLowerHaloTraffic
<1>3. CASE TakeUpperHalo(r)
  <2>1. Grid
    BY <1>1, <1>3, HaloIsOnGrid DEF TakeUpperHalo, HaloPhases
  <2>. QED  BY <1>1, <1>3, <2>1, TakeUpperHaloTraffic
<1>4. CASE TakeTurn(r)
  BY <1>1, <1>4, TakeTurnTraffic, TakeTurnCopies
<1>5. CASE Reset(r) \/ EnterBarrier(r) \/ LeaveBarrier(r)
  BY <1>1, <1>5, ResetRanks, EnterBarrierRanks, LeaveBarrierRanks
<1>6. CASE ExchangeHalo(r) \/ SendHaloDown(r) \/ HaloDone(r)
  BY <1>1, <1>6, ExchangeHaloRanks, HaloSentRanks
<1>7. CASE Gather(r) \/ GatherRows(r) \/ StoreRows(r) \/ LeaveBcast(r)
  BY <1>1, <1>7, GatherRanks, StoreRowsRanks, LeaveBcastRanks
<1>8. CASE StartPass(r) \/ UpdateItem(r) \/ HandOn(r) \/ WorkDone(r) \/ HandedOn(r) \/ EndPass(r)
  BY <1>1, <1>8, StartPassRanks, UpdateItemRanks, HandOnRanks, WorkDoneRanks, HandedOnRanks,
     EndPassRanks
<1>9. CASE Evaluate(r) \/ LeaveReduce(r) \/ Finish(r)
  BY <1>1, <1>9, EvaluateRanks, LeaveReduceRanks, FinishRanks
<1>. QED  BY <1>2, <1>3, <1>4, <1>5, <1>6, <1>7, <1>8, <1>9 DEF Computes, LeavesSend

\* And what is under way is right,
LEMMA WiresKept ==
  ASSUME DataControl, Control', Grid \/ TurnControl', NEW r \in Ranks, Computes(r) \/ LeavesSend(r)
  PROVE  (Grid => TrafficRight') /\ (Grid \/ CopiesRight')
<1>1. Control /\ (Grid => GridData) /\ (~ Grid => FlatData)
  BY DataViews
<1>2. CASE Grid
  <2>1. GridData
    BY <1>1, <1>2
  <2>2. CASE \/ Reset(r) \/ EnterBarrier(r) \/ LeaveBarrier(r) \/ HaloDone(r) \/ Gather(r)
             \/ GatherRows(r) \/ StoreRows(r) \/ StartPass(r) \/ UpdateItem(r) \/ HandedOn(r)
             \/ LeaveBcast(r) \/ WorkDone(r) \/ EndPass(r) \/ Evaluate(r) \/ LeaveReduce(r)
             \/ Finish(r)
    BY <1>2, <2>1, <2>2, QuietTraffic
  <2>3. CASE \/ ExchangeHalo(r) \/ SendHaloDown(r) \/ TakeLowerHalo(r) \/ TakeUpperHalo(r)
             \/ TakeTurn(r) \/ HandOn(r)
    BY <1>2, <2>1, <2>3, ExchangeHaloTraffic, SendHaloDownTraffic, TakeLowerHaloTraffic,
       TakeUpperHaloTraffic, TakeTurnTraffic, HandOnTraffic
  <2>. QED  BY <2>2, <2>3 DEF Computes, LeavesSend
<1>3. CASE ~ Grid
  <2>1. FlatData /\ TurnControl'
    BY <1>1, <1>3
  <2>2. ~ TakeLowerHalo(r) /\ ~ TakeUpperHalo(r) /\ ~ SendHaloDown(r) /\ ~ HaloDone(r)
    BY <1>1, <1>3, HaloIsOnGrid DEF TakeLowerHalo, TakeUpperHalo, SendHaloDown, HaloDone, HaloPhases
  <2>3. CASE TakeTurn(r) \/ HandOn(r)
    BY <1>3, <2>1, <2>3, TakeTurnCopies, HandOnCopies
  <2>4. CASE \/ Reset(r) \/ EnterBarrier(r) \/ LeaveBarrier(r) \/ ExchangeHalo(r) \/ Gather(r)
             \/ GatherRows(r) \/ StoreRows(r) \/ StartPass(r) \/ UpdateItem(r) \/ HandedOn(r)
             \/ LeaveBcast(r) \/ WorkDone(r) \/ EndPass(r) \/ Evaluate(r) \/ LeaveReduce(r)
             \/ Finish(r)
    BY <1>3, <2>1, <2>4, QuietCopies
  <2>. QED  BY <2>2, <2>3, <2>4 DEF Computes, LeavesSend
<1>. QED  BY <1>2, <1>3

\* and what is brought to the collectives.
LEMMA LogsKept ==
  ASSUME DataControl, Control', NEW r \in Ranks, Computes(r) \/ LeavesSend(r)
  PROVE  LogsRight'
<1>1. Control /\ CellTypes /\ RanksRight /\ LogsRight
  BY DataViews DEF DataControl
<1>2. CASE calls' = calls
  BY <1>1, <1>2, SilentLogs
<1>3. CASE EnterBarrier(r) \/ Evaluate(r) \/ Gather(r) \/ GatherRows(r)
  BY <1>1, <1>3, EnterBarrierLogs, EvaluateLogs, GatherLogs, GatherRowsLogs
<1>4. CASE HandedOn(r) /\ ~ Grid
  BY <1>1, <1>4, HandedOnLogs
<1>5. \/ calls' = calls \/ EnterBarrier(r) \/ Evaluate(r) \/ Gather(r) \/ GatherRows(r)
      \/ HandedOn(r) /\ ~ Grid
  BY DEF Computes, LeavesSend, Reset, LeaveBarrier, ExchangeHalo, TakeLowerHalo, TakeUpperHalo,
     TakeHalo, StoreRows, StartPass, TakeTurn, UpdateItem, HandOn, LeaveBcast, WorkDone, EndPass,
     LeaveReduce, Finish, SendHaloDown, HaloDone, HandedOn
<1>. QED  BY <1>2, <1>3, <1>4, <1>5

\* Nothing changes where no rank moves.
LEMMA DataStays ==
  ASSUME DataControl, Control', UNCHANGED vars
  PROVE  /\ RanksRight' /\ LogsRight' /\ PartialsRight' /\ OutcomesRight'
         /\ (Grid => TrafficRight') /\ (Grid \/ CopiesRight')
<1>1. Control /\ RanksRight /\ LogsRight /\ PartialsRight /\ OutcomesRight
  BY DataViews DEF DataControl
<1>2. /\ run' = run /\ stage' = stage /\ phase' = phase /\ pass' = pass /\ rep' = rep
      /\ outcome' = outcome /\ calls' = calls /\ wire' = wire
      /\ cell' = cell /\ current' = current /\ todo' = todo
  BY DEF vars
<1>3. 0 \in Ranks
  BY RanksAssumption DEF Ranks
<1>4. OthersStay(0)
  BY <1>2 DEF OthersStay
<1>5. RanksRight'
  <2>1. PICK r \in Ranks : r = 0
    BY <1>3
  <2>2. PICK s, p, k, cells, slot, left :
          /\ s = stage[r] /\ p = phase[r] /\ k = pass[r]
          /\ cells = cell[r] /\ slot = current[r] /\ left = todo[r]
    OBVIOUS
  <2>3. OneMoves(r, s, p, k, cells, slot, left)
    BY <1>2, <2>2 DEF OneMoves
  <2>4. RankAt(r, s, p, k, cells, slot, left)
    BY <1>1, <2>2 DEF RanksRight, RankHere
  <2>. QED  BY <1>1, <2>3, <2>4, OneMoveKeeps
<1>6. LogsRight'
  BY <1>1, <1>2, <1>3, <1>4, LogsRightStay
<1>7. PartialsRight' /\ OutcomesRight'
  BY <1>1, <1>2, PartialsStay DEF OutcomesRight, OutcomeAt, Ranks, Reasons
<1>8. \A q : NextTraffic(q) = Traffic(q)
  BY <1>2, SameTraffic
<1>9. Grid => TrafficRight'
  <2>1. ASSUME Grid PROVE \A q \in Uppers : TrafficAt(q, NextTraffic(q), pass'[q], pass'[q + 1])
    BY <1>2, <1>8, <2>1 DEF DataControl, TrafficRight
  <2>. QED  BY <1>2, <2>1, NextTrafficRight
<1>10. Grid \/ CopiesRight'
  <2>1. \A q : NextTally(q) = Tally(q)
    BY <1>2 DEF NextTally, Tally
  <2>2. ASSUME ~ Grid
        PROVE  \A q \in Uppers : CopiesOf(q, NextTraffic(q), NextTally(q), NextTally(q + 1))
    BY <1>8, <2>1, <2>2 DEF DataControl, CopiesRight
  <2>. QED  BY <1>2, <2>2, NextCopiesRight
<1>. QED  BY <1>5, <1>6, <1>7, <1>9, <1>10

\* The whole is inductive.
LEMMA DataControlKept == DataControl /\ [Next]_vars => DataControl'
<1>. SUFFICES ASSUME DataControl, [Next]_vars PROVE DataControl'
  OBVIOUS
<1>1. DataTypes' /\ Control'
  BY DataTypesKept DEF DataControl, DataTypes
<1>2. Grid \/ TurnControl'
  BY TurnControlKept DEF DataControl, DataTypes
<1>3. Grid => RingControl'
  BY RingControlKept DEF DataControl
<1>4. /\ RanksRight' /\ LogsRight' /\ PartialsRight' /\ OutcomesRight'
      /\ (Grid => TrafficRight') /\ (Grid \/ CopiesRight')
  <2>1. CASE UNCHANGED vars
    BY <1>1, <2>1, DataStays
  <2>2. ASSUME NEW r \in Ranks, Computes(r) \/ LeavesSend(r)
        PROVE  /\ RanksRight' /\ LogsRight' /\ PartialsRight' /\ OutcomesRight'
               /\ (Grid => TrafficRight') /\ (Grid \/ CopiesRight')
    <3>1. Control /\ CellTypes /\ RanksRight /\ (Grid => RingKept) /\ PartialsRight /\ OutcomesRight
      BY DataViews DEF DataControl
    <3>2. PartialsRight' /\ OutcomesRight'
      BY <2>2, <3>1, PartialsKept, OutcomesKept
    <3>. QED  BY <1>1, <1>2, <2>2, <3>2, RanksKept, WiresKept, LogsKept
  <2>. QED  BY <2>1, <2>2 DEF Next, AllFinished
<1>5. Grid' <=> Grid
  BY DEF Grid
<1>. QED  BY <1>1, <1>2, <1>3, <1>4, <1>5 DEF DataControl

\* A first solve starts with the initial state everywhere and nothing under way.
LEMMA DataControlStarts == Init => DataControl
<1>. SUFFICES ASSUME Init PROVE DataControl
  OBVIOUS
<1>1. DataTypes /\ TurnControl /\ RingControl
  BY DataTypesStart, TurnControlStarts, RingControlStarts
<1>2. ASSUME NEW r \in Ranks PROVE RankHere(r)
  <2>1. /\ stage[r] = "reset" /\ phase[r] = "start" /\ pass[r] = 0 /\ current[r] = "iterate"
        /\ todo[r] = {} /\ \A s \in Slots : cell[r][s] = InitialState
    BY DEF Init
  <2>2. PICK cells : cells = cell[r] /\ \A s \in Slots : cells[s] = InitialState
    BY <2>1
  <2>3. "iterate" \in Slots
    BY DEF Slots
  <2>4. FitsKind("reset", "start", 0) /\ LeftAt(r, "start", 0, {})
    BY DEF FitsKind, LeftAt, SharedPhases, HaloPhases
  <2>5. SlotsRight("reset", 0, cells, "iterate")
    BY DEF SlotsRight
  <2>6. HoldsRight(r, "reset", "start", 0, cells, "iterate", {})
    <3>1. FreshOn(InitialState, Units, 0)
      BY InitiallyFresh
    <3>2. Known(r, "reset", "start", 0) = Units
      BY DEF Known
    <3>. QED  BY <2>2, <2>3, <3>1, <3>2 DEF HoldsRight
  <2>7. CellsBounded("reset", "start", 0, cells)
    BY <2>2, InitiallyFresh DEF CellsBounded, BoundAt
  <2>8. RankAt(r, "reset", "start", 0, cells, "iterate", {})
    BY <2>4, <2>5, <2>6, <2>7 DEF RankAt
  <2>. QED  BY <2>1, <2>2, <2>8 DEF RankHere
<1>3. \A r \in Ranks : calls[r] = <<>>
  BY DEF Init, MpiInit
<1>4. LogsRight /\ PartialsRight
  <2>1. \A r \in Ranks : Entered(r) = 0
    BY <1>3 DEF Entered
  <2>. QED  BY <1>3, <2>1 DEF LogsRight, PartialsRight, PartialAt
<1>5. OutcomesRight
  <2>1. run.max_iterations \in Nat
    BY RunsAssumption DEF Init
  <2>. QED  BY <2>1 DEF Init, NotSolved, OutcomesRight, OutcomeAt, Reasons
<1>6. ASSUME NEW r \in Uppers
      PROVE  /\ Traffic(r).up = <<>> /\ Traffic(r).down = <<>>
             /\ Traffic(r).forward = <<>> /\ Traffic(r).backward = <<>>
  BY UpperRanks DEF Init, MpiInit, Traffic, Tags
<1>7. TrafficRight
  BY <1>6, NoRows DEF TrafficRight, TrafficAt
<1>8. CopiesRight
  BY <1>6, NoCopies DEF CopiesRight, CopiesOf
<1>. QED  BY <1>1, <1>2, <1>4, <1>5, <1>7, <1>8 DEF DataControl, RanksRight

-----------------------------------------------------------------------------
(* What it is all for. *)

\* The types are part of it.
LEMMA DataTypesHold ==
  ASSUME DataControl
  PROVE  TypeOK
<1>1. /\ ControlTypes /\ CellTypes /\ RanksRight /\ OutcomesRight
      /\ \A r \in Ranks : Legal(r)
  BY DataViews DEF DataControl, Control
<1>2. /\ stage \in [Ranks -> Stages] /\ phase \in [Ranks -> Phases]
      /\ current \in [Ranks -> {"iterate", "work"}]
      /\ pass \in [Ranks -> Nat] /\ rep \in [Ranks -> Nat]
  BY <1>1 DEF ControlTypes, CellTypes
<1>3. \A r \in Ranks : pass[r] \in 0..Last /\ rep[r] \in 0..Repetitions
  BY <1>1 DEF Legal, LegalAt
<1>4. pass \in [Ranks -> 0..(run.max_iterations * PassesPerIteration)]
  BY <1>2, <1>3 DEF Last
<1>5. rep \in [Ranks -> 0..Repetitions]
  BY <1>2, <1>3
<1>6. ASSUME NEW r \in Ranks
      PROVE  /\ outcome[r].iterations \in 0..run.max_iterations
             /\ outcome[r].reason \in Reasons
             /\ todo[r] \subseteq Units
  BY <1>1 DEF OutcomesRight, OutcomeAt, CellTypes
<1>7. ASSUME NEW r \in Ranks, NEW slot \in Slots, NEW u \in Stored, NEW c \in Colours
      PROVE  cell[r][slot][u][c] \in {Ring, Wrong} \cup 0..(pass[r] + 1)
  <2>1. PICK k, b : k = pass[r] /\ b = BoundAt(stage[r], phase[r], k)
    OBVIOUS
  <2>2. cell[r][slot][u][c] \in {Ring} \cup 0..b
    BY <1>1, <2>1 DEF RanksRight, RankHere, RankAt, CellsBounded, Bounded
  <2>3. k \in Nat /\ (b = k \/ b = k + 1)
    BY <1>2, <2>1 DEF BoundAt
  <2>. QED  BY <2>1, <2>2, <2>3
<1>. QED  BY <1>2, <1>4, <1>5, <1>6, <1>7 DEF TypeOK

\* No value it allows is Wrong.
LEMMA NothingIsStale ==
  ASSUME DataControl
  PROVE  NoStaleRead
<1>1. ControlTypes /\ RanksRight /\ PartialsRight
  BY DEF DataControl, DataTypes, Control
<1>2. ASSUME NEW r \in Ranks, NEW slot \in Slots, NEW u \in Stored, NEW c \in Colours
      PROVE  cell[r][slot][u][c] # Wrong
  <2>1. PICK k, b : k = pass[r] /\ b = BoundAt(stage[r], phase[r], k)
    OBVIOUS
  <2>2. cell[r][slot][u][c] \in {Ring} \cup 0..b
    BY <1>1, <2>1 DEF RanksRight, RankHere, RankAt, CellsBounded, Bounded
  <2>3. b \in Nat
    BY <1>1, <2>1 DEF BoundAt, ControlTypes
  <2>. QED  BY <2>2, <2>3 DEF Ring, Wrong
<1>3. ASSUME NEW r \in Ranks, NEW k \in 1..Entered(r),
             calls[r][k].call = "Allgather_doubles"
      PROVE  calls[r][k].data # Wrong
  BY <1>1, <1>3 DEF PartialsRight, PartialAt, Entered
<1>. QED  BY <1>2, <1>3 DEF NoStaleRead

\* A solve ends with all units of the last pass in slot 0.
LEMMA WholeIterate ==
  ASSUME DataControl
  PROVE  SolutionComplete
<1>1. RanksRight
  BY DEF DataControl
<1>2. ASSUME NEW r \in Ranks, Solved(r)
      PROVE  FreshOn(cell[r]["iterate"], Units, pass[r])
  BY <1>1, <1>2 DEF RanksRight, RankHere, RankAt, SlotsRight, Solved
<1>. QED  BY <1>2 DEF SolutionComplete, FreshOn, Fresh

\* Whatever the problem, the method, the options and the number of ranks, and
\* whatever the interleaving: no update and no residual of any rank ever
\* combines a value other than the one the sequential method reads at that
\* point of that pass (exchange_halo, gather_rows, run_ordered:
\* mpi_backend.cpp; the passes of poisson2d.hpp and dense_generator.hpp).
THEOREM NoStaleReadHolds == Spec => []NoStaleRead
<1>1. Init => DataControl
  BY DataControlStarts
<1>2. DataControl /\ [Next]_vars => DataControl'
  BY DataControlKept
<1>3. DataControl => NoStaleRead
  BY NothingIsStale
<1>. QED  BY <1>1, <1>2, <1>3, PTL DEF Spec

\* So a distributed solve is a sequential one up to its answer: besides, no
\* rank's copy is newer than its pass, every rank returns the whole of the
\* final iterate from slot 0, and no message is left for the next repetition
\* (run_stationary: splitting.hpp; the Workspace of workspace.hpp).
THEOREM WholeSolveHolds == Spec => []WholeSolve
<1>1. Init => DataControl
  BY DataControlStarts
<1>2. DataControl /\ [Next]_vars => DataControl'
  BY DataControlKept
<1>3. DataControl => WholeSolve
  <2>1. DataControl => NoMessageLeft
    BY NothingLeft, NothingLeftFlat DEF NoMessageLeft, DataControl, DataTypes
  <2>. QED  BY <2>1, DataTypesHold, NothingIsStale, WholeIterate DEF WholeSolve
<1>. QED  BY <1>1, <1>2, <1>3, PTL DEF Spec

-----------------------------------------------------------------------------
(***************************************************************************)
(* The order of the updates.  T says how many passes each unit has taken:  *)
(* no copy of a unit, on any rank, in any message or in any collective,    *)
(* is of a later pass.  A value a rank reads therefore tells what the      *)
(* owner of the unit has done, wherever the owner is.                      *)
(***************************************************************************)

Under(T, u, row) ==
  u \in Units => \A c \in Colours : row[c] \in Int /\ row[c] <= T[u]
SlotUnder(T, x) == \A u \in Stored : Under(T, u, x[u])
CellsUnder(T) == \A r \in Ranks, s \in Slots : SlotUnder(T, cell[r][s])

MessageUnder(T, p, q, m) == IF Grid THEN Under(T, LandsAt(p, q), m) ELSE SlotUnder(T, m)
WireUnder(T, p, q, list) == \A i \in 1..Len(list) : MessageUnder(T, p, q, list[i])
WiresUnder(T) == \A tag \in Tags, p, q \in Ranks : WireUnder(T, p, q, wire[tag][p][q])

\* What the k-th collective of a rank brings: a segment is described by the
\* ranges that were collected just before.
BroughtUnder(T, list, k) ==
  /\ k > 1 /\ list[k].call = "Allgatherv" =>
       \A u \in UnitsOf(list[k - 1].data) : Under(T, u, list[k].data[u])
  /\ list[k].call = "Bcast" =>
       \A u \in DOMAIN list[k].data : Under(T, u, list[k].data[u])
LogsUnder(T) ==
  P # 1 => \A r \in Ranks : \A k \in 1..Entered(r) : BroughtUnder(T, calls[r], k)

ValuesUnder(T) == CellsUnder(T) /\ WiresUnder(T) /\ LogsUnder(T)

\* Time only makes room.
LEMMA UnderLonger ==
  ASSUME NEW T \in [Units -> Int], NEW L \in [Units -> Int],
         \A u \in Units : T[u] <= L[u], ValuesUnder(T)
  PROVE  ValuesUnder(L)
<1>1. ASSUME NEW u, NEW row, Under(T, u, row) PROVE Under(L, u, row)
  <2>1. ASSUME u \in Units, NEW c \in Colours PROVE row[c] \in Int /\ row[c] <= L[u]
    <3>1. row[c] \in Int /\ row[c] <= T[u] /\ T[u] <= L[u] /\ T[u] \in Int /\ L[u] \in Int
      BY <1>1, <2>1 DEF Under
    <3>. QED  BY <3>1
  <2>. QED  BY <2>1 DEF Under
<1>2. \A x : SlotUnder(T, x) => SlotUnder(L, x)
  BY <1>1 DEF SlotUnder
<1>3. CellsUnder(L)
  BY <1>2 DEF CellsUnder, ValuesUnder
<1>4. WiresUnder(L)
  <2>1. \A p, q, m : MessageUnder(T, p, q, m) => MessageUnder(L, p, q, m)
    BY <1>1, <1>2 DEF MessageUnder
  <2>. QED  BY <2>1 DEF WiresUnder, WireUnder, ValuesUnder
<1>5. LogsUnder(L)
  <2>1. ASSUME NEW list, NEW k, BroughtUnder(T, list, k) PROVE BroughtUnder(L, list, k)
    BY <1>1, <2>1 DEF BroughtUnder
  <2>. QED  BY <2>1 DEF LogsUnder, ValuesUnder
<1>. QED  BY <1>3, <1>4, <1>5 DEF ValuesUnder

\* The slot a rank works on is a slot like any other.
LEMMA MineUnder ==
  ASSUME NEW T, CellTypes, CellsUnder(T), NEW r \in Ranks
  PROVE  SlotUnder(T, Mine(r)) /\ SlotUnder(T, cell[r][Target(r)])
BY WorkSlots DEF CellsUnder, Mine, CellTypes, Slots

\* A row stored in a slot is no newer than it was before.
LEMMA UnderStored ==
  ASSUME NEW T, CellsUnder(T), NEW r \in Ranks, NEW s \in Slots, NEW row,
         OnlySlot(r, s, row), SlotUnder(T, row)
  PROVE  CellsUnder(T)'
<1>1. ASSUME NEW q \in Ranks, NEW t \in Slots PROVE SlotUnder(T, cell'[q][t])
  BY DEF CellsUnder, OnlySlot
<1>2. \A q \in Ranks, t \in Slots : SlotUnder(T, cell[q][t])'
  BY <1>1 DEF SlotUnder, Under
<1>. QED  BY <1>2 DEF CellsUnder

\* What a receive or a gather makes of the current slot.
LEMMA UnderRestored ==
  ASSUME NEW T, CellTypes, CellsUnder(T), NEW r \in Ranks, NEW values,
         \A u \in Stored : u \in DOMAIN values => Under(T, u, values[u])
  PROVE  SlotUnder(T, Restored(r, values))
BY MineUnder DEF SlotUnder, Restored

\* A step that stores nothing.
LEMMA CellsUnderStay ==
  ASSUME NEW T, CellsUnder(T), cell' = cell
  PROVE  CellsUnder(T)'
BY DEF CellsUnder, SlotUnder, Under

\* A step that sends and takes nothing.
LEMMA WiresUnderStay ==
  ASSUME NEW T, WiresUnder(T), wire' = wire
  PROVE  WiresUnder(T)'
BY DEF WiresUnder, WireUnder, MessageUnder, SlotUnder, Under, LandsAt, LowerHalo, UpperHalo, Rows

\* A step that enters no collective.
LEMMA LogsUnderStay ==
  ASSUME NEW T, LogsUnder(T), calls' = calls
  PROVE  LogsUnder(T)'
BY DEF LogsUnder, BroughtUnder, Under, Entered

\* Messages come and go.
LEMMA UnderSent ==
  ASSUME NEW T, Wires, WiresUnder(T), NEW tag \in Tags, NEW p \in Ranks, NEW q \in Ranks, NEW x,
         OnlyWire(tag, p, q, Append(wire[tag][p][q], x)), MessageUnder(T, p, q, x)
  PROVE  WiresUnder(T)'
<1>1. ASSUME NEW t \in Tags, NEW a \in Ranks, NEW b \in Ranks
      PROVE  WireUnder(T, a, b, wire'[t][a][b])
  <2>1. CASE t = tag /\ a = p /\ b = q
    <3>1. PICK s : s = wire[tag][p][q]
      OBVIOUS
    <3>2. IsSequence(s) /\ WireUnder(T, p, q, s) /\ wire'[t][a][b] = Append(s, x)
      BY <2>1, <3>1 DEF Wires, WiresUnder, OnlyWire
    <3>3. /\ Len(s) \in Nat /\ Len(Append(s, x)) = Len(s) + 1 /\ Append(s, x)[Len(s) + 1] = x
          /\ \A k \in 1..Len(s) : Append(s, x)[k] = s[k]
      BY <3>2, AppendedList
    <3>4. ASSUME NEW k \in 1..(Len(s) + 1) PROVE MessageUnder(T, p, q, Append(s, x)[k])
      BY <3>2, <3>3 DEF WireUnder
    <3>. QED  BY <2>1, <3>2, <3>3, <3>4 DEF WireUnder
  <2>2. CASE t # tag \/ a # p \/ b # q
    BY <2>2 DEF OnlyWire, WiresUnder
  <2>. QED  BY <2>1, <2>2
<1>2. \A t \in Tags, a, b \in Ranks : WireUnder(T, a, b, wire[t][a][b])'
  BY <1>1 DEF WireUnder, MessageUnder, SlotUnder, Under, LandsAt, LowerHalo, UpperHalo, Rows
<1>. QED  BY <1>2 DEF WiresUnder

\* The message at the head of a wire, and the wire without it.
LEMMA UnderTaken ==
  ASSUME NEW T, Wires, WiresUnder(T), NEW tag \in Tags, NEW p \in Ranks, NEW q \in Ranks,
         wire[tag][p][q] # <<>>
  PROVE  /\ MessageUnder(T, p, q, wire[tag][p][q][1])
         /\ Head(wire[tag][p][q]) = wire[tag][p][q][1]
         /\ OnlyWire(tag, p, q, Tail(wire[tag][p][q])) => WiresUnder(T)'
<1>1. PICK s : s = wire[tag][p][q]
  OBVIOUS
<1>2. IsSequence(s) /\ s # <<>> /\ WireUnder(T, p, q, s)
  BY <1>1 DEF Wires, WiresUnder
<1>3. /\ Len(s) \in Nat \ {0} /\ Len(Tail(s)) = Len(s) - 1 /\ Head(s) = s[1]
      /\ \A k \in 1..Len(Tail(s)) : Tail(s)[k] = s[k + 1]
  BY <1>2, RestOfList
<1>4. MessageUnder(T, p, q, s[1])
  BY <1>2, <1>3 DEF WireUnder
<1>5. ASSUME OnlyWire(tag, p, q, Tail(s)) PROVE WiresUnder(T)'
  <2>1. ASSUME NEW t \in Tags, NEW a \in Ranks, NEW b \in Ranks
        PROVE  WireUnder(T, a, b, wire'[t][a][b])
    <3>1. CASE t = tag /\ a = p /\ b = q
      <4>1. wire'[t][a][b] = Tail(s)
        BY <1>5, <3>1 DEF OnlyWire
      <4>2. ASSUME NEW k \in 1..Len(Tail(s)) PROVE MessageUnder(T, p, q, Tail(s)[k])
        BY <1>2, <1>3 DEF WireUnder
      <4>. QED  BY <3>1, <4>1, <4>2 DEF WireUnder
    <3>2. CASE t # tag \/ a # p \/ b # q
      BY <1>5, <3>2 DEF OnlyWire, WiresUnder
    <3>. QED  BY <3>1, <3>2
  <2>2. \A t \in Tags, a, b \in Ranks : WireUnder(T, a, b, wire[t][a][b])'
    BY <2>1 DEF WireUnder, MessageUnder, SlotUnder, Under, LandsAt, LowerHalo, UpperHalo, Rows
  <2>. QED  BY <2>2 DEF WiresUnder
<1>. QED  BY <1>1, <1>3, <1>4, <1>5

\* A rank that enters a collective brings what it may.
LEMMA LogsUnderBring ==
  ASSUME NEW T, ControlTypes, LogsUnder(T), NEW r \in Ranks, NEW c, NEW d, Enter(r, c, d),
         P # 1 /\ c = "Allgatherv" =>
           \A u \in UnitsOf(calls[r][Entered(r)].data) : Under(T, u, d[u]),
         P # 1 /\ c = "Bcast" => \A u \in DOMAIN d : Under(T, u, d[u])
  PROVE  LogsUnder(T)'
<1>. SUFFICES ASSUME P # 1 PROVE \A q \in Ranks : \A k \in 1..Entered(q)' :
                                   BroughtUnder(T, calls'[q], k)
  BY DEF LogsUnder, BroughtUnder, Under, Entered
<1>1. PICK list, e : list = calls[r] /\ e = [call |-> c, data |-> d]
  OBVIOUS
<1>2. IsSequence(list)
  BY <1>1 DEF ControlTypes
<1>3. calls'[r] = Append(list, e) /\ \A q \in Ranks : q # r => calls'[q] = calls[q]
  BY <1>1 DEF Enter, ControlTypes
<1>4. /\ Len(list) \in Nat /\ Len(Append(list, e)) = Len(list) + 1
      /\ Append(list, e)[Len(list) + 1] = e
      /\ \A k \in 1..Len(list) : Append(list, e)[k] = list[k]
  BY <1>2, AppendedList
<1>5. \A k \in 1..Len(list) : BroughtUnder(T, list, k)
  BY <1>1 DEF LogsUnder, Entered
<1>6. ASSUME NEW k \in 1..Len(list) PROVE BroughtUnder(T, Append(list, e), k)
  <2>1. Append(list, e)[k] = list[k] /\ (k > 1 => Append(list, e)[k - 1] = list[k - 1])
    BY <1>4
  <2>. QED  BY <1>5, <2>1 DEF BroughtUnder
<1>7. BroughtUnder(T, Append(list, e), Len(list) + 1)
  <2>1. PICK n : n = Len(list) + 1
    OBVIOUS
  <2>2. n > 1 => Append(list, e)[n - 1] = list[Len(list)]
    BY <1>4, <2>1
  <2>3. Append(list, e)[n] = e /\ e.call = c /\ e.data = d
    BY <1>1, <1>4, <2>1
  <2>4. c = "Allgatherv" => \A u \in UnitsOf(list[Len(list)].data) : Under(T, u, d[u])
    BY <1>1 DEF Entered
  <2>5. c = "Bcast" => \A u \in DOMAIN d : Under(T, u, d[u])
    OBVIOUS
  <2>6. BroughtUnder(T, Append(list, e), n)
    BY <2>2, <2>3, <2>4, <2>5 DEF BroughtUnder
  <2>. QED  BY <2>1, <2>6
<1>8. ASSUME NEW k \in 1..Len(calls'[r]) PROVE BroughtUnder(T, calls'[r], k)
  BY <1>3, <1>4, <1>6, <1>7
<1>9. ASSUME NEW q \in Ranks, q # r, NEW k \in 1..Len(calls'[q]) PROVE BroughtUnder(T, calls'[q], k)
  BY <1>3, <1>9 DEF LogsUnder, Entered
<1>. QED  BY <1>8, <1>9 DEF Entered

-----------------------------------------------------------------------------
(* No step but an update brings anything newer. *)

\* Every wire is a sequence.
LEMMA WiresHold ==
  ASSUME DataControl
  PROVE  Wires
BY DEF DataControl, DataTypes, HaloControl, TurnControl

\* The steps that move no value.
LEMMA QuietUnder ==
  ASSUME NEW T, DataControl, ValuesUnder(T), NEW r \in Ranks,
         \/ EnterBarrier(r) \/ LeaveBarrier(r) \/ HaloDone(r) \/ Gather(r) \/ WorkDone(r)
         \/ Evaluate(r) \/ LeaveReduce(r) \/ EndPass(r)
  PROVE  ValuesUnder(T)'
<1>1. cell' = cell /\ wire' = wire
  BY DEF EnterBarrier, LeaveBarrier, HaloDone, Gather, WorkDone, Evaluate, LeaveReduce, EndPass
<1>2. ControlTypes
  BY DEF DataControl, DataTypes, Control
<1>3. calls' = calls \/ \E c, d : c \notin {"Allgatherv", "Bcast"} /\ Enter(r, c, d)
  BY DEF EnterBarrier, LeaveBarrier, HaloDone, Gather, WorkDone, Evaluate, LeaveReduce, EndPass
<1>4. LogsUnder(T)'
  BY <1>2, <1>3, LogsUnderStay, LogsUnderBring DEF ValuesUnder
<1>. QED  BY <1>1, <1>4, CellsUnderStay, WiresUnderStay DEF ValuesUnder

\* The initial state is of no pass.
LEMMA InitialUnder ==
  ASSUME NEW T \in [Units -> Nat]
  PROVE  SlotUnder(T, InitialState)
<1>1. ASSUME NEW u \in Stored PROVE Under(T, u, InitialState[u])
  <2>1. ASSUME u \in Units, NEW c \in Colours PROVE InitialState[u][c] \in Int /\ InitialState[u][c] <= T[u]
    <3>1. InitialState[u][c] = 0 /\ T[u] \in Nat
      BY <2>1 DEF InitialState
    <3>. QED  BY <3>1
  <2>. QED  BY <2>1 DEF Under
<1>. QED  BY <1>1 DEF SlotUnder

\* Reset stores the initial state in every slot.
LEMMA ResetUnder ==
  ASSUME NEW T \in [Units -> Nat], DataControl, ValuesUnder(T), NEW r \in Ranks, Reset(r)
  PROVE  ValuesUnder(T)'
<1>1. wire' = wire /\ calls' = calls
  BY DEF Reset
<1>2. ASSUME NEW q \in Ranks, NEW s \in Slots PROVE SlotUnder(T, cell'[q][s])
  BY ResetShape, InitialUnder, DataViews DEF ValuesUnder, CellsUnder
<1>3. \A q \in Ranks, s \in Slots : SlotUnder(T, cell[q][s])'
  BY <1>2 DEF SlotUnder, Under
<1>. QED  BY <1>1, <1>3, WiresUnderStay, LogsUnderStay DEF ValuesUnder, CellsUnder

\* The snapshot of a lagged pass and the copy at the end are copies.
LEMMA CopiesUnder ==
  ASSUME NEW T, DataControl, ValuesUnder(T), NEW r \in Ranks, StartPass(r) \/ Finish(r)
  PROVE  ValuesUnder(T)'
<1>1. wire' = wire /\ calls' = calls
  BY DEF StartPass, Finish
<1>2. CellTypes /\ CellsUnder(T)
  BY DataViews DEF ValuesUnder
<1>3. cell' = cell \/ \E s \in Slots : OnlySlot(r, s, Mine(r))
  BY <1>2, StartPassShape, FinishShape DEF Slots
<1>4. CellsUnder(T)'
  BY <1>2, <1>3, MineUnder, UnderStored, CellsUnderStay
<1>. QED  BY <1>1, <1>4, WiresUnderStay, LogsUnderStay DEF ValuesUnder

\* A row on its way, of the sender's own or one that had just come.
LEMMA RowUnder ==
  ASSUME NEW T, Grid, CellTypes, CellsUnder(T), NEW r \in Ranks, NEW u \in Stored
  PROVE  Under(T, u, Mine(r)[u])
BY MineUnder DEF SlotUnder

\* exchange_halo sends the first own row, or the message just received.
LEMMA ExchangeHaloUnder ==
  ASSUME NEW T, DataControl, ValuesUnder(T), NEW r \in Ranks, ExchangeHalo(r)
  PROVE  ValuesUnder(T)'
<1>0. Wires /\ CellTypes /\ CellsUnder(T) /\ WiresUnder(T)
  BY WiresHold, DataViews DEF ValuesUnder
<1>1. cell' = cell /\ calls' = calls
  BY DEF ExchangeHalo
<1>2. WiresUnder(T)'
  <2>1. CASE P = 1 \/ ~ Grid \/ r = 0
    <3>1. wire' = wire
      BY <2>1 DEF ExchangeHalo, Send, AboveOf, PROC_NULL
    <3>. QED  BY <1>0, <3>1, WiresUnderStay
  <2>2. CASE P # 1 /\ Grid /\ r # 0
    <3>1. PICK row \in SendBuffer(r, FirstOwned(r), LowerHalo(r), BelowOf(r), "TAG_HALO_UP") :
            Send(r, AboveOf(r), "TAG_HALO_UP", row)
      BY <2>2 DEF ExchangeHalo
    <3>2. r > 0 /\ r - 1 \in Ranks
      BY <2>2, RanksAssumption DEF Ranks
    <3>3. OnlyWire("TAG_HALO_UP", r, r - 1, Append(wire["TAG_HALO_UP"][r][r - 1], row))
      BY <1>0, <3>1, <3>2, SentUp
    <3>4. FirstOwned(r) = LandsAt(r, r - 1) /\ FirstOwned(r) \in Stored
      BY <2>2, <3>2, RowsLand, RowsAreStored
    <3>5. CASE row = Mine(r)[FirstOwned(r)]
      <4>1. MessageUnder(T, r, r - 1, row)
        BY <1>0, <2>2, <3>4, <3>5, RowUnder DEF MessageUnder
      <4>. QED  BY <1>0, <3>2, <3>3, <4>1, UnderSent DEF Tags
    <3>6. CASE /\ FirstOwned(r) = LowerHalo(r) /\ Incoming(r, BelowOf(r), "TAG_HALO_UP")
               /\ row = Message(r, BelowOf(r), "TAG_HALO_UP")
      <4>1. r + 1 < P /\ BelowOf(r) = r + 1 /\ r + 1 \in Ranks
        BY <3>6, UpperIndex DEF Incoming
      <4>2. LandsAt(r + 1, r) = LandsAt(r, r - 1)
        BY <3>2, <3>4, <3>6, <4>1, RowsLand
      <4>3. /\ row = Head(wire["TAG_HALO_UP"][r + 1][r])
            /\ wire["TAG_HALO_UP"][r + 1][r] # <<>>
        BY <3>6, <4>1 DEF Incoming, Message
      <4>4. MessageUnder(T, r + 1, r, row)
        BY <1>0, <4>1, <4>3, UnderTaken DEF Tags
      <4>5. MessageUnder(T, r, r - 1, row)
        BY <2>2, <4>2, <4>4 DEF MessageUnder
      <4>. QED  BY <1>0, <3>2, <3>3, <4>5, UnderSent DEF Tags
    <3>. QED  BY <3>1, <3>5, <3>6 DEF SendBuffer
  <2>. QED  BY <2>1, <2>2
<1>. QED  BY <1>1, <1>2, CellsUnderStay, LogsUnderStay DEF ValuesUnder

\* The second Sendrecv sends the last own row, or the message just received.
LEMMA SendHaloDownUnder ==
  ASSUME NEW T, DataControl, ValuesUnder(T), NEW r \in Ranks, SendHaloDown(r)
  PROVE  ValuesUnder(T)'
<1>0. Wires /\ CellTypes /\ CellsUnder(T) /\ WiresUnder(T) /\ Grid
  BY WiresHold, DataViews, HaloIsOnGrid DEF ValuesUnder, SendHaloDown, HaloPhases
<1>1. cell' = cell /\ calls' = calls
  BY DEF SendHaloDown
<1>2. PICK row \in SendBuffer(r, LastOwned(r), UpperHalo(r), AboveOf(r), "TAG_HALO_DOWN") :
        Send(r, BelowOf(r), "TAG_HALO_DOWN", row)
  BY DEF SendHaloDown
<1>3. WiresUnder(T)'
  <2>1. CASE ~ (r + 1 < P)
    <3>1. wire' = wire
      BY <1>2, <2>1, UpperIndex DEF Send
    <3>. QED  BY <1>0, <3>1, WiresUnderStay
  <2>2. CASE r + 1 < P
    <3>2. r + 1 \in Ranks
      BY <2>2, UpperIndex
    <3>3. OnlyWire("TAG_HALO_DOWN", r, r + 1, Append(wire["TAG_HALO_DOWN"][r][r + 1], row))
      BY <1>0, <1>2, <2>2, SentDown
    <3>4. LastOwned(r) = LandsAt(r, r + 1) /\ LastOwned(r) \in Stored
      BY <1>0, <2>2, RowsLand, RowsAreStored
    <3>5. CASE row = Mine(r)[LastOwned(r)]
      <4>1. MessageUnder(T, r, r + 1, row)
        BY <1>0, <3>4, <3>5, RowUnder DEF MessageUnder
      <4>. QED  BY <1>0, <3>2, <3>3, <4>1, UnderSent DEF Tags
    <3>6. CASE /\ LastOwned(r) = UpperHalo(r) /\ Incoming(r, AboveOf(r), "TAG_HALO_DOWN")
               /\ row = Message(r, AboveOf(r), "TAG_HALO_DOWN")
      <4>1. r > 0 /\ AboveOf(r) = r - 1 /\ r - 1 \in Ranks
        BY <3>6, UpperIndex DEF Incoming
      <4>2. LandsAt(r - 1, r) = LandsAt(r, r + 1)
        BY <2>2, <3>4, <3>6, <4>1, RowsLand
      <4>3. /\ row = Head(wire["TAG_HALO_DOWN"][r - 1][r])
            /\ wire["TAG_HALO_DOWN"][r - 1][r] # <<>>
        BY <3>6, <4>1 DEF Incoming, Message
      <4>4. MessageUnder(T, r - 1, r, row)
        BY <1>0, <4>1, <4>3, UnderTaken DEF Tags
      <4>5. MessageUnder(T, r, r + 1, row)
        BY <1>0, <4>2, <4>4 DEF MessageUnder
      <4>. QED  BY <1>0, <3>2, <3>3, <4>5, UnderSent DEF Tags
    <3>. QED  BY <1>2, <3>5, <3>6 DEF SendBuffer
  <2>. QED  BY <2>1, <2>2
<1>. QED  BY <1>1, <1>3, CellsUnderStay, LogsUnderStay DEF ValuesUnder

\* An ordered pass hands on its last row, or the whole vector.
LEMMA HandOnUnder ==
  ASSUME NEW T, DataControl, ValuesUnder(T), NEW r \in Ranks, HandOn(r)
  PROVE  ValuesUnder(T)'
<1>0. Wires /\ CellTypes /\ CellsUnder(T) /\ WiresUnder(T)
  BY WiresHold, DataViews DEF ValuesUnder
<1>1. cell' = cell /\ calls' = calls
  BY DEF HandOn
<1>2. PICK x : x = IF Grid THEN Mine(r)[TurnRowOut(r)] ELSE Mine(r)
  OBVIOUS
<1>3. Send(r, Successor(r), "TAG_ORDERED", x)
  BY <1>2 DEF HandOn
<1>4. SlotUnder(T, Mine(r))
  BY <1>0, MineUnder
<1>5. WiresUnder(T)'
  <2>1. CASE Successor(r) = PROC_NULL
    BY <1>0, <1>3, <2>1, WiresUnderStay DEF Send
  <2>2. CASE Forward(r) /\ r + 1 < P
    <3>1. r + 1 \in Ranks /\ Send(r, BelowOf(r), "TAG_ORDERED", x)
      BY <1>3, <2>2, UpperIndex DEF Successor
    <3>2. OnlyWire("TAG_ORDERED", r, r + 1, Append(wire["TAG_ORDERED"][r][r + 1], x))
      BY <1>0, <2>2, <3>1, SentDown
    <3>3. MessageUnder(T, r, r + 1, x)
      BY <1>2, <1>4, <2>2, RowsLand, RowsAreStored DEF MessageUnder, TurnRowOut, SlotUnder
    <3>. QED  BY <1>0, <3>1, <3>2, <3>3, UnderSent DEF Tags
  <2>3. CASE ~ Forward(r) /\ r > 0
    <3>1. r - 1 \in Ranks /\ Send(r, AboveOf(r), "TAG_ORDERED", x)
      BY <1>3, <2>3, UpperIndex DEF Successor
    <3>2. OnlyWire("TAG_ORDERED", r, r - 1, Append(wire["TAG_ORDERED"][r][r - 1], x))
      BY <1>0, <2>3, <3>1, SentUp
    <3>3. MessageUnder(T, r, r - 1, x)
      BY <1>2, <1>4, <2>3, RowsLand, RowsAreStored DEF MessageUnder, TurnRowOut, SlotUnder
    <3>. QED  BY <1>0, <3>1, <3>2, <3>3, UnderSent DEF Tags
  <2>. QED  BY <2>1, <2>2, <2>3, UpperIndex DEF Successor
<1>. QED  BY <1>1, <1>5, CellsUnderStay, LogsUnderStay DEF ValuesUnder

\* A message that is taken ends where it was meant to.
LEMMA TakenUnder ==
  ASSUME NEW T, DataControl, ValuesUnder(T), NEW r \in Ranks, NEW tag \in Tags, NEW q \in Ranks,
         OnlyWire(tag, q, r, Tail(wire[tag][q][r])), wire[tag][q][r] # <<>>,
         NEW into, Grid => into = LandsAt(q, r), NEW values,
         values = IF Grid THEN [u \in {into} |-> Message(r, q, tag)] ELSE Message(r, q, tag),
         StoreUnits(r, values), calls' = calls
  PROVE  ValuesUnder(T)'
<1>0. Wires /\ CellTypes /\ CellsUnder(T) /\ WiresUnder(T)
  BY WiresHold, DataViews DEF ValuesUnder
<1>1. PICK m : m = Message(r, q, tag)
  OBVIOUS
<1>2. MessageUnder(T, q, r, m) /\ WiresUnder(T)'
  BY <1>0, <1>1, UnderTaken DEF Message
<1>3. \A u \in Stored : u \in DOMAIN values => Under(T, u, values[u])
  BY <1>1, <1>2 DEF MessageUnder, SlotUnder
<1>4. SlotUnder(T, Restored(r, values))
  BY <1>0, <1>3, UnderRestored
<1>5. CellsUnder(T)'
  BY <1>0, <1>4, StoresUnits, UnderStored
<1>. QED  BY <1>2, <1>5, LogsUnderStay DEF ValuesUnder

\* A step that changes no value, no wire and no log.
LEMMA UnchangedUnder ==
  ASSUME NEW T, ValuesUnder(T), cell' = cell, wire' = wire, calls' = calls
  PROVE  ValuesUnder(T)'
BY CellsUnderStay, WiresUnderStay, LogsUnderStay DEF ValuesUnder

\* Both receives of exchange_halo.
LEMMA TakeHaloUnder ==
  ASSUME NEW T, DataControl, ValuesUnder(T), NEW r \in Ranks, TakeLowerHalo(r) \/ TakeUpperHalo(r)
  PROVE  ValuesUnder(T)'
<1>0. Grid /\ Wires
  BY DataViews, HaloIsOnGrid, WiresHold DEF TakeLowerHalo, TakeUpperHalo, HaloPhases
<1>1. ASSUME TakeHalo(r, BelowOf(r), "TAG_HALO_UP", LowerHalo(r), "halo_up_sent")
      PROVE  ValuesUnder(T)'
  <2>1. CASE ~ (r + 1 < P)
    <3>1. BelowOf(r) = PROC_NULL
      BY <2>1, UpperIndex
    <3>. QED  BY <1>1, <3>1, UnchangedUnder DEF TakeHalo
  <2>2. CASE r + 1 < P
    <3>1. BelowOf(r) = r + 1 /\ r + 1 \in Ranks /\ r + 1 # PROC_NULL
      BY <2>2, UpperIndex DEF Ranks, PROC_NULL
    <3>2. /\ Incoming(r, r + 1, "TAG_HALO_UP") /\ Receive(r, r + 1, "TAG_HALO_UP") /\ calls' = calls
          /\ StoreUnits(r, [u \in {LowerHalo(r)} |-> Message(r, r + 1, "TAG_HALO_UP")])
      BY <1>1, <3>1 DEF TakeHalo
    <3>. QED  BY <1>0, <2>2, <3>1, <3>2, TakenFromBelow, RowsLand, TakenUnder DEF Tags
  <2>. QED  BY <2>1, <2>2
<1>2. ASSUME TakeHalo(r, AboveOf(r), "TAG_HALO_DOWN", UpperHalo(r), "halo_down_sent")
      PROVE  ValuesUnder(T)'
  <2>1. CASE ~ (r > 0)
    <3>1. AboveOf(r) = PROC_NULL
      BY <2>1, UpperIndex
    <3>. QED  BY <1>2, <3>1, UnchangedUnder DEF TakeHalo
  <2>2. CASE r > 0
    <3>1. AboveOf(r) = r - 1 /\ r - 1 \in Ranks /\ r - 1 # PROC_NULL
      BY <2>2, UpperIndex DEF Ranks, PROC_NULL
    <3>2. /\ Incoming(r, r - 1, "TAG_HALO_DOWN") /\ Receive(r, r - 1, "TAG_HALO_DOWN") /\ calls' = calls
          /\ StoreUnits(r, [u \in {UpperHalo(r)} |-> Message(r, r - 1, "TAG_HALO_DOWN")])
      BY <1>2, <3>1 DEF TakeHalo
    <3>. QED  BY <1>0, <2>2, <3>1, <3>2, TakenFromAbove, RowsLand, TakenUnder DEF Tags
  <2>. QED  BY <2>1, <2>2
<1>. QED  BY <1>1, <1>2 DEF TakeLowerHalo, TakeUpperHalo

\* The receive of an ordered pass.
LEMMA TakeTurnUnder ==
  ASSUME NEW T, DataControl, ValuesUnder(T), NEW r \in Ranks, TakeTurn(r)
  PROVE  ValuesUnder(T)'
<1>0. Wires
  BY WiresHold
<1>1. CASE Predecessor(r) = PROC_NULL
  BY <1>1, UnchangedUnder DEF TakeTurn
<1>2. CASE Predecessor(r) # PROC_NULL
  <2>1. PICK q, values : /\ q = Predecessor(r)
                         /\ values = IF Grid THEN [u \in {TurnRowIn(r)} |-> Message(r, q, "TAG_ORDERED")]
                                             ELSE Message(r, q, "TAG_ORDERED")
    OBVIOUS
  <2>2. /\ Incoming(r, q, "TAG_ORDERED") /\ Receive(r, q, "TAG_ORDERED")
        /\ StoreUnits(r, values) /\ calls' = calls
    BY <1>2, <2>1 DEF TakeTurn
  <2>3. CASE Forward(r)
    <3>1. r > 0 /\ q = r - 1 /\ q \in Ranks /\ TurnRowIn(r) = LandsAt(q, r)
      BY <1>2, <2>1, <2>3, UpperIndex, RowsLand DEF Predecessor, TurnRowIn
    <3>2. OnlyWire("TAG_ORDERED", q, r, Tail(wire["TAG_ORDERED"][q][r])) /\ wire["TAG_ORDERED"][q][r] # <<>>
      BY <1>0, <2>2, <3>1, TakenFromAbove
    <3>. QED  BY <2>1, <2>2, <3>1, <3>2, TakenUnder DEF Tags
  <2>4. CASE ~ Forward(r)
    <3>1. r + 1 < P /\ q = r + 1 /\ q \in Ranks /\ TurnRowIn(r) = LandsAt(q, r)
      BY <1>2, <2>1, <2>4, UpperIndex, RowsLand DEF Predecessor, TurnRowIn
    <3>2. OnlyWire("TAG_ORDERED", q, r, Tail(wire["TAG_ORDERED"][q][r])) /\ wire["TAG_ORDERED"][q][r] # <<>>
      BY <1>0, <2>2, <3>1, TakenFromBelow
    <3>. QED  BY <2>1, <2>2, <3>1, <3>2, TakenUnder DEF Tags
  <2>. QED  BY <2>3, <2>4
<1>. QED  BY <1>1, <1>2

\* Ranks that are in a collective, or past it, made the same call there.
LEMMA SameHere ==
  ASSUME Control, P # 1, NEW r \in Ranks, Waiting(r), NEW q \in Ranks, Entered(q) >= Entered(r)
  PROVE  /\ Entered(r) > 0 /\ Entered(r) \in 1..Entered(q)
         /\ calls[q][Entered(r)].call = CallAt(Inside(r))
<1>1. PICK n \in Nat : \E path : IsPath(path, n) /\ \A p \in Ranks : IsOn(p, path, n)
  BY DEF Control, OneJourney
<1>2. PICK path : IsPath(path, n) /\ \A p \in Ranks : IsOn(p, path, n)
  BY <1>1
<1>3. PICK e, f : e = Entered(r) /\ f = Entered(q)
  OBVIOUS
<1>4. /\ e \in 0..n /\ f \in 0..n /\ e > 0 /\ path[e] = Inside(r) /\ f >= e
  BY <1>2, <1>3 DEF IsOn
<1>5. \A k \in 1..f : calls[q][k].call = CallAt(path[k])
  BY <1>2, <1>3 DEF IsOn
<1>. QED  BY <1>3, <1>4, <1>5

\* A rank gathers its own copy of the range it has announced.
LEMMA GatherRowsUnder ==
  ASSUME NEW T, DataControl, ValuesUnder(T), NEW r \in Ranks, GatherRows(r)
  PROVE  ValuesUnder(T)'
<1>0. Control /\ ControlTypes /\ LogsRight /\ CellTypes /\ CellsUnder(T)
  BY DataViews DEF Control, DataControl, ValuesUnder
<1>1. PICK d : d = [u \in UnitsOf(GatherRange(r)) |-> Mine(r)[u]]
  OBVIOUS
<1>2. /\ cell' = cell /\ wire' = wire /\ Enter(r, "Allgatherv", d)
      /\ phase[r] \in {"ranges", "reranges"} /\ AllEntered(r)
  BY <1>1 DEF GatherRows
<1>3. ASSUME P # 1, NEW u \in UnitsOf(calls[r][Entered(r)].data) PROVE Under(T, u, d[u])
  <2>1. Waiting(r) /\ stage[r] # "finished"
    <3>1. phase[r] \in PhasesOf(stage[r])
      BY <1>0 DEF Control, Legal, LegalAt
    <3>. QED  BY <1>2, <3>1 DEF Waiting, WaitingPhases, PhasesOf
  <2>2. DataAt(Inside(r), r, calls[r][Entered(r)].data)
    BY <1>0, <1>2, <1>3, <2>1, Finds DEF AllEntered
  <2>3. /\ phase[r] = "ranges" => Inside(r).phase = "gather"
        /\ phase[r] = "reranges" => Inside(r).phase = "regather"
    BY <2>1, WithinIs DEF Inside
  <2>4. calls[r][Entered(r)].data = GatherRange(r)
    BY <1>2, <2>2, <2>3 DEF DataAt, GatherRange
  <2>5. u \in UnitsOf(GatherRange(r)) /\ u \in Stored
    BY <1>3, <2>4, GatherRangeWithin, UnitsStored
  <2>6. d[u] = Mine(r)[u]
    BY <1>1, <2>5
  <2>. QED  BY <1>0, <2>5, <2>6, MineUnder DEF SlotUnder
<1>4. LogsUnder(T)'
  BY <1>0, <1>2, <1>3, LogsUnderBring DEF ValuesUnder
<1>. QED  BY <1>2, <1>4, CellsUnderStay, WiresUnderStay DEF ValuesUnder

\* The last rank of the chain brings its copy to the Bcast.
LEMMA HandedOnUnder ==
  ASSUME NEW T, DataControl, ValuesUnder(T), NEW r \in Ranks, HandedOn(r)
  PROVE  ValuesUnder(T)'
<1>0. ControlTypes /\ CellTypes /\ CellsUnder(T)
  BY DataViews DEF Control, DataControl, ValuesUnder
<1>1. cell' = cell /\ wire' = wire
  BY DEF HandedOn
<1>2. CASE Grid
  BY <1>1, <1>2, UnchangedUnder DEF HandedOn
<1>3. CASE ~ Grid
  <2>1. PICK d : d = IF r = LastInTurn(r) THEN Mine(r) ELSE <<>>
    OBVIOUS
  <2>2. Enter(r, "Bcast", d)
    BY <1>3, <2>1 DEF HandedOn
  <2>3. ASSUME NEW u \in DOMAIN d PROVE Under(T, u, d[u])
    <3>1. DOMAIN (<<>>) = {}
      OBVIOUS
    <3>2. d = Mine(r)
      BY <2>1, <2>3, <3>1
    <3>3. DOMAIN Mine(r) = Stored
      <4>1. IsSlot(Mine(r))
        BY <1>0, WorkSlots
      <4>. QED  BY <4>1 DEF IsSlot
    <3>. QED  BY <1>0, <2>3, <3>2, <3>3, MineUnder DEF SlotUnder
  <2>4. LogsUnder(T)'
    BY <1>0, <2>2, <2>3, LogsUnderBring DEF ValuesUnder
  <2>. QED  BY <1>1, <2>4, CellsUnderStay, WiresUnderStay DEF ValuesUnder
<1>. QED  BY <1>2, <1>3

\* The segments land where the collected ranges say.
LEMMA StoreRowsUnder ==
  ASSUME NEW T, DataControl, ValuesUnder(T), NEW r \in Ranks, StoreRows(r)
  PROVE  ValuesUnder(T)'
<1>0. Control /\ CellTypes /\ CellsUnder(T) /\ GatherControl
  BY DataViews DEF DataControl, DataTypes, ValuesUnder
<1>1. /\ wire' = wire /\ calls' = calls /\ StoreUnits(r, Collected(r))
      /\ phase[r] \in {"rows", "rerows"} /\ AllEntered(r)
  BY DEF StoreRows
<1>2. PICK e, b : e = Entered(r) /\ b = e - 1
  OBVIOUS
<1>. DEFINE From(q) == UnitsOf(calls[q][b].data)
            Covered == UNION {From(q) : q \in Ranks \ {r}}
            Bringer(u) == CHOOSE q \in Ranks \ {r} : u \in From(q)
<1>3. Collected(r) = [u \in Covered |-> Brought(r, Bringer(u))[u]]
  BY <1>2 DEF Collected
<1>4. ASSUME NEW u \in DOMAIN Collected(r) PROVE Under(T, u, Collected(r)[u])
  <2>1. u \in Covered
    BY <1>3, <1>4
  <2>2. PICK q : q = Bringer(u)
    OBVIOUS
  <2>3. q \in Ranks \ {r} /\ u \in From(q)
    BY <2>1, <2>2
  <2>4. Collected(r)[u] = calls[q][e].data[u]
    BY <1>2, <1>3, <2>1, <2>2 DEF Brought
  <2>5. P # 1
    BY <2>3, OneRank
  <2>6. Waiting(r) /\ stage[r] # "finished"
    <3>1. phase[r] \in PhasesOf(stage[r])
      BY <1>0 DEF Control, Legal, LegalAt
    <3>. QED  BY <1>1, <3>1 DEF Waiting, WaitingPhases, PhasesOf
  <2>7. CallAt(Inside(r)) = "Allgatherv"
    <3>1. Inside(r).phase \in {"ranges", "reranges"}
      BY <1>1, <2>6, WithinIs DEF Inside
    <3>. QED  BY <3>1 DEF CallAt
  <2>8. Entered(q) >= Entered(r)
    BY <1>1, <2>3 DEF AllEntered
  <2>9. e \in 1..Entered(q) /\ calls[q][e].call = "Allgatherv"
    BY <1>0, <1>2, <2>3, <2>5, <2>6, <2>7, <2>8, SameHere
  <2>10. e > 1
    BY <1>0, <1>1, <1>2 DEF GatherControl, GathersInOrder, CollectsAt, Entered
  <2>11. BroughtUnder(T, calls[q], e)
    BY <2>3, <2>5, <2>9 DEF ValuesUnder, LogsUnder
  <2>12. u \in UnitsOf(calls[q][e - 1].data)
    BY <1>2, <2>3
  <2>13. Under(T, u, calls[q][e].data[u])
    BY <2>9, <2>10, <2>11, <2>12 DEF BroughtUnder
  <2>. QED  BY <2>4, <2>13
<1>5. SlotUnder(T, Restored(r, Collected(r)))
  BY <1>0, <1>4, UnderRestored
<1>6. CellsUnder(T)'
  BY <1>0, <1>1, <1>5, StoresUnits, UnderStored
<1>. QED  BY <1>1, <1>6, WiresUnderStay, LogsUnderStay DEF ValuesUnder

\* A Bcast brings the copy of its root.
LEMMA LeaveBcastUnder ==
  ASSUME NEW T, DataControl, ValuesUnder(T), NEW r \in Ranks, LeaveBcast(r)
  PROVE  ValuesUnder(T)'
<1>0. Control /\ CellTypes /\ CellsUnder(T)
  BY DataViews DEF DataControl, DataTypes, ValuesUnder
<1>1. PICK root, values : /\ root = LastInTurn(r)
                          /\ values = IF r = root THEN <<>> ELSE Brought(r, root)
  OBVIOUS
<1>2. /\ wire' = wire /\ calls' = calls /\ StoreUnits(r, values)
      /\ phase[r] = "bcast" /\ RootEntered(r, root)
  BY <1>1 DEF LeaveBcast
<1>3. ASSUME NEW u \in DOMAIN values PROVE Under(T, u, values[u])
  <2>1. DOMAIN (<<>>) = {}
    OBVIOUS
  <2>2. r # root /\ values = calls[root][Entered(r)].data
    BY <1>1, <1>3, <2>1 DEF Brought
  <2>3. root \in Ranks
    BY <1>1, RanksAssumption DEF LastInTurn, Ranks
  <2>4. P # 1
    BY <2>2, <2>3, OneRank
  <2>5. Waiting(r) /\ stage[r] # "finished"
    <3>1. phase[r] \in PhasesOf(stage[r])
      BY <1>0 DEF Control, Legal, LegalAt
    <3>. QED  BY <1>2, <3>1 DEF Waiting, WaitingPhases, PhasesOf
  <2>6. CallAt(Inside(r)) = "Bcast"
    <3>1. Inside(r).phase = "handed_on"
      BY <1>2, <2>5, WithinIs DEF Inside
    <3>. QED  BY <3>1 DEF CallAt
  <2>7. Entered(r) \in 1..Entered(root) /\ calls[root][Entered(r)].call = "Bcast"
    BY <1>0, <1>2, <2>3, <2>4, <2>5, <2>6, SameHere DEF RootEntered
  <2>8. BroughtUnder(T, calls[root], Entered(r))
    BY <2>3, <2>4, <2>7 DEF ValuesUnder, LogsUnder
  <2>. QED  BY <1>3, <2>2, <2>7, <2>8 DEF BroughtUnder
<1>4. SlotUnder(T, Restored(r, values))
  BY <1>0, <1>3, UnderRestored
<1>5. CellsUnder(T)'
  BY <1>0, <1>2, <1>4, StoresUnits, UnderStored
<1>. QED  BY <1>2, <1>5, WiresUnderStay, LogsUnderStay DEF ValuesUnder

\* All steps but the updates.
LEMMA NothingNewer ==
  ASSUME NEW T \in [Units -> Nat], DataControl, ValuesUnder(T), NEW r \in Ranks,
         Computes(r) \/ LeavesSend(r), ~ UpdateItem(r)
  PROVE  ValuesUnder(T)'
BY QuietUnder, ResetUnder, CopiesUnder, ExchangeHaloUnder, SendHaloDownUnder, HandOnUnder,
   TakeHaloUnder, TakeTurnUnder, GatherRowsUnder, HandedOnUnder, StoreRowsUnder, LeaveBcastUnder
   DEF Computes, LeavesSend

\* An update writes what the units of its item have now taken.
LEMMA UpdateUnder ==
  ASSUME NEW T \in [Units -> Int], DataControl, ValuesUnder(T), NEW r \in Ranks,
         NEW S, NEW k \in Int, k = pass[r],
         cell' = [cell EXCEPT ![r][Target(r)] = Updated(r, S)],
         UpdateItem(r), \A u \in S : u \in Units /\ T[u] = k + 1
  PROVE  ValuesUnder(T)'
<1>0. CellTypes /\ CellsUnder(T)
  BY DataViews DEF ValuesUnder
<1>1. wire' = wire /\ calls' = calls
  BY DEF UpdateItem
<1>2. PICK old, value : /\ old = cell[r][Target(r)]
                        /\ value = IF ReadsWell(r, S) THEN pass[r] + 1 ELSE Wrong
  OBVIOUS
<1>3. (value \in Int /\ value <= k + 1) \/ k < 0
  BY <1>2 DEF Wrong
<1>4. k \in Nat
  <2>1. ControlTypes
    BY DataViews DEF Control
  <2>. QED  BY <2>1 DEF ControlTypes
<1>5. SlotUnder(T, old)
  BY <1>0, <1>2, MineUnder
<1>6. ASSUME NEW u \in Stored PROVE Under(T, u, Updated(r, S)[u])
  <2>1. ASSUME u \in Units, NEW c \in Colours
        PROVE  Updated(r, S)[u][c] \in Int /\ Updated(r, S)[u][c] <= T[u]
    <3>1. Updated(r, S)[u][c] = IF u \in S /\ c \in Written(Kind(r)) THEN value ELSE old[u][c]
      BY <1>2 DEF Updated
    <3>2. old[u][c] \in Int /\ old[u][c] <= T[u]
      BY <1>5, <2>1 DEF SlotUnder, Under
    <3>3. u \in S => value \in Int /\ value <= T[u]
      BY <1>3, <1>4
    <3>. QED  BY <3>1, <3>2, <3>3
  <2>. QED  BY <2>1 DEF Under
<1>7. IsSlot(Updated(r, S))
  BY DEF IsSlot, Updated
<1>8. CellsUnder(T)'
  BY <1>0, <1>6, <1>7, OneSlot, WorkSlots, UnderStored DEF SlotUnder
<1>. QED  BY <1>1, <1>8, WiresUnderStay, LogsUnderStay DEF ValuesUnder

-----------------------------------------------------------------------------
(* Who owns a unit does not depend on the pass. *)

\* A method makes only block passes or none.
LEMMA KindsAlike ==
  ASSUME run \in Runs, NEW k \in Nat, NEW l \in Nat
  PROVE  FlatBlocks(PassAt(k + 1)) <=> FlatBlocks(PassAt(l + 1))
<1>1. run.solver \in Solvers
  BY RunsAssumption
<1>2. PassesPerIteration \in {1, 2}
  BY PassCount
<1>3. ASSUME NEW n \in Nat, NEW a, NEW b,
             (Passes(run.solver) = <<a>> /\ a = b) \/ Passes(run.solver) = <<a, b>>
      PROVE  PassAt(n + 1) \in {a, b}
  <2>1. PICK i : i = (n % PassesPerIteration) + 1
    OBVIOUS
  <2>2. i \in 1..PassesPerIteration
    BY <1>2, <2>1
  <2>3. PassAt(n + 1) = Passes(run.solver)[i]
    <3>1. (n + 1) - 1 = n
      OBVIOUS
    <3>. QED  BY <2>1, <3>1 DEF PassAt
  <2>4. CASE Passes(run.solver) = <<a>>
    <3>1. i = 1
      BY <2>2, <2>4 DEF PassesPerIteration
    <3>. QED  BY <2>3, <2>4, <3>1
  <2>5. CASE Passes(run.solver) = <<a, b>>
    <3>1. i = 1 \/ i = 2
      BY <2>2, <2>5 DEF PassesPerIteration
    <3>. QED  BY <2>3, <2>5, <3>1
  <2>. QED  BY <1>3, <2>4, <2>5
<1>4. ASSUME NEW a, NEW b,
             (Passes(run.solver) = <<a>> /\ a = b) \/ Passes(run.solver) = <<a, b>>,
             ByBlocks(a) <=> ByBlocks(b)
      PROVE  FlatBlocks(PassAt(k + 1)) <=> FlatBlocks(PassAt(l + 1))
  <2>1. PassAt(k + 1) \in {a, b} /\ PassAt(l + 1) \in {a, b}
    BY <1>3, <1>4
  <2>. QED  BY <1>4, <2>1 DEF FlatBlocks
<1>5. \/ Passes(run.solver) = <<"jacobi">>
      \/ Passes(run.solver) = <<"forward">>
      \/ Passes(run.solver) = <<"backward">>
      \/ Passes(run.solver) = <<"forward", "backward">>
      \/ Passes(run.solver) = <<"red", "black">>
      \/ Passes(run.solver) = <<"block_jacobi">>
      \/ Passes(run.solver) = <<"block_forward">>
  BY <1>1 DEF Passes, Solvers
<1>6. /\ ByBlocks("forward") <=> ByBlocks("backward")
      /\ ByBlocks("red") <=> ByBlocks("black")
  BY DEF ByBlocks
<1>. QED  BY <1>4, <1>5, <1>6

\* Two items of a pass share no unit.
LEMMA ItemsApart ==
  ASSUME NEW kind, NEW i \in 1..ItemCount(kind), NEW j \in 1..ItemCount(kind),
         NEW u \in UnitsIn(i, kind), u \in UnitsIn(j, kind)
  PROVE  i = j
<1>1. ItemCount(kind) \in Int /\ u \in Int
  BY ItemNumbers, ItemUnits, SweepAssumption DEF Units
<1>2. ~ (i < j)
  BY <1>1, ItemsInOrder
<1>3. ~ (j < i)
  BY <1>1, ItemsInOrder
<1>. QED  BY <1>1, <1>2, <1>3

\* Two ranks share no item.
LEMMA SharesApart ==
  ASSUME NEW kind, NEW q \in Ranks, NEW r \in Ranks, NEW i \in ItemsOf(q, kind),
         i \in ItemsOf(r, kind)
  PROVE  q = r
<1>1. PICK n : n = ItemCount(kind)
  OBVIOUS
<1>2. n \in Nat /\ i \in Int /\ P \in Nat /\ P > 0 /\ q \in 0..(P - 1) /\ r \in 0..(P - 1)
  BY <1>1, ItemNumbers, SweepAssumption, RanksAssumption DEF Ranks
<1>3. /\ i \in UnitsOf(block_partition(n, P, q)) /\ i \in UnitsOf(block_partition(n, P, r))
  BY <1>1, ItemNumbers DEF ShareOf, local_rows
<1>4. ASSUME NEW a \in 0..(P - 1), NEW b \in 0..(P - 1), a < b,
             i \in UnitsOf(block_partition(n, P, a)), i \in UnitsOf(block_partition(n, P, b))
      PROVE  FALSE
  <2>1. block_partition(n, P, a).end <= block_partition(n, P, b).begin
    BY <1>2, <1>4, BlocksOrdered
  <2>2. block_partition(n, P, a).end \in Int /\ block_partition(n, P, b).begin \in Int
        /\ block_partition(n, P, a).begin \in Int /\ block_partition(n, P, b).end \in Int
    BY <1>2, BlockWithin
  <2>. QED  BY <1>2, <1>4, <2>1, <2>2 DEF UnitsOf
<1>5. ~ (q < r) /\ ~ (r < q)
  BY <1>3, <1>4, <1>2
<1>. QED  BY <1>2, <1>5

\* Its owner has it in an item of every pass, and nobody else.
LEMMA OwnerIs ==
  ASSUME run \in Runs, NEW u \in Units, NEW k \in Nat
  PROVE  /\ OwnerOf(u) \in Ranks
         /\ \E i \in ItemsOf(OwnerOf(u), PassAt(k + 1)) : u \in UnitsIn(i, PassAt(k + 1))
         /\ \A r \in Ranks : \A i \in ItemsOf(r, PassAt(k + 1)) :
              u \in UnitsIn(i, PassAt(k + 1)) => r = OwnerOf(u)
<1>1. PICK kind, first : kind = PassAt(k + 1) /\ first = PassAt(1)
  OBVIOUS
<1>2. FlatBlocks(kind) <=> FlatBlocks(first)
  <2>1. 0 \in Nat /\ 0 + 1 = 1
    OBVIOUS
  <2>. QED  BY <1>1, <2>1, KindsAlike
<1>3. /\ \A r \in Ranks : ItemsOf(r, kind) = ItemsOf(r, first)
      /\ \A i : UnitsIn(i, kind) = UnitsIn(i, first)
  BY <1>2 DEF ItemsOf, UnitsIn
<1>. DEFINE Has(r) == \E i \in ItemsOf(r, first) : u \in UnitsIn(i, first)
<1>4. \E r \in Ranks : Has(r)
  BY ItemsCover, ItemsShared
<1>5. OwnerOf(u) = CHOOSE r \in Ranks : Has(r)
  BY <1>1 DEF OwnerOf
<1>6. OwnerOf(u) \in Ranks /\ Has(OwnerOf(u))
  BY <1>4, <1>5
<1>7. ASSUME NEW r \in Ranks, NEW i \in ItemsOf(r, first), u \in UnitsIn(i, first)
      PROVE  r = OwnerOf(u)
  <2>1. PICK j \in ItemsOf(OwnerOf(u), first) : u \in UnitsIn(j, first)
    BY <1>6
  <2>2. i \in 1..ItemCount(first) /\ j \in 1..ItemCount(first)
    BY <1>6, <2>1, ItemNumbers
  <2>3. i = j
    BY <1>7, <2>1, <2>2, ItemsApart
  <2>. QED  BY <1>6, <1>7, <2>1, <2>3, SharesApart
<1>. QED  BY <1>1, <1>3, <1>6, <1>7

\* A unit's owner does not change.
LEMMA OwnerFixed ==
  ASSUME run' = run, NEW u
  PROVE  OwnerOf(u)' = OwnerOf(u)
<1>1. PassAt(1)' = PassAt(1)
  BY ScheduleFixed
<1>2. \A r, i : i \in ItemsOf(r, PassAt(1))' <=> i \in ItemsOf(r, PassAt(1))
  BY <1>1 DEF ItemsOf, FlatBlocks, Grid, local_rows, PointRange
<1>3. \A i : UnitsIn(i, PassAt(1))' = UnitsIn(i, PassAt(1))
  BY <1>1 DEF UnitsIn, FlatBlocks, Grid
<1>. DEFINE Has(r) == \E item \in ItemsOf(r, PassAt(1)) : u \in UnitsIn(item, PassAt(1))
<1>4. \A r : Has(r)' <=> Has(r)
  BY <1>2, <1>3
<1>5. OwnerOf(u) = CHOOSE r \in Ranks : Has(r)
  BY DEF OwnerOf
<1>6. OwnerOf(u)' = CHOOSE r \in Ranks : Has(r)'
  BY DEF OwnerOf
<1>7. (CHOOSE r \in Ranks : Has(r)') = CHOOSE r \in Ranks : Has(r)
  <2>. HIDE DEF Has
  <2>. QED  BY <1>4, Zenon
<1>. QED  BY <1>5, <1>6, <1>7

-----------------------------------------------------------------------------
(* How many passes a unit has taken, by where its owner is. *)

BeforeWork ==
  {"exchange", "halo_up", "halo_up_sent", "halo_down", "halo_down_sent",
   "gather", "ranges", "rows", "body"}
TakenIn(s, p, k, left, u) ==
  IF s = "pass" /\ p \notin BeforeWork /\ u \notin UNION {UnitsIn(i, PassAt(k + 1)) : i \in left}
  THEN k + 1 ELSE k
TakenBy(r, u) == TakenIn(stage[r], phase[r], pass[r], todo[r], u)
TakenNext(r, u) == TakenIn(stage'[r], phase'[r], pass'[r], todo'[r], u)

Taken == [u \in Units |-> PassesTaken(u)]

\* The count of the refinement mapping, by where the owner is.
LEMMA TakenIs ==
  ASSUME NEW u
  PROVE  PassesTaken(u) = TakenBy(OwnerOf(u), u)
BY DEF PassesTaken, TakenBy, TakenIn, InPass, UnitsLeft, BeforeWork, Kind

\* The same in the next state.
LEMMA TakenNextIs ==
  ASSUME run' = run, NEW u
  PROVE  PassesTaken(u)' = TakenNext(OwnerOf(u), u)
<1>1. PICK o : o = OwnerOf(u) /\ o = OwnerOf(u)'
  BY OwnerFixed
<1>2. \A k : PassAt(k)' = PassAt(k)
  BY ScheduleFixed
<1>3. \A i, k : UnitsIn(i, PassAt(k))' = UnitsIn(i, PassAt(k))
  BY <1>2 DEF UnitsIn, FlatBlocks, Grid
<1>4. UnitsLeft(o)' = UNION {UnitsIn(i, PassAt(pass'[o] + 1)) : i \in todo'[o]}
  <2>1. \A i : UnitsIn(i, Kind(o))' = UnitsIn(i, PassAt(pass'[o] + 1))
    BY <1>2 DEF Kind, UnitsIn, FlatBlocks, Grid
  <2>2. UnitsLeft(o)' = UNION {UnitsIn(i, Kind(o))' : i \in todo'[o]}
    BY DEF UnitsLeft
  <2>. QED  BY <2>1, <2>2
<1>5. InPass(o)' <=> stage'[o] = "pass" /\ phase'[o] \notin BeforeWork
  BY DEF InPass, BeforeWork
<1>6. PassesTaken(u)' = IF InPass(o)' /\ u \notin UnitsLeft(o)' THEN pass'[o] + 1 ELSE pass'[o]
  BY <1>1 DEF PassesTaken
<1>. QED  BY <1>1, <1>4, <1>5, <1>6 DEF TakenNext, TakenIn

\* The counts are numbers.
LEMMA TakenTypes ==
  ASSUME ControlTypes
  PROVE  Taken \in [Units -> Nat]
<1>1. ASSUME NEW u \in Units PROVE PassesTaken(u) \in Nat
  <2>1. OwnerOf(u) \in Ranks
    <3>1. 0 \in Nat
      OBVIOUS
    <3>. QED  BY <3>1, OwnerIs DEF ControlTypes
  <2>2. pass[OwnerOf(u)] \in Nat
    BY <2>1 DEF ControlTypes
  <2>. QED  BY <2>2, TakenIs DEF TakenBy, TakenIn
<1>. QED  BY <1>1 DEF Taken

\* A unit is left if the item it is in is.
LEMMA UnitLeft ==
  ASSUME run \in Runs, NEW u \in Units, NEW k \in Nat, NEW left
  PROVE  left = ItemsOf(OwnerOf(u), PassAt(k + 1)) =>
           u \in UNION {UnitsIn(i, PassAt(k + 1)) : i \in left}
BY OwnerIs

\* Only StartPass and UpdateItem touch the items left.
LEMMA TodoStays ==
  ASSUME CellTypes, NEW r \in Ranks, Computes(r) \/ LeavesSend(r)
  PROVE  /\ \A q \in Ranks : q # r => todo'[q] = todo[q]
         /\ ~ StartPass(r) /\ ~ UpdateItem(r) => todo' = todo
<1>1. CASE StartPass(r)
  BY <1>1, StartPassShape
<1>2. CASE UpdateItem(r)
  BY <1>2, UpdateShape
<1>3. CASE ~ StartPass(r) /\ ~ UpdateItem(r)
  BY <1>3, UntouchedSteps
     DEF Computes, LeavesSend, Untouched, Reset, TakeLowerHalo, TakeUpperHalo, TakeHalo,
         StoreRows, TakeTurn, LeaveBcast, EndPass, Finish
<1>. QED  BY <1>1, <1>2, <1>3

\* Going on with nothing of a pass before or after, or with the same of it.
LEMMA SamePlace ==
  ASSUME NEW s, NEW p, NEW t, NEW o, NEW k, NEW left, NEW u,
         (s = "pass" /\ p \notin BeforeWork) <=> (t = "pass" /\ o \notin BeforeWork)
  PROVE  TakenIn(s, p, k, left, u) = TakenIn(t, o, k, left, u)
BY DEF TakenIn

\* A repetition starts with no pass made; there is only one.
StartsAtZero == \A r \in Ranks : stage[r] = "reset" => pass[r] = 0

\* A step that stays on its side of the work keeps the count.
LEMMA GoesAlike ==
  ASSUME Control, NEW r \in Ranks, NEW u, todo' = todo, pass' = pass,
         NEW s, NEW p, Goto(r, s, p),
         (stage[r] = "pass" /\ phase[r] \notin BeforeWork) <=> (s = "pass" /\ p \notin BeforeWork)
  PROVE  TakenNext(r, u) = TakenBy(r, u)
<1>1. stage'[r] = s /\ phase'[r] = p
  BY DEF Goto, Control, ControlTypes
<1>. QED  BY <1>1, SamePlace DEF TakenNext, TakenBy

\* A pass begins before its work.
LEMMA BeginsBefore ==
  ASSUME NEW s, NEW k
  PROVE  s = "pass" => FirstPhase(s, k) \in BeforeWork
BY DEF FirstPhase, BeforeWork

\* The steps that stay on their side of the work.
LEMMA AlikeSteps ==
  ASSUME Control, CellTypes, NEW r \in Ranks, NEW u,
         \/ EnterBarrier(r) \/ LeaveBarrier(r) \/ ExchangeHalo(r) \/ TakeLowerHalo(r)
         \/ SendHaloDown(r) \/ TakeUpperHalo(r) \/ HaloDone(r) \/ Gather(r) \/ GatherRows(r)
         \/ StoreRows(r) \/ TakeTurn(r) \/ HandOn(r) \/ HandedOn(r) \/ LeaveBcast(r)
         \/ WorkDone(r) \/ Evaluate(r) \/ LeaveReduce(r) \/ Finish(r)
  PROVE  TakenNext(r, u) = TakenBy(r, u)
<1>1. todo' = todo /\ pass' = pass
  BY DEF EnterBarrier, LeaveBarrier, ExchangeHalo, TakeLowerHalo, SendHaloDown, TakeUpperHalo,
         TakeHalo, HaloDone, Gather, GatherRows, StoreRows, TakeTurn, HandOn, HandedOn,
         LeaveBcast, WorkDone, Evaluate, LeaveReduce, Finish
<1>2. ASSUME NEW p, GotoPhase(r, p),
             stage[r] # "pass" \/ (phase[r] \in BeforeWork <=> p \in BeforeWork)
      PROVE  TakenNext(r, u) = TakenBy(r, u)
  BY <1>1, <1>2, GoesAlike DEF GotoPhase
<1>3. ASSUME NEW s, NEW p, Goto(r, s, p), stage[r] # "pass", s # "pass" \/ p \in BeforeWork
      PROVE  TakenNext(r, u) = TakenBy(r, u)
  BY <1>1, <1>3, GoesAlike
<1>4. ASSUME NEW s, NEW k, Begin(r, s, k), stage[r] # "pass"
      PROVE  TakenNext(r, u) = TakenBy(r, u)
  BY <1>3, <1>4, BeginsBefore DEF Begin
<1>5. CASE EnterBarrier(r)
  BY <1>2, <1>5 DEF EnterBarrier
<1>6. CASE LeaveBarrier(r)
  BY <1>3, <1>4, <1>6 DEF LeaveBarrier
<1>7. CASE ExchangeHalo(r)
  BY <1>2, <1>7 DEF ExchangeHalo, BeforeWork
<1>8. CASE TakeLowerHalo(r) \/ SendHaloDown(r) \/ TakeUpperHalo(r) \/ HaloDone(r)
  BY <1>2, <1>8 DEF TakeLowerHalo, SendHaloDown, TakeUpperHalo, HaloDone, TakeHalo, BeforeWork
<1>9. CASE Gather(r)
  <2>1. PICK p : /\ GotoPhase(r, p)
                 /\ phase[r] = "gather" => p \in {"body", "ranges"} \/ stage[r] = "synchronise"
                 /\ phase[r] = "regather" => p \in {"end_pass", "reranges"}
                 /\ phase[r] \in {"gather", "regather"}
    BY <1>9 DEF Gather, Gathered
  <2>. QED  BY <1>2, <2>1 DEF BeforeWork
<1>10. CASE GatherRows(r)
  BY <1>2, <1>10 DEF GatherRows, BeforeWork
<1>11. CASE StoreRows(r)
  <2>1. PICK p : /\ GotoPhase(r, p)
                 /\ phase[r] = "rows" => p = "body" \/ stage[r] = "synchronise"
                 /\ phase[r] = "rerows" => p = "end_pass"
                 /\ phase[r] \in {"rows", "rerows"}
    BY <1>11 DEF StoreRows, Gathered
  <2>. QED  BY <1>2, <2>1 DEF BeforeWork
<1>12. CASE TakeTurn(r) \/ HandOn(r) \/ LeaveBcast(r) \/ WorkDone(r)
  BY <1>2, <1>12 DEF TakeTurn, HandOn, LeaveBcast, WorkDone, BeforeWork
<1>13. CASE HandedOn(r)
  BY <1>2, <1>13 DEF HandedOn, BeforeWork
<1>14. CASE Evaluate(r)
  BY <1>2, <1>14 DEF Evaluate
<1>15. CASE LeaveReduce(r)
  <2>1. stage[r] \in {"rhs_norm", "initial", "residual"}
    <3>1. phase[r] \in PhasesOf(stage[r]) /\ stage[r] \in Stages
      BY DEF Control, Legal, LegalAt
    <3>. QED  BY <1>15, <3>1 DEF LeaveReduce, PhasesOf, HaloPhases, Stages
  <2>2. ASSUME NEW k, Loop(r, k) PROVE \E s, l : Begin(r, s, l)
    BY <2>2 DEF Loop
  <2>3. CASE stage[r] = "rhs_norm"
    <3>1. Begin(r, "initial", 0)
      BY <1>15, <2>3 DEF LeaveReduce
    <3>. QED  BY <1>4, <2>3, <3>1
  <2>4. CASE stage[r] = "initial"
    <3>1. Goto(r, "barrier_out", "start") \/ Loop(r, pass[r])
      BY <1>15, <2>4 DEF LeaveReduce
    <3>. QED  BY <1>3, <1>4, <2>2, <2>4, <3>1
  <2>5. CASE stage[r] = "residual"
    <3>1. Loop(r, pass[r]) \/ Begin(r, "synchronise", pass[r])
      BY <1>15, <2>5 DEF LeaveReduce
    <3>. QED  BY <1>4, <2>2, <2>5, <3>1
  <2>. QED  BY <2>1, <2>3, <2>4, <2>5
<1>16. CASE Finish(r)
  BY <1>3, <1>16 DEF Finish, At
<1>. QED  BY <1>5, <1>6, <1>7, <1>8, <1>9, <1>10, <1>11, <1>12, <1>13, <1>14, <1>15, <1>16

\* No step but an update changes a count.
LEMMA TakenKept ==
  ASSUME DataControl, StartsAtZero, NEW r \in Ranks, Computes(r) \/ LeavesSend(r), ~ UpdateItem(r)
  PROVE  \A u \in Units : PassesTaken(u)' = PassesTaken(u)
<1>0. Control /\ ControlTypes /\ CellTypes /\ RanksRight /\ run \in Runs
  BY DataViews DEF Control, ControlTypes
<1>1. OthersStay(r) /\ run' = run
  BY <1>0, StepOfOne DEF OthersStay
<1>2. SUFFICES ASSUME NEW u \in Units, r = OwnerOf(u) PROVE TakenNext(r, u) = TakenBy(r, u)
  <2>1. ASSUME NEW u \in Units PROVE PassesTaken(u)' = PassesTaken(u)
    <3>1. OwnerOf(u) \in Ranks
      <4>1. 0 \in Nat
        OBVIOUS
      <4>. QED  BY <1>0, <4>1, OwnerIs
    <3>2. TakenNext(OwnerOf(u), u) = TakenBy(OwnerOf(u), u)
      <4>1. CASE OwnerOf(u) = r
        BY <1>2, <4>1
      <4>2. CASE OwnerOf(u) # r
        BY <1>0, <1>1, <3>1, <4>2, TodoStays DEF OthersStay, TakenNext, TakenBy
      <4>. QED  BY <4>1, <4>2
    <3>. QED  BY <1>1, <3>2, TakenIs, TakenNextIs
  <2>. QED  BY <2>1
<1>3. CASE Reset(r)
  <2>1. stage[r] = "reset" /\ stage'[r] = "barrier_in" /\ pass'[r] = 0
    BY <1>0, <1>3 DEF Reset, At, Goto, ControlTypes
  <2>2. pass[r] = 0
    BY <2>1 DEF StartsAtZero
  <2>. QED  BY <2>1, <2>2 DEF TakenNext, TakenBy, TakenIn
<1>4. CASE StartPass(r)
  <2>1. /\ stage[r] = "pass" /\ phase[r] = "body" /\ pass'[r] = pass[r]
        /\ todo'[r] = ItemsOf(r, PassAt(pass[r] + 1))
    BY <1>0, <1>4, StartPassShape DEF StartPass, At, Kind
  <2>2. pass[r] \in Nat
    BY <1>0 DEF ControlTypes
  <2>3. u \in UNION {UnitsIn(i, PassAt(pass[r] + 1)) : i \in todo'[r]}
    BY <1>0, <1>2, <2>1, <2>2, UnitLeft
  <2>4. TakenNext(r, u) = pass[r]
    BY <2>1, <2>3 DEF TakenNext, TakenIn
  <2>5. TakenBy(r, u) = pass[r]
    BY <2>1 DEF TakenBy, TakenIn, BeforeWork
  <2>. QED  BY <2>4, <2>5
<1>5. CASE EndPass(r)
  <2>1. stage[r] = "pass" /\ phase[r] = "end_pass" /\ pass[r] \in Nat
    BY <1>0, <1>5, WorkIsInPass DEF EndPass, ControlTypes
  <2>2. todo[r] = {}
    BY <1>0, <2>1 DEF RanksRight, RankHere, RankAt, LeftAt
  <2>3. TakenBy(r, u) = pass[r] + 1
    BY <2>1, <2>2 DEF TakenBy, TakenIn, BeforeWork
  <2>4. pass'[r] = pass[r] + 1
    BY <1>0, <1>5 DEF EndPass, ControlTypes
  <2>5. \E s, k : Begin(r, s, k)
    BY <1>5 DEF EndPass, Loop
  <2>6. stage'[r] = "pass" => phase'[r] \in BeforeWork
    BY <1>0, <2>5, BeginsBefore DEF Begin, Goto, ControlTypes
  <2>7. TakenNext(r, u) = pass[r] + 1
    BY <2>4, <2>6 DEF TakenNext, TakenIn
  <2>. QED  BY <2>3, <2>7
<1>. QED  BY <1>0, <1>3, <1>4, <1>5, AlikeSteps DEF Computes, LeavesSend

\* Item i is the one an update of rank r strikes off.
Strikes(r, i) == todo' = [todo EXCEPT ![r] = @ \ {i}]

\* An update is what the units of its item take, all from the same pass on.
LEMMA TakenAtUpdate ==
  ASSUME DataControl, NEW r \in Ranks, UpdateItem(r), NEW i \in NextItems(r),
         Strikes(r, i), NEW k, k = pass[r],
         NEW S, S = UnitsIn(i, PassAt(k + 1))
  PROVE  /\ k \in Nat /\ S \subseteq Units /\ S # {}
         /\ \A u \in S : PassesTaken(u) = k
         /\ \A u \in Units : PassesTaken(u)' = IF u \in S THEN k + 1 ELSE PassesTaken(u)
<1>0. Control /\ ControlTypes /\ CellTypes /\ RanksRight /\ run \in Runs /\ k \in Nat
  BY DataViews DEF Control, ControlTypes
<1>1. PICK kind, left : kind = PassAt(k + 1) /\ left = todo[r]
  OBVIOUS
<1>2. /\ stage[r] = "pass" /\ phase[r] = "work" /\ left # {} /\ run' = run
      /\ stage' = stage /\ phase' = phase /\ pass' = pass
  BY <1>0, <1>1, WorkIsInPass DEF UpdateItem
<1>3. i \in left /\ left \subseteq ItemsOf(r, kind)
  <2>1. RestOf(r, kind, left)
    BY <1>0, <1>1, <1>2 DEF RanksRight, RankHere, RankAt, HoldsRight, Works, WorkedPhases,
                            TakenPhases
  <2>. QED  BY <1>0, <1>1, <1>2, <2>1, NextItemsAreItems DEF RestOf
<1>4. i \in 1..ItemCount(kind) /\ left \subseteq 1..ItemCount(kind)
  BY <1>3, ItemNumbers
<1>5. S \subseteq Units /\ S # {}
  BY <1>1, <1>4, ItemUnits
<1>6. /\ \A u \in Units : OwnerOf(u) \in Ranks
      /\ \A u \in S : OwnerOf(u) = r
  BY <1>0, <1>1, <1>3, <1>5, OwnerIs
<1>7. \A q \in Ranks : q # r => todo'[q] = todo[q]
  BY <1>0, TodoStays DEF Computes
<1>8. todo'[r] = left \ {i}
  BY <1>0, <1>1 DEF CellTypes, Strikes
<1>. DEFINE Left(rest) == UNION {UnitsIn(j, kind) : j \in rest}
<1>9. ASSUME NEW u \in Units, r = OwnerOf(u)
      PROVE  /\ PassesTaken(u) = IF u \in Left(left) THEN k ELSE k + 1
             /\ PassesTaken(u)' = IF u \in Left(left \ {i}) THEN k ELSE k + 1
  <2>1. TakenBy(r, u) = IF u \in Left(left) THEN k ELSE k + 1
    BY <1>1, <1>2 DEF TakenBy, TakenIn, BeforeWork
  <2>2. TakenNext(r, u) = IF u \in Left(left \ {i}) THEN k ELSE k + 1
    BY <1>1, <1>2, <1>8 DEF TakenNext, TakenIn, BeforeWork
  <2>. QED  BY <1>2, <1>9, <2>1, <2>2, TakenIs, TakenNextIs
<1>10. ASSUME NEW u \in S
       PROVE  PassesTaken(u) = k /\ PassesTaken(u)' = k + 1
  <2>1. u \in Left(left)
    BY <1>1, <1>3, <1>10
  <2>2. u \notin Left(left \ {i})
    BY <1>1, <1>4, <1>10, ItemsApart
  <2>. QED  BY <1>5, <1>6, <1>9, <1>10, <2>1, <2>2
<1>11. ASSUME NEW u \in Units \ S
       PROVE  PassesTaken(u)' = PassesTaken(u)
  <2>1. CASE OwnerOf(u) = r
    <3>1. u \in Left(left) <=> u \in Left(left \ {i})
      BY <1>1, <1>11
    <3>. QED  BY <1>9, <2>1, <3>1
  <2>2. CASE OwnerOf(u) # r
    <3>1. TakenNext(OwnerOf(u), u) = TakenBy(OwnerOf(u), u)
      BY <1>2, <1>6, <1>7, <2>2 DEF TakenNext, TakenBy
    <3>. QED  BY <1>2, <3>1, TakenIs, TakenNextIs
  <2>. QED  BY <2>1, <2>2
<1>. QED  BY <1>0, <1>5, <1>10, <1>11

-----------------------------------------------------------------------------
(* The order: coupled units are at most a pass apart, and of two that are  *)
(* the one ahead is the one its pass visits first.                         *)

Beside(u) == (Coupled({u}) \cap Units) \ {u}
Apart(T, u, v) ==
  /\ T[u] - T[v] \in {-1, 0, 1}
  /\ T[u] > T[v] =>
       /\ Direction(PassAt(T[u])) = "ascending" => u < v
       /\ Direction(PassAt(T[u])) = "descending" => u > v
InOrder(T) == \A u \in Units : \A v \in Beside(u) : Apart(T, u, v)

\* What pass k requires of a unit v beside u.
ReadyFor(T, v, u, k) ==
  CASE Direction(PassAt(k)) = "ascending"  -> T[v] = IF v < u THEN k ELSE k - 1
    [] Direction(PassAt(k)) = "descending" -> T[v] = IF v > u THEN k ELSE k - 1
    [] Direction(PassAt(k)) = "parallel"   -> T[v] \in {k - 1, k}

\* Coupling is symmetric.
LEMMA BesideBoth ==
  ASSUME NEW u \in Units, NEW v \in Beside(u)
  PROVE  v \in Units /\ u # v /\ u \in Beside(v) /\ u \in Int /\ v \in Int
<1>1. v \in Units /\ u # v /\ v \in Coupled({u}) /\ u \in Int /\ v \in Int
  BY SweepAssumption DEF Beside, Units
<1>2. CASE Grid
  BY <1>1, <1>2 DEF Beside, Coupled
<1>3. CASE ~ Grid
  BY <1>1, <1>3 DEF Beside, Coupled
<1>. QED  BY <1>1, <1>2, <1>3

\* The three directions, by the kind of the pass.
LEMMA DirectionIs ==
  ASSUME NEW kind
  PROVE  /\ Direction(kind) = "ascending" <=> kind \in Ascending
         /\ Direction(kind) = "descending" <=> kind \in Descending
         /\ Direction(kind) \in {"ascending", "descending", "parallel"}
BY DEF Direction, Ordered, Ascending, Descending

\* Units that take a pass when their neighbours are ready keep the order.
LEMMA OrderGoesOn ==
  ASSUME NEW T \in [Units -> Nat], InOrder(T), NEW S \in SUBSET Units, NEW k \in Nat,
         \A u \in S : T[u] = k, \A u \in S : \A v \in Beside(u) \ S : ReadyFor(T, v, u, k + 1),
         NEW L, L = [u \in Units |-> IF u \in S THEN k + 1 ELSE T[u]]
  PROVE  InOrder(L)
<1>1. ASSUME NEW u \in S, NEW v \in Beside(u) \ S PROVE Apart(L, u, v) /\ Apart(L, v, u)
  <2>1. v \in Units /\ u \in Units /\ u # v /\ u \in Int /\ v \in Int
    BY <1>1, BesideBoth
  <2>2. L[u] = k + 1 /\ L[v] = T[v] /\ (k + 1) - 1 = k
    BY <1>1, <2>1
  <2>3. ReadyFor(T, v, u, k + 1) /\ Direction(PassAt(k + 1)) \in {"ascending", "descending", "parallel"}
    BY <1>1, DirectionIs
  <2>4. T[v] \in {k, k + 1}
    BY <2>2, <2>3 DEF ReadyFor
  <2>5. ASSUME Direction(PassAt(k + 1)) = "ascending", T[v] = k PROVE u < v
    <3>1. v < u => T[v] = k + 1
      BY <2>3, <2>5 DEF ReadyFor
    <3>2. ~ (v < u)
      BY <2>5, <3>1
    <3>. QED  BY <2>1, <3>2
  <2>6. ASSUME Direction(PassAt(k + 1)) = "descending", T[v] = k PROVE u > v
    <3>1. v > u => T[v] = k + 1
      BY <2>3, <2>6 DEF ReadyFor
    <3>2. ~ (v > u)
      BY <2>6, <3>1
    <3>. QED  BY <2>1, <3>2
  <2>7. Apart(L, u, v)
    <3>1. T[v] = k \/ T[v] = k + 1
      BY <2>4
    <3>2. L[u] - L[v] \in {-1, 0, 1} /\ (L[u] > L[v] => T[v] = k)
      BY <2>2, <3>1
    <3>. QED  BY <2>2, <2>5, <2>6, <3>2 DEF Apart
  <2>8. Apart(L, v, u)
    <3>1. T[v] = k \/ T[v] = k + 1
      BY <2>4
    <3>2. L[v] - L[u] \in {-1, 0, 1} /\ ~ (L[v] > L[u])
      BY <2>2, <3>1
    <3>. QED  BY <3>2 DEF Apart
  <2>. QED  BY <2>7, <2>8
<1>2. ASSUME NEW u \in Units, NEW v \in Beside(u) PROVE Apart(L, u, v)
  <2>1. v \in Units /\ u \in Beside(v)
    BY BesideBoth
  <2>2. CASE u \in S /\ v \in S
    <3>1. L[u] = k + 1 /\ L[v] = k + 1
      BY <2>1, <2>2
    <3>. QED  BY <3>1 DEF Apart
  <2>3. CASE u \in S /\ v \notin S
    BY <1>1, <2>3
  <2>4. CASE u \notin S /\ v \in S
    BY <1>1, <2>1, <2>4
  <2>5. CASE u \notin S /\ v \notin S
    <3>1. L[u] = T[u] /\ L[v] = T[v]
      BY <2>1, <2>5
    <3>. QED  BY <3>1 DEF InOrder, Apart
  <2>. QED  BY <2>2, <2>3, <2>4, <2>5
<1>. QED  BY <1>2 DEF InOrder

\* Red and black passes take turns.
LEMMA ColoursAlternate ==
  ASSUME run \in Runs, NEW k \in Nat, PassAt(k + 2) \in {"red", "black"}
  PROVE  PassAt(k + 1) \in {"red", "black"} \ {PassAt(k + 2)}
<1>1. run.solver \in Solvers
  BY RunsAssumption
<1>2. PassesPerIteration \in {1, 2}
  BY PassCount
<1>3. PICK i, j : i = (k % PassesPerIteration) + 1 /\ j = ((k + 1) % PassesPerIteration) + 1
  OBVIOUS
<1>4. i \in 1..PassesPerIteration /\ j \in 1..PassesPerIteration
  BY <1>2, <1>3
<1>5. PassAt(k + 1) = Passes(run.solver)[i] /\ PassAt(k + 2) = Passes(run.solver)[j]
  <2>1. (k + 1) - 1 = k /\ (k + 2) - 1 = k + 1
    OBVIOUS
  <2>. QED  BY <1>3, <2>1 DEF PassAt
<1>6. ASSUME NEW a, NEW b, a \notin {"red", "black"}, b \notin {"red", "black"},
             Passes(run.solver) = <<a>> \/ Passes(run.solver) = <<a, b>>
      PROVE  FALSE
  <2>1. CASE Passes(run.solver) = <<a>>
    <3>1. j = 1
      BY <1>4, <2>1 DEF PassesPerIteration
    <3>. QED  BY <1>5, <1>6, <2>1, <3>1
  <2>2. CASE Passes(run.solver) = <<a, b>>
    <3>1. j = 1 \/ j = 2
      BY <1>4, <2>2 DEF PassesPerIteration
    <3>. QED  BY <1>5, <1>6, <2>2, <3>1
  <2>. QED  BY <1>6, <2>1, <2>2
<1>7. \/ Passes(run.solver) = <<"jacobi">>
      \/ Passes(run.solver) = <<"forward">>
      \/ Passes(run.solver) = <<"backward">>
      \/ Passes(run.solver) = <<"forward", "backward">>
      \/ Passes(run.solver) = <<"red", "black">>
      \/ Passes(run.solver) = <<"block_jacobi">>
      \/ Passes(run.solver) = <<"block_forward">>
  BY <1>1 DEF Passes, Solvers
<1>8. Passes(run.solver) = <<"red", "black">>
  BY <1>6, <1>7
<1>9. PassesPerIteration = 2
  BY <1>8 DEF PassesPerIteration
<1>10. (i = 1 /\ j = 2) \/ (i = 2 /\ j = 1)
  <2>1. k % 2 \in {0, 1} /\ (k + 1) % 2 = 1 - (k % 2)
    OBVIOUS
  <2>2. i = (k % 2) + 1 /\ j = ((k + 1) % 2) + 1
    BY <1>3, <1>9
  <2>. QED  BY <2>1, <2>2
<1>. QED  BY <1>5, <1>8, <1>10

\* Of what a pass reads something was written in the pass before, all of it
\* in this one if the pass is ordered.
LEMMA LastRead ==
  ASSUME run \in Runs, NEW k \in Nat
  PROVE  \E c \in ReadColours(PassAt(k + 1)) :
           /\ c \in Colours /\ Latest(c, k) = k
           /\ PassAt(k + 1) \in Ascending \cup Descending => Latest(c, k + 1) = k + 1
<1>1. PICK kind : kind = PassAt(k + 1)
  OBVIOUS
<1>2. PICK c \in Colours : c \in ReadColours(kind) /\ (k > 0 => c \in Written(PassAt(k)))
  <2>1. CASE kind \in {"red", "black"} /\ k > 0
    <3>1. PICK j \in Nat : k = j + 1
      <4>1. k - 1 \in Nat /\ k = (k - 1) + 1
        BY <2>1
      <4>. QED  BY <4>1
    <3>2. PassAt(j + 1) \in {"red", "black"} \ {kind}
      <4>1. k + 1 = j + 2
        BY <3>1
      <4>. QED  BY <1>1, <2>1, <4>1, ColoursAlternate
    <3>3. PassAt(k) \in {"red", "black"} \ {kind}
      BY <3>1, <3>2
    <3>4. PassAt(k) \in ReadColours(kind) /\ PassAt(k) \in Written(PassAt(k))
      BY <2>1, <3>3 DEF ReadColours, Written, Colours
    <3>. QED  BY <3>3, <3>4 DEF Colours
  <2>2. CASE kind \in {"red", "black"} /\ k = 0
    <3>1. (Colours \ Written(kind)) # {} /\ ReadColours(kind) = Colours \ Written(kind)
      BY <2>2 DEF ReadColours, Written, Colours
    <3>. QED  BY <2>2, <3>1
  <2>3. CASE kind \notin {"red", "black"}
    <3>1. ReadColours(kind) = Colours
      BY <2>3 DEF ReadColours
    <3>2. \E c \in Colours : c \in Written(PassAt(k))
      BY DEF Written, Colours
    <3>. QED  BY <3>1, <3>2
  <2>. QED  BY <2>1, <2>2, <2>3
<1>3. Latest(c, k) = k
  <2>1. CASE k = 0
    BY <1>2, <2>1, LatestIs
  <2>2. CASE k > 0
    <3>1. PICK j \in Nat : k = j + 1
      <4>1. k - 1 \in Nat /\ k = (k - 1) + 1
        BY <2>2
      <4>. QED  BY <4>1
    <3>. QED  BY <1>2, <2>2, <3>1, LatestIs
  <2>. QED  BY <2>1, <2>2
<1>4. kind \in Ascending \cup Descending => Latest(c, k + 1) = k + 1
  <2>1. kind \in Ascending \cup Descending => Written(kind) = Colours
    BY DEF Ascending, Descending, Written
  <2>. QED  BY <1>1, <1>2, <2>1, LatestIs
<1>. QED  BY <1>1, <1>2, <1>3, <1>4

\* The units of an item lie together.
LEMMA UnitsTogether ==
  ASSUME NEW kind, NEW i \in 1..ItemCount(kind), NEW S, S = UnitsIn(i, kind),
         NEW u \in S, NEW v \in Units \ S
  PROVE  (v < u <=> v < SetMin(S)) /\ (v > u <=> v > SetMax(S))
<1>1. N \in Nat /\ BlockCount \in 1..N /\ u \in Int /\ v \in Nat
  BY ItemUnits, SweepAssumption DEF Units
<1>2. PICK a, b \in Int : S = a..b
  <2>1. CASE FlatBlocks(kind)
    <3>1. PICK j : j = i - 1
      OBVIOUS
    <3>2. j \in 0..(BlockCount - 1)
      BY <1>1, <2>1, <3>1 DEF ItemCount
    <3>3. /\ block_partition(N, BlockCount, j).begin \in Int
          /\ block_partition(N, BlockCount, j).end \in Int
      BY <1>1, <3>2, BlockWithin
    <3>4. S = UnitsOf(block_partition(N, BlockCount, j))
      BY <2>1, <3>1 DEF UnitsIn
    <3>. QED  BY <3>3, <3>4 DEF UnitsOf
  <2>2. CASE ~ FlatBlocks(kind)
    <3>1. S = {i} /\ i \in Int
      BY <1>1, <2>2 DEF UnitsIn, ItemCount
    <3>2. S = i..i
      BY <3>1
    <3>. QED  BY <3>1, <3>2
  <2>. QED  BY <2>1, <2>2
<1>3. S \subseteq 0..N /\ S # {}
  BY <1>1, ItemUnits DEF Units
<1>4. SetMin(S) \in S /\ \A x \in S : SetMin(S) <= x
  BY <1>1, <1>3, SmallestOf
<1>5. SetMax(S) \in S /\ \A x \in S : SetMax(S) >= x
  BY <1>1, <1>3, LargestOf
<1>. QED  BY <1>1, <1>2, <1>4, <1>5

\* An update finds every unit beside it where its pass wants it: what its
\* inputs hold, NoStaleRead, is written by owners that far and no further.
LEMMA ReadyHere ==
  ASSUME DataControl, NEW T \in [Units -> Nat], ValuesUnder(T), InOrder(T),
         NEW r \in Ranks, UpdateItem(r), NEW i \in NextItems(r), NEW k, k = pass[r],
         NEW S, S = UnitsIn(i, PassAt(k + 1)), \A u \in S : T[u] = k
  PROVE  \A u \in S : \A v \in Beside(u) \ S : ReadyFor(T, v, u, k + 1)
<1>0. /\ Control /\ ControlTypes /\ CellTypes /\ RanksRight /\ (Grid => RingKept)
      /\ run \in Runs /\ k \in Nat /\ CellsUnder(T) /\ (k + 1) - 1 = k
  BY DataViews DEF Control, ControlTypes, ValuesUnder
<1>1. PICK kind, left, x : kind = PassAt(k + 1) /\ left = todo[r] /\ x = Source(r)
  OBVIOUS
<1>2. stage[r] = "pass" /\ phase[r] = "work" /\ left # {} /\ Kind(r) = kind
  BY <1>0, <1>1, WorkIsInPass DEF UpdateItem, Kind
<1>3. WorksHere(r)
  BY <1>0, <1>2 DEF RanksRight, RankHere, RankAt, HoldsRight, WorkedPhases, TakenPhases, WorksHere
<1>4. ReadsWell(r, S)
  BY <1>0, <1>1, <1>2, <1>3, UpdateReads
<1>5. SlotUnder(T, x)
  BY <1>0, <1>1, MineUnder DEF Source, Mine, CellsUnder, Slots
<1>6. i \in 1..ItemCount(kind) /\ S \subseteq Units /\ (S = {i} \/ ~ Grid)
  <2>1. i \in left /\ left \subseteq ItemsOf(r, kind)
    BY <1>0, <1>1, <1>2, <1>3, NextItemsAreItems DEF WorksHere, Works, RestOf
  <2>2. i \in 1..ItemCount(kind)
    BY <2>1, ItemNumbers
  <2>. QED  BY <1>1, <2>2, ItemUnits DEF UnitsIn, FlatBlocks
<1>7. SUFFICES ASSUME NEW u \in S, NEW v \in Beside(u) \ S PROVE ReadyFor(T, v, u, k + 1)
  OBVIOUS
<1>8. v \in Units /\ u \in Units /\ u # v /\ u \in Beside(v) /\ u \in Int /\ v \in Int
  BY <1>6, BesideBoth
<1>9. v \in Coupled(S) /\ v \in Stored
  BY <1>6, <1>7, <1>8, UnitsStored DEF Beside, Coupled
<1>10. T[u] = k /\ T[v] \in Nat
  BY <1>8
<1>11. PICK c \in ReadColours(kind) :
         /\ c \in Colours /\ Latest(c, k) = k
         /\ kind \in Ascending \cup Descending => Latest(c, k + 1) = k + 1
  BY <1>0, <1>1, LastRead
<1>12. x[v][c] = IF Before(v, S, kind) THEN Latest(c, k + 1) ELSE Latest(c, k)
  <2>1. x[v][c] = Sequential(v, c, S, k + 1)
    BY <1>0, <1>1, <1>2, <1>4, <1>9, <1>11 DEF ReadsWell
  <2>. QED  BY <1>0, <1>1, <1>8, <2>1 DEF Sequential
<1>13. x[v][c] <= T[v]
  BY <1>5, <1>8, <1>9, <1>11 DEF SlotUnder, Under
<1>14. Before(v, S, kind) <=> \/ kind \in Ascending /\ v < u
                              \/ kind \in Descending /\ v > u
  BY <1>6, <1>1, <1>8, UnitsTogether DEF Before, Ascending, Descending
<1>15. T[v] >= IF Before(v, S, kind) THEN k + 1 ELSE k
  BY <1>0, <1>10, <1>11, <1>12, <1>13, <1>14
<1>16. Apart(T, u, v) /\ Apart(T, v, u)
  BY <1>8 DEF InOrder
<1>17. T[v] = k \/ T[v] = k + 1
  BY <1>0, <1>10, <1>15, <1>16 DEF Apart
<1>18. T[v] = k + 1 => /\ Direction(kind) = "ascending" => v < u
                       /\ Direction(kind) = "descending" => v > u
  BY <1>0, <1>1, <1>10, <1>16 DEF Apart
<1>19. /\ Direction(kind) = "ascending" <=> kind \in Ascending
       /\ Direction(kind) = "descending" <=> kind \in Descending
       /\ Direction(kind) \in {"ascending", "descending", "parallel"}
  BY DirectionIs
<1>20. CASE Direction(kind) = "ascending"
  <2>1. T[v] = IF v < u THEN k + 1 ELSE k
    BY <1>0, <1>14, <1>15, <1>17, <1>18, <1>19, <1>20
  <2>. QED  BY <1>0, <1>1, <1>20, <2>1 DEF ReadyFor
<1>21. CASE Direction(kind) = "descending"
  <2>1. T[v] = IF v > u THEN k + 1 ELSE k
    BY <1>0, <1>14, <1>15, <1>17, <1>18, <1>19, <1>21
  <2>. QED  BY <1>0, <1>1, <1>21, <2>1 DEF ReadyFor
<1>22. CASE Direction(kind) = "parallel"
  <2>1. T[v] \in {k, k + 1}
    BY <1>17
  <2>. QED  BY <1>0, <1>1, <1>22, <2>1 DEF ReadyFor
<1>. QED  BY <1>19, <1>20, <1>21, <1>22

-----------------------------------------------------------------------------
(* What is inductive, in one repetition. *)

Ordering == StartsAtZero /\ ValuesUnder(Taken) /\ InOrder(Taken)

\* Before the first pass nothing is ahead of anything.
LEMMA OrderingStarts == Init => Ordering
<1>. SUFFICES ASSUME Init PROVE Ordering
  OBVIOUS
<1>1. StartsAtZero
  BY DEF Init, StartsAtZero
<1>2. ControlTypes /\ run \in Runs
  BY ControlStarts DEF Control, ControlTypes
<1>3. Taken \in [Units -> Nat]
  BY <1>2, TakenTypes
<1>4. ASSUME NEW u \in Units PROVE Taken[u] = 0
  <2>1. OwnerOf(u) \in Ranks
    <3>1. 0 \in Nat
      OBVIOUS
    <3>. QED  BY <1>2, <3>1, OwnerIs
  <2>2. stage[OwnerOf(u)] = "reset" /\ pass[OwnerOf(u)] = 0
    BY <2>1 DEF Init
  <2>. QED  BY <2>2, TakenIs DEF Taken, TakenBy, TakenIn
<1>5. PICK T : T = Taken
  OBVIOUS
<1>6. ValuesUnder(T)
  <2>1. CellsUnder(T)
    BY <1>3, <1>5, InitialUnder DEF Init, CellsUnder
  <2>2. WiresUnder(T)
    BY DEF Init, MpiInit, WiresUnder, WireUnder
  <2>3. LogsUnder(T)
    BY DEF Init, MpiInit, LogsUnder, Entered
  <2>. QED  BY <2>1, <2>2, <2>3 DEF ValuesUnder
<1>7. InOrder(T)
  BY <1>4, <1>5, BesideBoth DEF InOrder, Apart
<1>. QED  BY <1>1, <1>5, <1>6, <1>7 DEF Ordering

\* Of a single repetition no rank goes back to the reset.
LEMMA NoSecondReset ==
  ASSUME Repetitions = 1, Control, StartsAtZero, NEW r \in Ranks, Computes(r) \/ LeavesSend(r)
  PROVE  StartsAtZero'
<1>0. ControlTypes
  BY DEF Control
<1>1. OthersStay(r)
  BY <1>0, StepOfOne DEF ControlTypes
<1>2. SUFFICES stage'[r] = "reset" => pass'[r] = 0
  BY <1>1 DEF StartsAtZero, OthersStay
<1>3. /\ stage = [q \in Ranks |-> stage[q]]
      /\ rep[r] \in Nat
      /\ pass = [q \in Ranks |-> pass[q]]
  BY <1>0 DEF ControlTypes
<1>4. \A s, k : Begin(r, s, k) => stage'[r] = s
  BY <1>3 DEF Begin, Goto
<1>5. \A s, p : Goto(r, s, p) => stage'[r] = s
  BY <1>3 DEF Goto
<1>6. \A p : GotoPhase(r, p) => stage'[r] = stage[r]
  BY <1>5 DEF GotoPhase
<1>7. CASE stage'[r] = stage[r] /\ pass' = pass
  BY <1>7 DEF StartsAtZero
<1>8. CASE Reset(r)
  BY <1>5, <1>8 DEF Reset
<1>9. CASE LeaveBarrier(r)
  <2>1. ~ (rep[r] + 1 < Repetitions)
    BY <1>3
  <2>. QED  BY <1>4, <1>5, <1>9, <2>1 DEF LeaveBarrier
<1>10. CASE EndPass(r)
  <2>1. PICK k : \/ Begin(r, "pass", k) \/ Begin(r, "residual", k) \/ Begin(r, "synchronise", k)
    BY <1>10 DEF EndPass, Loop
  <2>. QED  BY <1>4, <2>1
<1>11. CASE LeaveReduce(r)
  <2>1. stage[r] \in {"rhs_norm", "initial", "residual"}
    <3>1. phase[r] \in PhasesOf(stage[r]) /\ stage[r] \in Stages
      BY DEF Control, Legal, LegalAt
    <3>. QED  BY <1>11, <3>1 DEF LeaveReduce, PhasesOf, HaloPhases, Stages
  <2>2. CASE stage[r] = "rhs_norm"
    BY <1>4, <1>11, <2>2 DEF LeaveReduce
  <2>3. CASE stage[r] = "initial"
    <3>1. Goto(r, "barrier_out", "start") \/ Loop(r, pass[r])
      BY <1>11, <2>3 DEF LeaveReduce
    <3>. QED  BY <1>4, <1>5, <3>1 DEF Loop
  <2>4. CASE stage[r] = "residual"
    <3>1. Loop(r, pass[r]) \/ Begin(r, "synchronise", pass[r])
      BY <1>11, <2>4 DEF LeaveReduce
    <3>. QED  BY <1>4, <3>1 DEF Loop
  <2>. QED  BY <2>1, <2>2, <2>3, <2>4
<1>12. CASE Finish(r)
  BY <1>5, <1>12 DEF Finish
<1>13. CASE UpdateItem(r)
  BY <1>7, <1>13 DEF UpdateItem
<1>14. CASE \/ EnterBarrier(r) \/ ExchangeHalo(r) \/ SendHaloDown(r) \/ HaloDone(r)
            \/ Gather(r) \/ GatherRows(r) \/ StoreRows(r) \/ HandOn(r)
            \/ HandedOn(r) \/ LeaveBcast(r) \/ WorkDone(r) \/ Evaluate(r)
  BY <1>6, <1>7, <1>14
     DEF EnterBarrier, ExchangeHalo, SendHaloDown, HaloDone, Gather, GatherRows, StoreRows,
         HandOn, HandedOn, LeaveBcast, WorkDone, Evaluate
<1>15. CASE TakeLowerHalo(r) \/ TakeUpperHalo(r) \/ StartPass(r) \/ TakeTurn(r)
  BY <1>6, <1>7, <1>15 DEF TakeLowerHalo, TakeUpperHalo, TakeHalo, StartPass, TakeTurn
<1>. QED  BY <1>8, <1>9, <1>10, <1>11, <1>12, <1>13, <1>14, <1>15 DEF Computes, LeavesSend

\* The next state, by what the units have taken then.
LEMMA OrderNext ==
  ASSUME NEW T, run' = run, Taken' = T, ValuesUnder(T)', InOrder(T)
  PROVE  ValuesUnder(Taken)' /\ InOrder(Taken)'
<1>1. CellsUnder(Taken)'
  BY DEF ValuesUnder, CellsUnder, SlotUnder, Under
<1>2. WiresUnder(Taken)'
  BY DEF ValuesUnder, WiresUnder, WireUnder, MessageUnder, SlotUnder, Under
<1>3. LogsUnder(Taken)'
  BY DEF ValuesUnder, LogsUnder, BroughtUnder, Under
<1>4. InOrder(Taken)'
  <2>1. \A k : PassAt(k)' = PassAt(k)
    BY ScheduleFixed
  <2>2. \A u \in Units : \A v \in Beside(u) : Apart(T, u, v)'
    BY <2>1 DEF InOrder, Apart
  <2>3. \A u \in Units : \A v \in Beside(u) : Apart(Taken, u, v)'
    BY <2>2 DEF Apart, PassAt, PassesPerIteration
  <2>. QED  BY <2>3 DEF InOrder
<1>. QED  BY <1>1, <1>2, <1>3, <1>4 DEF ValuesUnder

\* A step that updates nothing leaves every unit where it was.
LEMMA OrderStays ==
  ASSUME DataControl, Ordering, NEW r \in Ranks, Computes(r) \/ LeavesSend(r), ~ UpdateItem(r)
  PROVE  Taken' = Taken /\ ValuesUnder(Taken)' /\ InOrder(Taken)'
<1>1. Control /\ ControlTypes /\ run' = run
  BY DataViews, StepOfOne DEF Control, ControlTypes, OthersStay
<1>2. PICK T \in [Units -> Nat] : T = Taken
  BY <1>1, TakenTypes
<1>3. Taken' = T
  BY <1>2, TakenKept DEF Ordering, Taken
<1>4. ValuesUnder(T)'
  BY <1>2, NothingNewer DEF Ordering
<1>5. InOrder(T)
  BY <1>2 DEF Ordering
<1>. QED  BY <1>1, <1>2, <1>3, <1>4, <1>5, OrderNext

\* An update: the units of one item take the pass, and every unit beside them
\* is where the pass wants it.
LEMMA OrderAtUpdate ==
  ASSUME DataControl, Ordering, NEW r \in Ranks, UpdateItem(r)
  PROVE  /\ ValuesUnder(Taken)' /\ InOrder(Taken)'
         /\ \E S \in SUBSET Units : \E k \in 0..(Last - 1) :
              /\ S # {} /\ \A u \in S : Taken[u] = k
              /\ \A u \in S : \A v \in Beside(u) \ S : ReadyFor(Taken, v, u, k + 1)
              /\ Taken' = [u \in Units |-> IF u \in S THEN k + 1 ELSE Taken[u]]
<1>1. Control /\ ControlTypes /\ run' = run
  BY DataViews, StepOfOne DEF Control, ControlTypes, OthersStay, Computes
<1>2. PICK k : k = pass[r]
  OBVIOUS
<1>3. PICK i \in NextItems(r) :
        /\ cell' = [cell EXCEPT ![r][Target(r)] = Updated(r, UnitsIn(i, Kind(r)))]
        /\ todo' = [todo EXCEPT ![r] = @ \ {i}]
  BY DEF UpdateItem
<1>4. PICK S : S = UnitsIn(i, PassAt(k + 1))
  OBVIOUS
<1>5. cell' = [cell EXCEPT ![r][Target(r)] = Updated(r, S)]
  BY <1>2, <1>3, <1>4 DEF Kind
<1>6. PICK T \in [Units -> Nat] : T = Taken
  BY <1>1, TakenTypes
<1>7. /\ k \in Nat /\ S \in SUBSET Units /\ S # {}
      /\ \A u \in S : PassesTaken(u) = k
      /\ \A u \in Units : PassesTaken(u)' = IF u \in S THEN k + 1 ELSE PassesTaken(u)
  <2>1. Strikes(r, i)
    BY <1>3 DEF Strikes
  <2>2. /\ k \in Nat /\ S \subseteq Units /\ S # {}
        /\ \A u \in S : PassesTaken(u) = k
        /\ \A u \in Units : PassesTaken(u)' = IF u \in S THEN k + 1 ELSE PassesTaken(u)
    BY <1>2, <1>4, <2>1, TakenAtUpdate
  <2>. QED  BY <2>2
<1>8. \A u \in S : T[u] = k
  BY <1>6, <1>7 DEF Taken
<1>9. ValuesUnder(T) /\ InOrder(T)
  BY <1>6 DEF Ordering
<1>10. \A u \in S : \A v \in Beside(u) \ S : ReadyFor(T, v, u, k + 1)
  BY <1>2, <1>3, <1>4, <1>6, <1>8, <1>9, ReadyHere
<1>11. PICK L : L = [u \in Units |-> IF u \in S THEN k + 1 ELSE T[u]]
  OBVIOUS
<1>12. Taken' = L
  BY <1>6, <1>7, <1>11 DEF Taken
<1>13. InOrder(L)
  BY <1>6, <1>7, <1>8, <1>9, <1>10, <1>11, OrderGoesOn
<1>14. /\ T \in [Units -> Int] /\ L \in [Units -> Int]
       /\ \A u \in Units : T[u] <= L[u]
       /\ \A u \in S : u \in Units /\ L[u] = k + 1
  BY <1>6, <1>7, <1>8, <1>11
<1>15. ValuesUnder(L)
  BY <1>9, <1>14, UnderLonger
<1>16. k \in Int
  BY <1>7
<1>17. ValuesUnder(L)'
  BY <1>2, <1>5, <1>14, <1>15, <1>16, UpdateUnder
<1>18. ValuesUnder(Taken)' /\ InOrder(Taken)'
  BY <1>1, <1>12, <1>13, <1>17, OrderNext
<1>19. k \in 0..(Last - 1)
  BY <1>1, <1>2, WorkIsInPass DEF UpdateItem
<1>20. /\ \A u \in S : Taken[u] = k
       /\ \A u \in S : \A v \in Beside(u) \ S : ReadyFor(Taken, v, u, k + 1)
       /\ Taken' = [u \in Units |-> IF u \in S THEN k + 1 ELSE Taken[u]]
  BY <1>6, <1>8, <1>10, <1>11, <1>12
<1>. QED  BY <1>7, <1>18, <1>19, <1>20

\* The whole is inductive.
LEMMA OrderingKept ==
  ASSUME Repetitions = 1
  PROVE  DataControl /\ Ordering /\ [Next]_vars => Ordering'
<1>. SUFFICES ASSUME DataControl, Ordering, [Next]_vars PROVE Ordering'
  OBVIOUS
<1>1. CASE UNCHANGED vars
  <2>1. PICK T : T = Taken
    OBVIOUS
  <2>2. /\ run' = run /\ stage' = stage /\ phase' = phase /\ pass' = pass /\ todo' = todo
        /\ cell' = cell /\ wire' = wire /\ calls' = calls
    BY <1>1 DEF vars
  <2>3. Taken' = T
    <3>1. \A u \in Units : PassesTaken(u)' = PassesTaken(u)
      BY <2>2, OwnerFixed, TakenIs, TakenNextIs DEF TakenBy, TakenNext
    <3>. QED  BY <2>1, <3>1 DEF Taken
  <2>4. ValuesUnder(T) /\ InOrder(T) /\ StartsAtZero
    BY <2>1 DEF Ordering
  <2>5. ValuesUnder(T)'
    BY <2>2, <2>4, CellsUnderStay, WiresUnderStay, LogsUnderStay DEF ValuesUnder
  <2>6. StartsAtZero'
    BY <2>2, <2>4 DEF StartsAtZero
  <2>. QED  BY <2>2, <2>3, <2>4, <2>5, <2>6, OrderNext DEF Ordering
<1>2. ASSUME NEW r \in Ranks, Computes(r) \/ LeavesSend(r) PROVE Ordering'
  <2>1. StartsAtZero'
    BY <1>2, DataViews, NoSecondReset DEF Ordering
  <2>2. ValuesUnder(Taken)' /\ InOrder(Taken)'
    BY <1>2, OrderStays, OrderAtUpdate
  <2>. QED  BY <2>1, <2>2 DEF Ordering
<1>. QED  BY <1>1, <1>2 DEF Next, AllFinished

-----------------------------------------------------------------------------
(* The passes promise what Wavefront says of them. *)

PlanOf == [k \in 1..Last |-> Direction(PassAt(k))]

\* The plan of the refinement mapping is one of the plans.
LEMMA PlanIs ==
  ASSUME run \in Runs
  PROVE  /\ PlanOf \in Seq({"ascending", "descending", "parallel"})
         /\ Len(PlanOf) = Last /\ Last \in Nat
<1>1. Last \in Nat
  BY PassCount
<1>2. PlanOf \in [1..Last -> {"ascending", "descending", "parallel"}]
  BY DirectionIs DEF PlanOf
<1>3. PlanOf \in Seq({"ascending", "descending", "parallel"})
  BY <1>1, <1>2, SeqDef
<1>4. Len(PlanOf) \in Nat /\ DOMAIN PlanOf = 1..Len(PlanOf) /\ DOMAIN PlanOf = 1..Last
  BY <1>2, <1>3, LenProperties
<1>5. ASSUME NEW m \in Nat, NEW n \in Nat, 1..m = 1..n PROVE m = n
  <2>1. ~ m < n /\ ~ n < m
    <3>1. (n > 0 => n \in 1..m) /\ (m > 0 => m \in 1..n)
      BY <1>5
    <3>. QED  BY <3>1
  <2>. QED  BY <2>1
<1>6. Len(PlanOf) = Last
  BY <1>1, <1>4, <1>5
<1>. QED  BY <1>1, <1>3, <1>6

\* The plan of a solve does not change.
LEMMA PlanStays ==
  ASSUME run' = run
  PROVE  PlanOf' = PlanOf
<1>1. Last' = Last /\ \A k : Direction(PassAt(k))' = Direction(PassAt(k))
  BY ScheduleFixed DEF Direction, Ordered
<1>. QED  BY <1>1 DEF PlanOf

\* The initial states map to initial states.
LEMMA WavefrontStarts == Init => WF!Init
<1>. SUFFICES ASSUME Init PROVE WF!Init
  OBVIOUS
<1>1. run \in Runs /\ ControlTypes
  BY ControlStarts DEF Control, ControlTypes
<1>2. \A u \in Units : PassesTaken(u) = 0
  <2>1. ASSUME NEW u \in Units PROVE PassesTaken(u) = 0
    <3>1. OwnerOf(u) \in Ranks
      <4>1. 0 \in Nat
        OBVIOUS
      <4>. QED  BY <1>1, <4>1, OwnerIs
    <3>2. stage[OwnerOf(u)] = "reset" /\ pass[OwnerOf(u)] = 0
      BY <3>1 DEF Init
    <3>. QED  BY <3>2, TakenIs DEF TakenBy, TakenIn
  <2>. QED  BY <2>1
<1>3. PlanOf \in Seq({"ascending", "descending", "parallel"})
  BY <1>1, PlanIs
<1>. QED  BY <1>2, <1>3 DEF WF!Init, PlanOf, Last

\* An update that finds its neighbours ready is a step of Wavefront.
LEMMA WavefrontUpdates ==
  ASSUME run \in Runs, run' = run, NEW S \in SUBSET Units, NEW k \in 0..(Last - 1),
         S # {}, \A u \in S : Taken[u] = k,
         \A u \in S : \A v \in Beside(u) \ S : ReadyFor(Taken, v, u, k + 1),
         Taken' = [u \in Units |-> IF u \in S THEN k + 1 ELSE Taken[u]]
  PROVE  WF!Next
<1>1. Len(PlanOf) = Last /\ Last \in Nat
  BY PlanIs
<1>2. k + 1 \in 1..Len(PlanOf) /\ (k + 1) - 1 = k /\ k \in Nat
  BY <1>1
<1>3. PlanOf[k + 1] = Direction(PassAt(k + 1))
  BY <1>1, <1>2 DEF PlanOf
<1>4. PlanOf' = PlanOf
  BY PlanStays
<1>5. \A u \in S : \A v \in [w \in Units |-> Beside(w)][u] \ S : WF!Ready(v, u, k + 1)
  <2>1. ASSUME NEW u \in S, NEW v \in Beside(u) \ S
        PROVE  WF!Ready(v, u, k + 1)
    <3>1. v \in Units
      BY <2>1, BesideBoth
    <3>2. ReadyFor(Taken, v, u, k + 1) /\ Taken[v] = PassesTaken(v)
      BY <2>1, <3>1 DEF Taken
    <3>. QED  BY <1>3, <3>1, <3>2, DirectionIs DEF ReadyFor, WF!Ready, PlanOf, Last
  <2>. QED  BY <2>1
<1>6. WF!Take(S, k + 1)
  <2>1. \A u \in S : \A v \in [w \in Units |-> (Coupled({w}) \cap Units) \ {w}][u] \ S :
          WF!Ready(v, u, k + 1)
    BY <1>5 DEF Beside
  <2>. QED  BY <1>2, <1>4, <2>1 DEF WF!Take, Taken, PlanOf, Last
<1>7. S \in SUBSET {u \in Units : [w \in Units |-> PassesTaken(w)][u] = (k + 1) - 1}
  BY <1>2 DEF Taken
<1>. QED  BY <1>2, <1>6, <1>7 DEF WF!Next, PlanOf, Last

\* Every step maps to a step or a stutter.
LEMMA WavefrontSteps == DataControl /\ Ordering /\ [Next]_vars => [WF!Next]_(WF!vars)
<1>. SUFFICES ASSUME DataControl, Ordering, [Next]_vars PROVE [WF!Next]_(WF!vars)
  OBVIOUS
<1>1. Control /\ ControlTypes /\ run \in Runs
  BY DataViews DEF Control, ControlTypes
<1>2. ASSUME run' = run, Taken' = Taken PROVE UNCHANGED WF!vars
  BY <1>2, PlanStays DEF WF!vars, Taken, PlanOf, Last
<1>3. CASE UNCHANGED vars
  <2>1. /\ run' = run /\ stage' = stage /\ phase' = phase /\ pass' = pass /\ todo' = todo
    BY <1>3 DEF vars
  <2>2. Taken' = Taken
    <3>1. \A u \in Units : PassesTaken(u)' = PassesTaken(u)
      BY <2>1, TakenIs, TakenNextIs, OwnerFixed DEF TakenBy, TakenNext
    <3>. QED  BY <3>1 DEF Taken
  <2>. QED  BY <1>2, <2>1, <2>2
<1>4. ASSUME NEW r \in Ranks, Computes(r) \/ LeavesSend(r) PROVE [WF!Next]_(WF!vars)
  <2>1. run' = run
    BY <1>1, <1>4, StepOfOne DEF OthersStay
  <2>2. CASE UpdateItem(r)
    BY <1>1, <2>1, <2>2, OrderAtUpdate, WavefrontUpdates
  <2>3. CASE ~ UpdateItem(r)
    BY <1>2, <1>4, <2>1, <2>3, OrderStays
  <2>. QED  BY <2>2, <2>3
<1>. QED  BY <1>3, <1>4 DEF Next, AllFinished

\* However the units are spread over the ranks, whatever the method, and
\* whatever the interleaving: no unit takes a pass before the units it is
\* coupled to are where that pass requires them, so run_ordered, exchange_halo
\* and gather_rows let a distributed repetition update in an order Wavefront
\* allows (mpi_backend.cpp; the passes of poisson2d.hpp, dense_generator.hpp).
THEOREM SweepImplementsWavefront == Repetitions = 1 => (Spec => ImplementsWavefront)
<1>. SUFFICES ASSUME Repetitions = 1 PROVE Spec => ImplementsWavefront
  OBVIOUS
<1>1. Init => DataControl /\ Ordering /\ WF!Init
  BY DataControlStarts, OrderingStarts, WavefrontStarts
<1>2. DataControl /\ Ordering /\ [Next]_vars => DataControl' /\ Ordering'
  BY DataControlKept, OrderingKept
<1>3. DataControl /\ Ordering /\ [Next]_vars => [WF!Next]_(WF!vars)
  BY WavefrontSteps
<1>. QED  BY <1>1, <1>2, <1>3, PTL DEF Spec, ImplementsWavefront, WF!Spec

=============================================================================
