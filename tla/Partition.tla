------------------------------ MODULE Partition ------------------------------
(***************************************************************************)
(* The partition policy every backend shares: how [0, n) is cut into       *)
(* contiguous blocks (core/types.hpp) and how many chunks a parallel_for   *)
(* or a deterministic reduce issues (backend/chunking.hpp).                *)
(*                                                                         *)
(* Index is a signed 64 bit integer in the code.  The products below stay  *)
(* under n for every legal argument, so the model uses unbounded integers. *)
(***************************************************************************)
EXTENDS Integers

\* The smaller of two indices (std::min).
Lesser(a, b) == IF a <= b THEN a ELSE b

\* The larger of two indices (std::max).
Greater(a, b) == IF a >= b THEN a ELSE b

\* Half open index ranges [begin, end).
RangeOf(begin, end) == [begin |-> begin, end |-> end]
EmptyRange == RangeOf(0, 0)
InRange(i, r) == r.begin <= i /\ i < r.end
RangeSize(r) == r.end - r.begin

-----------------------------------------------------------------------------
\* Fault: the blocks after the first do not make room for the extra elements.
BlockBeginUnshifted(n, parts, k) == k * (n \div parts)

\* First element of block k when the first n % parts blocks get one extra.
BlockBegin(n, parts, k) == k * (n \div parts) + Lesser(k, n % parts)

\* Number of elements of block k.
BlockSize(n, parts, k) ==
  (n \div parts) + (IF k < n % parts THEN 1 ELSE 0)

block_partition(n, parts, k) ==
  IF parts <= 0 \/ k < 0 \/ k >= parts
  THEN EmptyRange
  ELSE RangeOf(BlockBegin(n, parts, k),
               BlockBegin(n, parts, k) + BlockSize(n, parts, k))

-----------------------------------------------------------------------------
\* Chunks of a deterministic reduction: a function of n and the library's
\* constant cap (DETERMINISTIC_CHUNKS = 512), never of the worker count.
reduction_chunk_count(n, cap) == IF n <= 0 THEN 0 ELSE Lesser(cap, n)

\* Chunks of a parallel_for under each schedule.
for_chunk_count(n, workers, schedule, chunks_per_worker) ==
  IF n <= 0 \/ workers <= 0 THEN 0
  ELSE IF schedule = "Static" THEN Lesser(workers, n)
  ELSE Lesser(workers * Greater(chunks_per_worker, 1), n)

reduction_chunk(n, cap, k) ==
  block_partition(n, reduction_chunk_count(n, cap), k)

for_chunk(n, workers, schedule, chunks_per_worker, k) ==
  block_partition(n, for_chunk_count(n, workers, schedule, chunks_per_worker), k)

=============================================================================
