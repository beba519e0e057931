----------------------------- MODULE PinnedTeams -----------------------------
(***************************************************************************)
(* Which processors the threads of one process may run on, over a series   *)
(* of backends made and destroyed in it.  A backend with a pinning policy  *)
(* binds the calling thread and its workers; what is left of that after it *)
(* is gone, or after its constructor threw, decides where the next one     *)
(* runs.  The pthreads and jthread pools own their threads; the OpenMP     *)
(* backend borrows libgomp's team, which outlives it; the serial backend   *)
(* has the caller's thread alone.                                          *)
(*                                                                         *)
(* The distributed backends, which bind for the life of the process, and   *)
(* the two policies that need the timing probe are not here.  One backend  *)
(* is alive at a time, as in the driver and the tests.                     *)
(***************************************************************************)
EXTENDS Integers, FiniteSets

CONSTANTS
    CpuCount,       \* processors of the machine
    SiblingOf,      \* SiblingOf[c] leads the physical core of processor c
    MaxWorkers,     \* bound on workers asked for
    Launches        \* how a process may be started, and what it makes: the
                    \* mask it is given; whether it is in a container, where
                    \* no other processor is granted; the most threads the
                    \* OpenMP runtime gives a region in it; the most workers
                    \* it asks for; and its requests, pairs of a kind, "serial",
                    \* "pool" or "openmp", and a policy, "none", "compact"
                    \* or "scatter"

Cpus == 0 .. CpuCount - 1

ASSUME PinningAssumption ==
    /\ CpuCount \in Nat \ {0}
    /\ SiblingOf \in [Cpus -> Cpus]
    /\ MaxWorkers \in Nat \ {0}
    /\ \A l \in Launches :
          /\ l.mask \in (SUBSET Cpus) \ {{}}
          /\ l.enforced \in BOOLEAN
          /\ l.threads \in Nat \ {0}
          /\ l.workers \in 1 .. MaxWorkers

VARIABLES
    launch,     \* how this process was started
    caller,     \* the calling thread's mask
    team,       \* masks of libgomp's other threads, {} where there is none
    own,        \* masks of the live pool's own threads
    logical,    \* the cached processor count, 0 before the first backend
    backend     \* the live backend, or None

vars == <<launch, caller, team, own, logical, backend>>

None == [kind |-> "none"]
Others == 1 .. MaxWorkers - 1
NoThreads == [w \in Others |-> {}]

Init ==
    /\ launch \in Launches
    /\ caller = launch.mask
    /\ team = NoThreads
    /\ own = NoThreads
    /\ logical = 0
    /\ backend = None

-----------------------------------------------------------------------------

\* available_logical_cpus_impl, asked on a thread with this mask.
available_logical_cpus(mask) == Cardinality(mask)

\* core_leaders: the processors below the count that lead their core.
core_leaders(count) ==
    LET leaders == {c \in 0 .. count - 1 : SiblingOf[c] = c}
    IN IF leaders = {} THEN 0 .. count - 1 ELSE leaders

\* The leader that so many others come before.
nth_leader(n, count) ==
    CHOOSE c \in core_leaders(count) :
        Cardinality({l \in core_leaders(count) : l < c}) = n

\* Fault: the last processor takes every worker too many by one.
crowded_worker(policy, worker, count) ==
    IF worker < count - 1 THEN worker ELSE count - 2

\* Where a worker is bound, given the cached processor count.
cpu_for_worker(policy, worker, count) ==
    IF policy = "scatter" /\ worker < Cardinality(core_leaders(count))
      THEN nth_leader(worker, count)
      ELSE worker % count

\* pin_this_thread: whether the operating system grants the processor.
Granted(cpu) == launch.enforced => cpu \in launch.mask

\* pin_worker: the mask of a thread after it has asked for a processor.
Pinned(mask, cpu) == IF Granted(cpu) THEN {cpu} ELSE mask

\* A backend being made: its kind, policy and workers, and the caller's mask
\* as ThreadAffinity saves it.
Request(kind, policy, requested) ==
    [kind |-> kind, policy |-> policy, saved |-> caller,
     workers |-> IF kind = "serial" THEN 1
                 ELSE IF requested > 0 THEN requested
                 ELSE available_logical_cpus(caller)]

\* shared_topology: the count is read once in the life of the process.
Counted == IF logical = 0 THEN available_logical_cpus(caller) ELSE logical

Target(b, w) == cpu_for_worker(b.policy, w, Counted)

WorkersOf(b) == 0 .. b.workers - 1

AllGranted(b) ==
    b.policy # "none" => \A w \in WorkersOf(b) : Granted(Target(b, w))

\* Masks of the threads 1.. of a backend, so many of which bind themselves and
\* had these before.
Bound(b, threads, before) ==
    [w \in Others |->
        IF w < threads /\ b.policy # "none"
          THEN Pinned(before[w], Target(b, w)) ELSE before[w]]

\* The threads of a parallel region that asks for so many: no more than the
\* runtime's limit, OMP_THREAD_LIMIT, allows.
Given(workers) == IF workers <= launch.threads THEN workers ELSE launch.threads

\* Its threads: those missing are created with the caller's mask, those in
\* excess may be let go.
Region(workers) ==
    {[w \in Others |->
        IF w < Given(workers) THEN IF team[w] = {} THEN caller ELSE team[w]
        ELSE IF keep THEN team[w] ELSE {}] : keep \in BOOLEAN}

\* The caller as worker zero.
CallerBound(b) ==
    IF b.policy = "none" THEN caller ELSE Pinned(caller, Target(b, 0))

MakeSerial(b) ==
    /\ b.kind = "serial"
    /\ caller' = CallerBound(b)
    /\ backend' = IF AllGranted(b) THEN b ELSE None
    /\ UNCHANGED <<team, own>>

\* The pools bind the caller and threads of their own; a refusal takes the
\* threads down, and the saved mask is put back as the members go.
MakePool(b) ==
    /\ b.kind = "pool"
    /\ IF AllGranted(b)
         THEN /\ caller' = CallerBound(b)
              /\ own' = [w \in Others |->
                           IF w < b.workers
                             THEN Bound(b, b.workers, [v \in Others |-> caller])[w]
                             ELSE {}]
              /\ backend' = b
         ELSE /\ caller' = b.saved
              /\ own' = NoThreads
              /\ backend' = None
    /\ UNCHANGED team

\* apply_pinning: every thread was bound, and there was one for each worker.
AllBound(b) ==
    AllGranted(b) /\ (b.policy = "none" \/ Given(b.workers) = b.workers)

\* The OpenMP backend binds the team inside a parallel region, and enters
\* none when nothing is to be bound.  A refusal, or a team smaller than asked,
\* ends with a throw, which puts the caller's mask back and leaves the team as
\* it is.
MakeOpenMp(b) ==
    /\ b.kind = "openmp"
    /\ IF b.policy = "none" THEN UNCHANGED team
       ELSE \E threads \in Region(b.workers) :
               team' = Bound(b, Given(b.workers), threads)
    /\ caller' = IF AllBound(b) THEN CallerBound(b) ELSE b.saved
    /\ backend' = IF AllBound(b) THEN b ELSE None
    /\ UNCHANGED own

\* make_backend: the topology is looked up before the constructor runs.
Make ==
    /\ backend = None
    /\ UNCHANGED launch
    /\ logical' = Counted
    /\ \E r \in launch.requests, requested \in 0 .. launch.workers :
          LET b == Request(r[1], r[2], requested)
          IN /\ b.workers <= launch.workers
             /\ MakeSerial(b) \/ MakePool(b) \/ MakeOpenMp(b)

\* Work is dispatched: an OpenMP backend enters a region of its size.
Run ==
    /\ backend.kind = "openmp"
    /\ team' \in Region(backend.workers)
    /\ UNCHANGED <<launch, caller, own, logical, backend>>

\* Fault: only the calling thread is given its mask back.
DestroyCallerOnly ==
    /\ backend # None
    /\ caller' = IF backend.kind = "serial" THEN caller ELSE backend.saved
    /\ own' = NoThreads
    /\ backend' = None
    /\ UNCHANGED <<launch, team, logical>>

\* Fault: the pools keep the caller bound.
DestroyNoRestore ==
    /\ backend # None
    /\ own' = NoThreads
    /\ backend' = None
    /\ UNCHANGED <<launch, caller, team, logical>>

\* The backend is destroyed.  OpenMP gives the whole team the saved mask,
\* the pools the caller alone, the serial backend no one.
Destroy ==
    /\ backend # None
    /\ caller' = IF backend.kind = "serial" THEN caller ELSE backend.saved
    /\ IF backend.kind = "openmp" /\ backend.policy # "none"
         THEN \E threads \in Region(backend.workers) :
                 team' = [w \in Others |-> IF w < Given(backend.workers)
                                             THEN backend.saved ELSE threads[w]]
         ELSE UNCHANGED team
    /\ own' = NoThreads
    /\ backend' = None
    /\ UNCHANGED <<launch, logical>>

Next == Make \/ Run \/ Destroy

Spec == Init /\ [][Next]_vars

-----------------------------------------------------------------------------

\* The mask each worker of the live backend runs under; an OpenMP thread
\* that does not exist yet will start with the caller's.
WorkerMask(w) ==
    IF w = 0 THEN caller
    ELSE IF backend.kind = "pool" THEN own[w]
    ELSE IF team[w] = {} THEN caller ELSE team[w]

Live == backend # None

(***************************************************************************)
(* "A backend gives the calling thread its affinity mask back"             *)
(* (tests/unit/test_pinning.cpp 14): with no backend alive the caller has  *)
(* the mask the process started with, whatever was made, refused and       *)
(* destroyed before.                                                       *)
(***************************************************************************)
CallerGetsItsMaskBack == ~Live => caller = launch.mask

(***************************************************************************)
(* A backend that asked for no pinning runs on no thread an earlier one    *)
(* bound: what its row calls not_requested is so (openmp.hpp 54-65).       *)
(***************************************************************************)
UnpinnedRunsFree ==
    Live /\ backend.policy = "none" =>
        \A w \in WorkersOf(backend) : WorkerMask(w) = launch.mask

(***************************************************************************)
(* A backend that reports bound has each worker on one processor, and no   *)
(* two on the same one while there are processors for all of them          *)
(* (topology.hpp 465-478): "Scatter: one worker per physical core before   *)
(* using any sibling thread", then "filling the siblings".                 *)
(***************************************************************************)
BoundApart ==
    Live /\ backend.policy # "none" =>
        /\ \A w \in WorkersOf(backend) : Cardinality(WorkerMask(w)) = 1
        /\ backend.workers <= logical =>
             \A v, w \in WorkersOf(backend) :
                WorkerMask(v) = WorkerMask(w) => v = w
=============================================================================
