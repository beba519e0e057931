# A TLA+ model of the Parallel Numerical Library

The library solves two linear systems (the five point Poisson problem and a
dense one) with twelve iterative methods, on one thread, on three kinds of
thread team, across MPI ranks, across ranks with a team each, and on a GPU. Its
claim is that the backend never changes the answer, and a benchmark campaign is
built on that claim. The modules here model the parts in which the claim can
fail for reasons a unit test seldom meets: the order in which threads, ranks and
sessions take their steps, what they have read by then, and what is left when
one of them fails.

Paths below are relative to the repository. `include/` stands for
`include/pnl/`.

## Running it

    tlc -config MCPthreadsPool.cfg MCPthreadsPool.tla
    tlapm PthreadsPoolProofs.tla

Each `.cfg` is run on the module named in the table of runs below.
`PROJECT.json` lists the runs, the source lines of every definition, the
hazards, and for each checked property a mutation of the model it catches: the
operators commented `Fault:` are plausible bugs, one next to the definition each
would replace, and no specification uses them.

## 1. The system

### Inventory

| part | state | operations | talks to |
|---|---|---|---|
| partition policy `include/core/types.hpp`, `backend/chunking.hpp` | none | `block_partition`, `for_chunk`, `reduction_chunk` | called by every backend and problem |
| exception relay `backend/backend.hpp` | two atomic flags, one exception | `capture` (per chunk), `rethrow` (after the join) | workers, then the owning thread |
| pthreads pool `src/backend/pthreads_pool.cpp` | task, `generation_`, `outstanding_`, `pin_reports_`, `shutting_down_`, one mutex, three conditions | construct, `parallel_for`, `reduce`, destroy | workers through the mutex; the relay |
| jthread pool `backend/jthread_pool.hpp` | task, two barriers, a latch, stop tokens, `stopping_` | the same | workers through the barriers; the relay |
| OpenMP, serial `backend/openmp.hpp`, `serial.hpp` | affinity saved from the caller; libgomp's team | the same | the OpenMP runtime, whose threads outlive the object |
| placement `backend/topology.hpp`, `src/backend/factory.cpp` | cached processor count, thread masks | `pin_worker`, `cpu_for_worker`, `make_backend` | every constructor |
| MPI backend `src/backend/mpi_runtime.cpp` | rank, band, segment buffers | `exchange_halo`, `gather_rows`, `run_ordered`, `reduce`, `barrier` | other ranks, by messages and collectives |
| hybrid backend | as MPI, and a team per rank | overrides the two local loops only | as MPI |
| problems `include/problems/` | right hand side, operator | the sweeps, `residual`, `synchronise`, inner products | the backend; which rows, halos and gathers a sweep needs is decided here |
| stationary methods `include/solvers/` | a workspace of iterate, work buffer and for blocks a snapshot | one `sweep` closure each, the shared `run_stationary` | problem and backend |
| Richardson, conjugate gradient | workspace, carried residual | their own loops | problem and backend |
| timed solve `bench/timed_solve.hpp`, driver `src/main.cpp` | per rank status, repetitions, one row | initialise, construct, repeat between barriers, print on the root, abort or finalise | MPI, standard output, the exit status |
| campaign `benchmarks/run_sweep.py` | `summary.csv`, manifests, the rows in memory | resume, measure, replace the summary, write the manifest, refresh the bandwidth | the driver through its row and exit status |
| publication `scripts/gen_report_assets.py` | none | choose one generation of rows and its manifest | the results directory |
| registries | name tables filled before the first lookup | register, look up | the driver |
| direct factorisations, roots, quadrature, initial value problems `include/numerics/` | local | one call each | none |
| CUDA `src/cuda/`, `run_cuda` in `src/main.cpp` | device arrays, events, the last error | upload, one kernel or two per sweep, reductions, copy back | the CUDA runtime, any call of which may fail; the row |

Calls go down: campaign, driver, timed solve, method, problem, backend,
threads or ranks. What comes back up is a value, an exception (through the
relay, and across ranks through `MPI_Abort`) or an exit status.

### What is hard, and what correct means

* **The pools.** The task is published in plain members. A worker may be on its
  way out of one dispatch while the owner publishes the next; a wakeup may be
  spurious or come before the wait; several chunks may throw at once; a thread
  may fail to start or to bind after others did. Correct: every chunk of a
  dispatch runs exactly once and before the call returns; nothing runs outside a
  dispatch; the call throws iff a chunk of *this* call threw and throws one of
  those exceptions; constructor and destructor end.
* **The distributed passes.** Each rank keeps a copy of everything and owns a
  band. Each pass decides by itself what has to be refreshed. `MPI_Send` may or
  may not wait for its receiver. Correct: each update reads exactly what the
  sequential method reads at that point of that pass, on any number of ranks,
  some of them without a row; nothing waits for ever; collectives match; all
  ranks stop together; what is handed back is complete, repetition after
  repetition.
* **The loops.** Three loops must agree on when to stop and on what they
  report. Correct: a reported residual is the one of the returned iterate, at
  every check interval and cap.
* **The one shot routines.** They run alone, but over values nobody foresees: a
  long sequence of accepted and refused steps decides what is reported. Correct:
  a root reported converged lies in what is reported about it; a step starts
  from the slope of the time reached; no piece of an integral is lost or counted
  twice and the corrections together keep the tolerance; row exchanges in the
  middle of a substitution leave a solution of the system.
* **The device.** The arrays change places at every sweep and any call may fail.
  Correct: the row is about the array that was copied back, and a path that
  fails keeps no array.
* **The job.** Any rank may throw anywhere and nothing tells the others.
  Correct: the job ends, and a zero status means one row behind every rank's
  whole work.
* **The campaign.** A session may be interrupted between any two steps and the
  binary rebuilt under it. Correct: no measurement is lost or repeated, and what
  is published is the whole of one generation.
* **Placement.** Threads are bound, some belong to somebody else, and a
  constructor may throw half way. Correct: every mask is given back, an unpinned
  backend runs unbound, bound workers are on processors of their own.

`PROJECT.json` lists 40 hazards at their lines, with the properties that
would catch each.

## 2. The modules

    Partition ── ChunkLoop ─┬─ PthreadsPool ─┐
        │                   └─ JthreadPool ──┴─ implement ForkJoin
        └────────┐
    MpiWorld ────┴─ DistributedSweep ── implements Wavefront
    BenchmarkJob      RunSweep      PinnedTeams
    Routine ─┬─ SolverLoops
             ├─ RootFinding, InitialValue, Quadrature, DenseLU
             └─ DeviceSolve            (MCSequential composes these six)

**Partition** is the arithmetic of `types.hpp` and `chunking.hpp` as
operators. The products stay below `n`, so unbounded integers stand for the
64 bit index.

**ChunkLoop** is what both pools share: `execute_chunks` one chunk body per
step, and the relay in two steps, the exchange on `claimed_` and the winner's
write of the exception with its store of `captured_`, which nobody reads before
the join. Whether a body throws is a free choice. **PthreadsPool** and
**JthreadPool** extend it. A step of PthreadsPool is one critical section, which is what the mutex makes atomic; waiting on a
condition is a state of its own, left by a signal, a broadcast or spuriously. A
step of JthreadPool is an arrival at a barrier or the return from it; the last
arrival completes the phase. Both have the owning thread as worker 0,
construction with a thread that will not start or a binding that is refused,
unwinding, and destruction.

**ForkJoin** is what a pool promises its owner, without threads: a call opens a
grid of chunks, each is attempted once, the call returns or throws one of the
exceptions thrown in it. The mapping (`Status`, `FJ` in each pool) reads
`status` off the owner's program counter; `attempts`, `threw` and `answer` are
the pool's own variables.

**MpiWorld** is external: ordered messages per sender, receiver and tag;
collectives that match by their position; `Bcast` which lets its root go at
once. A send may complete early or only when it is received.

**DistributedSweep** is `timed_repetition` and `run_stationary` on every rank,
the ten stationary methods as sequences of passes, both problems' rules for
what a pass refreshes, and the backend calls step by step. The unit of data is
what a rank owns whole: a grid row, or an unknown of the dense system. A row has
two colours of cells. In place of a number a cell holds *the number of the pass
that wrote it*, and an update that does not find exactly the pass numbers the
sequential method would find writes `Wrong`. A method that reads a stale
halo, an old gather or a row that is a pass ahead is then visible as such,
and so is everything computed from it. The residual is a choice of the run:
it becomes small, or not finite, at a given iteration. A rank that owns no row
passes one address to `MPI_Sendrecv` twice; the model lets such a call send
either what was there or what came in. A reduction is the deterministic one: an
`MPI_Allgather` of the partials, summed by every rank.

**Wavefront** is what a pass promises whatever carries it out: in an ascending
pass a unit moves when the units before it have taken the pass and those after
it have not, and so on. `WF` in DistributedSweep maps `done[u]` to the passes
unit `u` has taken at its owner.

**Routine** is what a sequential routine and its caller share: one call with its
arguments, the counters, and the `Diagnostics` that come back (`include/core/diagnostics.hpp`).
The six modules after it extend it, each with the locals of its own loops.

**SolverLoops** is the control of the three loops over a chosen stream of
residual classes (zero, within the tolerance, large, not finite).

**RootFinding** is bisection, Newton and Brent on a grid of points. The function
is not given: an ordinate is chosen when it is first asked for, and kept; it may
not be a number. Brent's interpolation is arithmetic, so the model tries every
step its acceptance test lets through, and the midpoint.

**InitialValue** is RK4 with its fixed step and the controller of Dormand Prince:
time in whole ticks, an attempt's error in four classes, the growth of a step any
the clamp allows, and `k1` as the time whose slope it is.

**Quadrature** is adaptive Simpson and Romberg. The recursion is a list of panels
to visit, the halves of a panel in either order, since C++ leaves the order of
the two calls open; a panel's correction is chosen when it is visited. A panel
carries the three ordinates and the estimate it was called with: an ordinate is
the point it was taken at, an estimate the ordinates and the width it is made of.

**DenseLU** is LU with partial pivoting, its substitutions and determinant, and
the Thomas recurrence, in exact fractions. The reference is the definition of
the determinant over all permutations and the system itself.

**DeviceSolve** is `run_cuda` and `pnl_cuda_poisson_solve`. An array is the number
of the iterate in its interior and whether its ring holds the boundary values.
Each checked call of the CUDA runtime has a step in which it fails.

**BenchmarkJob** is `main` on every rank. A solve is one collective between two
stretches of local work. `Throw` may happen in any local step or inside a
collective.

**RunSweep** is the results directory and the memory of the session, or of the
bandwidth refresh, that runs. A row is the identity it was printed with, its
commit, and the session that measured it, which no column records; the order of
the lines in `summary.csv` is never read back, so a summary is a set of rows.
What a session asks of its surroundings it asks in steps of their own
(`StartSession` the commit, `LoadExisting` the summary, `ProbeBandwidth` the
bandwidth), a file is written in two (`WriteTemporary` and `Replace` for the
summary; a manifest is opened and then written in place, and is `Torn` between
the two), and `Interrupt` and `Rebuild` may come anywhere. `Predicted` and
`Key` are the two sides of the resume check: the identity the script expects of
a configuration and the one its row carries. The generator writes nothing that a
session reads, so it is not a step: `Published` is what it would publish at each
moment.

**PinnedTeams** is the affinity mask of every thread of one process while
backends are made, used and destroyed in it. What libgomp does with threads a
smaller region does not need (keep or end them) is a choice, and a process may be
started with a limit on the threads it gives a region, so that a team comes out
smaller than asked and its constructor throws. The first thread of
each core is a set, and `nth_leader` the place of a worker in its order.

### Where a definition stands for more than it shows

Numbers are abstracted to which values they are made of, or to a class. The
clock, output, option parsing, and the texts of errors are left out. The
`map` of `PROJECT.json` names the lines each definition stands for.

## 3. What TLC checks

| run | on | properties | states |
|---|---|---|---|
| pthreads | `MCPthreadsPool` | WorkersConfined, NoLostWakeup, EveryElementOnce, RelayFaithful, NoDispatchSkipped, ConstructorEnds, ImplementsForkJoin | 25 thousand |
| jthread | `MCJthreadPool` | PoolReady, DispatchEnds, ShutdownEnds, ImplementsForkJoin | 38 thousand |
| jthread_start | `MCJthreadPool`, `MCJthreadStart.cfg` | ConstructorEnds: **violated** | |
| mpi_grid | `MCDistributedSweep`, `MCDistributedGrid.cfg` | NoStaleRead, SolveEnds, ImplementsWavefront | 23 thousand |
| mpi_flat | `MCDistributedSweep`, `MCDistributedFlat.cfg` | WholeSolve, CollectivesMatch | 23 thousand |
| mpi_driver | `MCDistributedSweep`, `MCDistributedDriver.cfg` | WholeSolve, RingIntact, RanksAgree | 460 thousand |
| job | `BenchmarkJob` | CleanExitIsOneWholeRow, RowFollowsEverySolve, InapplicableIsThree, JobEnds | 39 thousand |
| job_pinned | `BenchmarkJob`, `MCBenchmarkPinned.cfg` | PinnedRowIsPinned: **violated** | |
| sweep | `MCRunSweep` | PublishedIsWhole, NoMeasurementLost, ResumeRedoesNothing, FinishedMeansMeasured | 1 million |
| sweep_own_session | `MCRunSweep`, `MCRunSweepProbes.cfg` | PublishedWithItsOwnSession: **violated** | |
| pinning | `MCPinnedTeams` | CallerGetsItsMaskBack, UnpinnedRunsFree, BoundApart | 0.2 thousand |
| sequential | `MCSequential` | ResidualIsOfTheIterate, StopsAndCosts, ExactIsNotBreakdown (loops); BracketHeld; StepsFollowTheSolution, ToleranceLabelled; EachPieceOnce, ErrorsWithinTolerance; SolvesTheSystem; RowIsTheIterate | 1 million |

Some names stand for several facts that make one promise together.
`PoolReady` is the pool's types, WorkersConfined and PinnedPoolIsBound: what has
to hold before the next task. `WholeSolve` is the types of the ranks' state,
NoStaleRead, SolutionComplete and NoMessageLeft: every update read what the
sequential method reads and nothing is missing or left over at the end.
`StopsAndCosts` is SameStop with EvaluationsCounted.

In `jthread` the refinement says that nothing wrong is returned, not that
anything is: `DispatchEnds` (a call that was made comes back) and `ShutdownEnds`
(a destructor that was entered comes back) are what finds a dispatch or a
shutdown that waits for ever, under the fairness below.

Newton, RK4 and Romberg are modelled, since they share the counters and exits of
Routine with their neighbours, but no checked property is about them alone:
what one could be about is either arithmetic or, for Romberg, refuted (section 5).

### Bounds

* *Pools*: three threads, so that two workers interfere with each other and not
  only with the owner; 0, 2 and 4 elements (nothing, fewer than threads, more
  than threads); two dispatches, so that a worker can be late by one.
  `pthreads` deals two dynamic chunks per worker, so that a worker loops.
  `MaxGeneration` and `MaxPhase` only stop the owner from dispatching again.
* *Ranks*: three, so that one has a neighbour on both sides; four grid rows, so
  that bands differ in size; two rows in `mpi_driver`, so that one rank owns
  none. Two iterations, since a pass then follows one of its own kind; two
  repetitions on one workspace. In `mpi_flat` there are two blocks for three
  ranks, so that a rank's blocks are not its rows. One name stands for each
  distinct sequence of passes. `mpi_driver` takes caps of 0, 1 and 3 against
  intervals of 1 and 2, in both modes, and residuals that turn at the first,
  second or third iteration. With three ranks on two rows the rank without one
  has no neighbour left, so its overlapping call sends and receives nothing; two
  such ranks side by side need four ranks, which is more than TLC finishes in a
  few minutes, and are covered by the proof of RingIntact, which is for any number
  of both.
* *Loops*: caps to four, intervals to three, and every stream of residuals, so
  that a cap is and is not a multiple of the interval.
* *Roots*: nine points, ordinates from -2 to 2 or not a number, the bracket
  either way round, tolerances of one and two points: Brent has room for several
  interpolations before its bracket is small. *Steps*: spans of 4 and 12 ticks
  in either direction with minimum steps of 1 and 2, so that steps are rejected
  repeatedly, reach the floor, and are cut short at the end. *Quadrature*: depths
  to four, corrections below, within and above what a panel is allowed.
  *Direct*: every 3 by 3 matrix over 0, 1, 2 (two exchanges and singular ones
  among them) and every dominant tridiagonal one. *Device*: caps of 0, 1 and 3,
  intervals of 0, 1 and 2, a warm up and one repetition.
* *Job*: three ranks, a warm up and two repetitions. *Campaign*: three
  configurations, two of them printed with one identity that the script predicts
  right for one only, two commits, two sessions or refreshes in any order, each
  interrupted anywhere. *Placement*: six processors, two to a core, under
  three launches: `taskset` to four processors, the whole machine scattered over
  its cores, a container with gaps that refuses bindings and gives teams of three
  where four are asked for.

`CHECK_DEADLOCK FALSE` is set where the system ends: a destroyed jthread pool,
a job that is over, and a routine that has returned. The pthreads pool, the ranks and the
sessions end in a state that stutters explicitly (`Gone`, `AllFinished`) or can always go on.

### Fairness

Safety runs assume none. Liveness runs assume weak fairness of

* each pool thread separately (`OwnerStep`, `WorkerStep(w)`): the operating
  system runs every runnable thread. The client is not fair: it may never call.
  Nothing is assumed about spurious wakeups or about which waiter a signal
  takes.
* each rank's computing steps. Leaving a send is fair only once every message
  the rank sent has been received, which is all MPI guarantees: `SolveEnds` may
  not rely on buffering.
* each rank's `Step` in a job, not `Throw`: a rank goes on, and a launcher ends
  an aborted job.

## 4. What TLAPS proves

For all values of the constants:

* **PartitionProofs**: the blocks of a range are contiguous, span it, are
  disjoint, cover it, and differ by at most one element (`BlocksContiguous`,
  `BlocksSpan`, `BlocksDisjoint`, `BlocksCover`, `BlocksBalanced`); and the
  arithmetic of the round robin in ChunkLoop: a thread stays on its residue and
  visits the chunks of it one after the other, so every chunk has exactly one
  thread that visits it.
* **PthreadsPoolProofs**: any number of workers, any grid and any number of
  dispatches keep `IInv`; hence type correctness, WorkersConfined, the exact
  count of outstanding workers, NoLostWakeup, EveryElementOnce, RelayFaithful,
  NoDispatchSkipped, and that a pinned pool that came up is bound
  (`PoolInvariant` and the theorems named after each). `PoolImplementsForkJoin`
  proves the refinement of ForkJoin's safety part.
* **JthreadPoolProofs**: a pool of any size keeps `PoolInvariant`; hence
  PoolReady, that is type correctness, no worker in a chunk loop outside the
  call that posted the task, and a pinned pool bound on every thread. From
  `CallInvariant`, its second inductive invariant: whatever the schedule, the
  number of threads and the bodies that throw, a call returns with every element
  handed to the body once (`JthreadPoolCoversEveryElement`), and the pool
  implements ForkJoin's safety part (`JthreadPoolImplementsForkJoin`).
* **DistributedSweepProofs** and **DistributedDataProofs**: for every number of
  ranks, rows and blocks, either problem, all ten methods, every cap, interval,
  mode and behaviour of the residual, and any number of repetitions, every
  invariant the runs check: CollectivesMatch, RanksAgree and RingIntact in the
  first, which is about control and messages, NoStaleRead, WholeSolve and
  ImplementsWavefront in the second, which is about the values and the order they
  are made in. ImplementsWavefront is proved for one repetition, the scope it is
  stated for: its count of passes starts again with the next. The second takes
  tlapm about a quarter of an hour, the first about nine minutes.
* **CampaignProofs**, for RunSweep and for the BenchmarkJob it launches. For every
  matrix, however its identities are predicted, every set of commits and any
  number of sessions, refreshes and interruptions, all four promises of the
  campaign: PublishedIsWhole, NoMeasurementLost, ResumeRedoesNothing,
  FinishedMeansMeasured. For a job of any number of ranks and
  repetitions: a row follows every solve, a zero status is one whole row, a method
  that does not apply is status 3 on every rank that looked, and no rank is two
  collectives ahead of another.
* **PinnedTeamsProofs**: for every machine, every mask a process starts with and
  every series of backends made, refused and destroyed in it,
  CallerGetsItsMaskBack, UnpinnedRunsFree and BoundApart, each under the one
  hypothesis on the requests that it needs (below).
* **SequentialProofs**, for the routines that run alone. Loops: for every cap,
  interval, option and stream of residuals, ResidualIsOfTheIterate,
  StopsAndCosts, ExactIsNotBreakdown. Device: for every cap, interval and number
  of repetitions, and any call failing, RowIsTheIterate. Integrators: for every
  span, floor and cap and every history of accepted and refused steps,
  StepsFollowTheSolution and ToleranceLabelled. Quadrature: for every history of
  corrections and either order of the halves, EachPieceOnce. Roots: for every
  function and every step of an interpolation, BracketHeld.

The assumptions are the ASSUMEs of the modules: a positive number of workers,
ranks, processors or repetitions, a schedule that exists, caps and intervals
that are unsigned in the code, check intervals and methods that run_stationary
accepts (`RunsAssumption`), a matrix made of known configurations. Three say
something about the scale of the abstraction. `RootAssumption`: the first
bracket can be halved without remainder until it is one or two points wide,
since bisection's midpoint is a point of the grid. `IvpAssumption`: spans and
floors are whole ticks. `QuadratureAssumption`: a tolerance and the differences
against it are counted in units that are not negative.

**PthreadsPool.** None of the properties is inductive. `IInv` adds what the
mutex maintains: `PhaseInv` says which workers may be where for each state of
the owner and by how much `seen[w]` may trail `generation`; `CountInv` that
`outstanding` is the number of workers that have taken the present task or are
still to take it and have not reported, and likewise for the binding reports;
`GridInv` that a chunk has been attempted exactly when the loop of the worker it
is dealt to has passed it, from which exactly-once follows at the return;
`RelayInv` that the exception is written before `captured_` and by one worker.
`PinnedPoolIsBound` is a conjunct since it follows only from the count of
binding reports. Each conjunct has its step lemma with one step per action; the
shared loop's action has a lemma of its own (`GridShareStep`, `RelayShareStep`,
`ShareRefines`), as it is where the argument lies.

**BenchmarkJob.** Barrier, exchange, barrier: a rank that has finished `rep`
repetitions has entered between `3 rep` and `3 rep + 2` collectives, and its
place in `main` says which. A rank leaves a collective only when all have
entered as many, so no two are more than one apart; the root prints after its
last, which the others must have entered after their whole work.

**DistributedSweep.** That all ranks stop at the same iteration and that all make
the same collectives are one fact: each needs the other, because a rank decides
from what a collective brought, and finds that by the number of collectives it
has made. `Control` says it as one journey. There is a path of places, each with
the repetition, the stage, the pass, the phase and the outcome of whoever comes
by, such that each rank's log is the beginning of it and the place a rank comes to
next (`Ahead`, computed from its own control state) is the one that follows on the
path (`After`, computed from the place before it and from the verdict on the
partials). The verdict on a place is fixed once all ranks have come to it, and no
rank is past a place before that (`Open`), except past a Bcast, which decides
nothing. So the path only grows (`PathGoesOn`, `PathKept`), by the first rank that
arrives; whoever arrives later finds the place it would have made itself. The
steps are of four kinds, silent, leaving, entering, and the last barrier
(`SilentStep`, `LeavingStep`, `EnteringStep`, `LastStep`), and each action is one
of them. RanksAgree follows as the last barrier of a repetition is on the path
once. A single rank makes other calls (`gather_rows` returns at once), and agrees
with itself.

NoMessageLeft needs to know of every wire what is on it at every moment. On a
grid the exchanges keep neighbours in step (`InStep`): two ranks are in the same
exchange, or one of them has begun the next while the other has still to leave
this one, and which of the four wires between them holds a message, never more
than one, follows from how far each is (`Halos`, `Turns`). What makes it inductive
is that an exchange determines the one before it and the one after it
(`NextExchangeIsOne`), also over a check that is due and over the end of a
solve. The dense problem has no exchanges and an ordered pass of it ends with a
Bcast that does not hold its root back, so a root may run ahead and hand on again:
there the messages are counted. `TurnControl`: what is on a wire is the number of
passes of its direction its sender has handed on less the number its receiver has
taken, and two ranks at the end of a solve have made the same passes by
RanksAgree's argument. No halo is ever sent there.

RingIntact follows a row from where it is read to where it is stored
(`RingControl`): a row sent to a neighbour is one the neighbour keeps at the same
index (`RowsMeet`), so one that lands outside the units was boundary at its sender,
also where a rank without rows sends on what it has just received. What is
gathered lands on units because the ranges were collected before the segments,
by all ranks in the same collective (`CollectsAt`, `CollectedUnits`); and an
update writes an item of the pass, since the smallest or largest item left is one
of them (`LeastNatural`, from the well-foundedness of the natural numbers).

NoStaleRead only says that no value is Wrong, which holds of the next state only
if the values an update reads are the right ones. `DataControl` says, for every
place a rank can be at, which values it holds there. Between passes the units of
`Known` are those of the passes finished (`FreshOn`): its own after a pass, one
side's halo more after each half of an exchange, all of them after a gather.
Inside a pass (`Works`) it depends on what is left to do: the units done are one
pass ahead, what is left is not, and of the coupled units those the order of the
pass puts before are new and the others old, whether the pass writes in place or
into the work slot, by rows or by blocks, one colour or both (`UpdateReads`,
`UpdateItemRanks`). A rank gets these values from others, so the same is said of
everything under way. On a grid at most one row is on a wire, and it is fresh for
the pass its receiver is in (`TrafficRight`), which rests on `InStep`. A turn of
the dense problem may be the second on its wire, so each copy is right for the
pass of its own number in the direction (`CopiesRight`, over `TurnControl`'s
count), and what the receiver takes is the turn of the pass it is in since both
count the same passes. What a rank brought to a collective is right for the place
of the path at which it entered (`LogsRight`, `DataAt`), and by `Control` that is
the receiver's place: the segments and ranges of a gather are of the same pass,
and the broadcast after an ordered pass is the root's whole vector. Rows written by
`gather_rows` are the sender's own (`RangesComeFirst`, `StoreRowsRanks`). From
there each action keeps the whole (`DataControlKept`), and the three other parts
of WholeSolve are read off: the types from `BoundAt`, SolutionComplete from
`SlotsRight`, NoMessageLeft as above.

That a distributed repetition implements Wavefront is about when, not what: as a
unit takes a pass, units owned by other ranks have taken theirs, and no rank knows.
Three facts on top of `DataControl` give it (`Ordering`). No rank's copy of a unit,
nor any message or contribution to a collective, is of a later pass than the unit
has taken at its owner (`ValuesUnder`): copies only come from owners, and an owner
that goes on only makes room (`UnderLonger`, `NothingNewer`, `UpdateUnder`). The
units coupled are at most a pass apart, the one ahead being first in the direction
of its pass (`InOrder`). And no rank returns to the reset of a single repetition
(`StartsAtZero`). An update reads of each coupled unit a value that `DataControl`
says is of pass k or k + 1, so by `ValuesUnder` its owner has taken at least that
many; `InOrder` bounds it from above, since a neighbour further on would have had
to find this unit there (`ReadyHere`). For the two colours, which write different
cells, the colour that is read has been written by the pass before (`LastRead`,
`ColoursAlternate`). Every other step leaves the count of each unit where it was
(`TakenKept`), also where an owner ends one pass and begins the next, so it is a
stutter of Wavefront (`WavefrontSteps`).

**JthreadPool.** That a worker in a chunk loop implies an owner in its call is a
statement about program counters, and what keeps it true is not: it is that the
two barriers are entered in alternation by *all* threads. `Alternation` says that
either the phases of both barriers are equal and every thread is outside a task,
or `release_` is one phase ahead and every thread is inside one; a thread waiting
at a barrier is on the side its `token` puts it. `Counted` ties each barrier's
count to the set of threads that stand there in the present phase, so the arrival
that completes a phase finds all others waiting (`LastArrival`), and the whole
pool changes sides in that one step (`ReleaseStep`, `CollectStep`); every other
step keeps its thread on its side (`MoveOn`). `LatchInvariant` counts the workers
not yet bound, and is what makes the aggregate of `finish_pinning` complete.
`StopInvariant` keeps a worker from taking a task in the last phase.

The refinement of ForkJoin needs in addition what a call has handed out and
caught so far. `GridInv`: a chunk has been attempted exactly when the loop of the
thread it is dealt to has passed it, under either schedule, since both deal their
chunks out round robin; `RelayInv`: the exception is written before
`captured_`, by one thread, and is one of this call. The pool has no count of
outstanding workers as the pthreads pool has, so who is still working must be
read from the program counters, and these change for all threads at once when a
phase completes. The two lemmas that settle this are `ArrivalAtRelease`, a
completed phase of `release_` ends nobody's share, and `ArrivalAtCollect`, an
arrival at `collect_` ends the arriving thread's share and no other. Hence nobody
works at the join point (`NobodyWorksAtJoin`), all chunks have been attempted
there (`AllChunksAttempted`), and what is rethrown is what was thrown
(`JoinRelay`).

**RunSweep.** The four promises come from one invariant over the files and the
memory of the running session (`SweepInvariant`). `HoldsTheFile`: from its
reading on the session holds each row of the file or a newer one of its identity,
and between two configurations exactly the file; from it no replacement of the
file can lose a measurement. `DoneIsHeld`: what an unforced session skips is what
it holds, and nothing held is from the future. `Accounted`: every configuration
behind the session's position is held or in its list of failures, and the three
counters add up to the position. An interrupted session leaves memory behind and
the file as it was, which is why the first two speak of the file only from the
session's side.

PublishedIsWhole compares a manifest with a summary that later sessions have
rewritten since. `FilesVouch`: each manifest that can be parsed is of the commit
in its name, and every configuration it does not list as failed has a row of that
commit, unless the summary also holds a row of another commit, when nothing is
published. A session brings this about as it writes its manifest (by `Accounted`,
a row it leaves that is not of its commit is one it measured after a rebuild, and
so one of another commit), and no later step undoes it (`CoversLater`): a row is
replaced by one of the same identity only, the commit included. A refresh writes
back a text it has read before, so the same is said of the text it carries
(`RefreshVouches`).

**PinnedTeams.** A live backend remembers the mask it found, so what has to be
inductive is the chain `launch.mask`, `caller`, `backend.saved` and the masks of
libgomp's idle threads. The three promises do not hold of everything a client may
ask for, and each theorem has the exact hypothesis: `SerialUnpinned` (no serial
backend is asked to bind the caller, which it never undoes) for
CallerGetsItsMaskBack; that and `RefusedNotReused` (no process that may be refused a
binding, or given a team smaller than it asks for, uses an OpenMP team unpinned)
for UnpinnedRunsFree; `ScatterFits`
(scatter has a core for each worker) for BoundApart. Each hypothesis is true in
`pinning`, and is false in the configuration of section 5 in which TLC refutes
its promise and in no other: the theorems say that those cases are the only ones.

**InitialValue.** Between two attempts the time reached, the step to try and the
end lie in the order of the direction, `k1` is the slope of the time reached or
is about to be computed, and the time is the start plus the accepted steps; an
accepted step above the tolerance is at the floor and counted (`IvpInvariant`).

**Quadrature.** Every panel, added or waiting, lies on the grid and holds the
ordinates of its own ends and middle and the estimate they give; each piece of the
interval is in exactly one of them, and a panel that is divided gives its two
halves the border and the ordinates they share (`QuadratureInvariant`,
`SampledIsPanel`, `HalvesShare`, `LeafAdded`, `HalvesWait`).

**RootFinding.** Bisection: the ends have opposite signs and their distance can
still be halved. Brent: `b` and `c` enclose, `a` is one of the points visited,
and the exchange that makes `b` the best keeps the enclosure (`SidesEnclose`,
`BestEncloses`). Both only as long as no ordinate is NaN, which is the
hypothesis of BracketHeld itself, and section 5 has the run in which one is.

**SolverLoops.** The invariant relates the loop counter, the iterate whose residual is
held, the number of evaluations, and that no earlier due iterate stopped the run
(`AtTheHead`, `Unstopped`). At the cap the iterate is due whatever the interval,
so the residual held there is its own.

**DeviceSolve.** Between two calls the current array holds iterate `iterations`
with its ring, the work array has a ring (which is why the upload fills both),
and wherever the loop may end, at the cap or by the tolerance, the residual is
that of the current iterate (`Iterated`).

**Left to TLC.** All liveness (ConstructorEnds, DispatchEnds, ShutdownEnds,
JobEnds, SolveEnds) and the fairness parts of the refinements, which need ENABLED.
ErrorsWithinTolerance and SolvesTheSystem: they speak of sums and products over
values chosen as the routine goes, which the library defines by recursion, and
what a recursion returns for every input is an induction over data.

## 5. Where the code and its promises part

Three runs in the list are counterexamples.

* **jthread_start**. `backend/jthread_pool.hpp:59`: if starting a worker throws
  after another was started, the members are destroyed, and the `std::jthread`
  of the first is joined while it waits on `release_` for arrivals that will
  not come. The constructor never ends. The pthreads constructor shuts down what
  it started (ConstructorEnds passes in `pthreads`).
* **job_pinned**. `src/main.cpp:947`: "A row that says it pinned must have
  pinned." The driver reads the root's status; a rank other than the root whose
  binding was refused keeps that to itself.
* **sweep_own_session**. `run_sweep.py:1246`: each session writes a manifest of
  its own, so that the generator "can say which manifest the rows it published
  came from", and `gen_report_assets.py:2232` wants the one "of the session that
  measured these rows". No row says which session that was, and the generator
  takes the newest manifest of the commit: rows that an interrupted or an earlier
  session left, and a later one skipped, are divided by the later bandwidth.

Twelve more configurations are beside the modules and are refuted by TLC in the
same way (three of them hold two properties: `-continue` shows both). Each
concerns a single line, and the bounds of the passing run of that property, where
there is one, leave exactly this case out:

| configuration (module) | property | what happens |
|---|---|---|
| `MCDistributedFixed.cfg` (`MCDistributedSweep`) | FixedRunsAreExact | `solvers/splitting.hpp:302`: a residual that is not finite ends a fixed run early, where line 65 promises exactly `max_iterations`; the reason is then set to iteration_cap |
| `MCSolverInterval.cfg` (`SolverLoops`) | ConvergesWhenDue | `solvers/cg.hpp:215`: conjugate gradient tests after every iteration, whatever `check_interval` says |
| `MCRunSweepRebuilt.cfg` (`MCRunSweep`) | ProbedAtItsCommit | `run_sweep.py:1117` and `1169`, `884` and `891`: the commit is asked for before the bandwidth is probed, so a rebuild in between puts another binary's bandwidth under it |
| `MCPinnedRefused.cfg` (`MCPinnedTeams`) | UnpinnedRunsFree | `backend/openmp.hpp:186`: a constructor that throws over one refused thread leaves the others of libgomp's team bound |
| `MCPinnedShort.cfg` (`MCPinnedTeams`) | UnpinnedRunsFree | `backend/openmp.hpp:192`: so does one that throws over a team smaller than it asked for |
| `MCPinnedSerial.cfg` (`MCPinnedTeams`) | CallerGetsItsMaskBack | `backend/serial.hpp:34`: the serial backend binds the caller and saves nothing |
| `MCRoots.cfg` (`RootFinding`) | BoundIsGenuine | `numerics/roots.hpp`: bisection stopped by its cap reports half its last bracket of a value that is an end of that bracket, so the root may be twice as far; the comment calls it a genuine bound |
| `MCRoots.cfg` (`RootFinding`) | BracketHeldThroughNaN | `numerics/roots.hpp:223`: an ordinate that is not a number is on neither side, and Brent converges to it, though "the bracket is maintained at every step" |
| `MCSteps.cfg` (`InitialValue`) | EveryStepMetTolerance | `numerics/ode.hpp:243`: an error that is not a number is accepted at the floor without being marked, since it is not above one, and the result says converged |
| `MCSteps.cfg` (`InitialValue`) | CapMeansNotThere | `numerics/ode.hpp:190`: a run that arrives on its last permitted step is reported as stopped by the cap |
| `MCRomberg.cfg` (`Quadrature`) | RowsPerformed | `numerics/quadrature.hpp:305`: a table that is used up reports one subdivision more than were made |
| `MCThomas.cfg` (`MCSequential`) | DominantIsSafe | `numerics/lu.hpp:261`: the check admits rows that are only weakly dominant, and a denominator may be zero, where line 239 says that the check makes it safe |
| `MCDevice.cfg` (`DeviceSolve`) | FixedRunsThemAll | `src/cuda/jacobi_sweep.cu`: a fixed conjugate gradient run past an exact residual ends as a failure of curvature; `backend/cuda.hpp:122` promises exactly `max_iterations` |
| `MCDevice.cfg` (`DeviceSolve`) | FailureIsDescribed | `src/cuda/jacobi_sweep.cu`: a failed inner product returns without recording why, and `backend/cuda.hpp:125` says to ask `pnl_cuda_last_error` |
| `MCPinnedScatter.cfg` (`MCPinnedTeams`) | BoundApart | `backend/topology.hpp:477`: the fallback of scatter with more workers than cores takes processors that are taken |

## 6. What is not modelled

* *CUDA kernels and probes*: a kernel's arithmetic at a point, and the
  contraction, launch and bandwidth probes, which read no state another part
  uses. The host side of a solve is DeviceSolve.
* *The hybrid team inside a rank* is not composed with DistributedSweep. The
  hybrid backend overrides the two loops over a rank's own band, between
  communication calls made by one thread, so the two do not interleave.
* *Conjugate gradient and Richardson across ranks*: their control is in
  SolverLoops, their distributed products use the same halo and reduction calls
  as the residual in DistributedSweep.
* *Detection of core types and of quotas*: it times the machine.
* *Registries*: filled before `main`, read afterwards.
* *QR and Gauss Legendre*: fixed sequences of arithmetic in which no decision
  depends on an earlier one. *Rounding*, in all of the numerics.
* *The native reduction* (`mpi_runtime.cpp:100-103`): an `MPI_Allreduce` in the
  place of the deterministic path's `MPI_Allgather`. It is one collective too, but
  its sum is MPI's own; DistributedSweep has the other one, which is the default.
* *A minimum step above the maximum step* (`ode.hpp:257`): nothing refuses it, and
  `std::clamp` is undefined there, so IvpCalls leaves it out.
* *OMP_DYNAMIC*: the limit on an OpenMP team is constant in a process
  (`OMP_THREAD_LIMIT`); a runtime that also varies a team from one region to the
  next is not modelled.
* *`--only`, `--dry-run` and `--out`*, the refusal of dirty trees, the archive of
  manifests, and the schema migration of the summary. Tables, figures and style
  scripts.
* *A prediction that is wrong costs more than the script says*:
  `run_sweep.py:1186-1188` expects one redundant run, after which the real row
  matches. The real row carries the printed identity and not the predicted one,
  so every session runs such a configuration again; ResumeRedoesNothing is stated
  for the identities that are predicted right.
* *The generator's two reads*, of the summary and of the manifest, are one moment.
* *Two sessions at once on one results directory*: neither guarded against nor
  promised by the code.

## 7. Plan

Done, in this order, so that the base every result rests on came first:
Partition, ChunkLoop and the two pools under ForkJoin; MpiWorld,
DistributedSweep and Wavefront; BenchmarkJob; RunSweep; PinnedTeams;
Routine with SolverLoops and the other sequential routines; DeviceSolve.

Proved so far is what section 4 lists; of the safety properties the runs check,
ErrorsWithinTolerance and SolvesTheSystem are left, for the reason given there.

To model next:

1. *Richardson and conjugate gradient* as methods of DistributedSweep.
2. *Combination of partial sums*: with the grid a function of `n` alone, the
   order of summation is the same for every backend and worker count.
3. *Factory and topology caches*: the probe that is run once and under which
   mask; the migration of the summary in RunSweep.
4. *The native reduction* beside the deterministic one.
