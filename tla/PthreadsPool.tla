----------------------------- MODULE PthreadsPool -----------------------------
(***************************************************************************)
(* PthreadsBackend (src/backend/pthreads_pool.cpp): a persistent pool on   *)
(* raw POSIX threads.  One mutex; work_ready_ wakes workers, work_done_    *)
(* and pin_done_ wake the owning thread; a generation counter tells a      *)
(* worker that there is a new task.                                        *)
(*                                                                         *)
(* Every access to generation_, outstanding_, pin_reports_ and             *)
(* shutting_down_ in the code is inside the mutex, so one critical section *)
(* is one step.  pthread_cond_wait gives the mutex up and sleeps; a        *)
(* signal, a broadcast or a spurious wakeup puts the thread back in front  *)
(* of the mutex, from where it evaluates the loop condition again.         *)
(***************************************************************************)
EXTENDS ChunkLoop, FiniteSets

CONSTANTS
  Sizes,             \* element counts the owner dispatches over
  Schedule,          \* "Static" or "Dynamic"
  ChunksPerWorker,   \* Config::chunks_per_worker
  ReductionCap,      \* DETERMINISTIC_CHUNKS
  MaxGeneration      \* bound: how often a dispatch may raise generation_

ASSUME SizesAssumption == Sizes \subseteq Int
ASSUME ConfigAssumption ==
  /\ Schedule \in {"Static", "Dynamic"}
  /\ ChunksPerWorker \in Int
  /\ ReductionCap \in Nat \ {0}

VARIABLES
  generation,      \* generation_
  outstanding,     \* outstanding_
  pin_reports,     \* pin_reports_
  shutting_down,   \* shutting_down_
  seen,            \* seen[w]: worker w's local copy of the generation
  pinRequested,    \* Config::pinning is not None
  pin_outcomes,    \* pin_outcomes_
  spawned,         \* workers pthread_create has started
  answer           \* how the owner's last call came back

poolVars == <<generation, outstanding, pin_reports, shutting_down, seen,
              pinRequested, pin_outcomes, spawned, answer>>
vars == <<pc, cursor, task, attempts, threw, relay, generation, outstanding,
          pin_reports, shutting_down, seen, pinRequested, pin_outcomes,
          spawned, answer>>

Outcomes == {"not_requested", "bound", "not_applicable", "refused"}

\* What pin_worker may report under this configuration.
PinResults ==
  IF pinRequested THEN {"bound", "not_applicable", "refused"}
                  ELSE {"not_requested"}

\* The owner is inside run_task with the workers released.
InFlight == Working \cup {"collect", "asleep_collect"}

\* The owner is inside parallel_for or reduce.
InCall == InFlight \cup {"dispatch", "rethrow"}

Building == {"unbuilt", "spawn", "wait_pins", "asleep_pins", "aggregate"}

\* The chunk grid of a parallel_for and of a reduce.
Grid(kind, n) ==
  IF kind = "for" THEN for_chunk_count(n, W, Schedule, ChunksPerWorker)
                  ELSE reduction_chunk_count(n, ReductionCap)

-----------------------------------------------------------------------------
Init ==
  /\ pc = [t \in Threads |-> IF t = 0 THEN "unbuilt" ELSE "unborn"]
  /\ cursor = [t \in Threads |-> t]
  /\ task = NoTask
  /\ attempts = NoAttempts(0)
  /\ threw = {}
  /\ relay = EmptyRelay
  /\ generation = 0
  /\ outstanding = 0
  /\ pin_reports = 0
  /\ shutting_down = FALSE
  /\ seen = [w \in Spawned |-> 0]
  /\ pinRequested \in BOOLEAN
  /\ pin_outcomes = [t \in Threads |-> "not_requested"]
  /\ spawned = 0
  /\ answer = NoException

-----------------------------------------------------------------------------
(* The constructor and the destructor, on the owning thread. *)

\* The owner binds itself as worker zero before any thread exists.
PinOwner ==
  /\ pc[0] = "unbuilt"
  /\ \E o \in PinResults : pin_outcomes' = [pin_outcomes EXCEPT ![0] = o]
  /\ pc' = [pc EXCEPT ![0] = "spawn"]
  /\ UNCHANGED <<cursor, task, attempts, threw, relay, generation, outstanding,
                 pin_reports, shutting_down, seen, pinRequested, spawned, answer>>

\* pthread_create for the next worker succeeds.
SpawnWorker ==
  /\ pc[0] = "spawn"
  /\ spawned < W - 1
  /\ spawned' = spawned + 1
  /\ pc' = [pc EXCEPT ![spawned + 1] = "pin"]
  /\ UNCHANGED <<cursor, task, attempts, threw, relay, generation, outstanding,
                 pin_reports, shutting_down, seen, pinRequested, pin_outcomes,
                 answer>>

\* pthread_create fails: the workers started so far are taken down.
SpawnFails ==
  /\ pc[0] = "spawn"
  /\ spawned < W - 1
  /\ pc' = [pc EXCEPT ![0] = "stop"]
  /\ UNCHANGED <<loopVars, poolVars>>

AllSpawned ==
  /\ pc[0] = "spawn"
  /\ spawned = W - 1
  /\ pc' = [pc EXCEPT ![0] = "wait_pins"]
  /\ UNCHANGED <<loopVars, poolVars>>

\* while (pin_reports_ < spawned) pthread_cond_wait(&pin_done_, &mutex_)
AwaitPins ==
  /\ pc[0] = "wait_pins"
  /\ pc' = [pc EXCEPT ![0] = IF pin_reports < W - 1 THEN "asleep_pins"
                                                    ELSE "aggregate"]
  /\ UNCHANGED <<loopVars, poolVars>>

\* finish_pinning: the pool refuses to exist unless a requested binding took
\* on every worker.
FinishPinning ==
  /\ pc[0] = "aggregate"
  /\ pc' = [pc EXCEPT ![0] =
              IF pinRequested /\ \E t \in Threads : pin_outcomes[t] # "bound"
              THEN "stop" ELSE "ready"]
  /\ UNCHANGED <<loopVars, poolVars>>

\* The destructor.
Destroy ==
  /\ pc[0] = "ready"
  /\ pc' = [pc EXCEPT ![0] = "stop"]
  /\ UNCHANGED <<loopVars, poolVars>>

\* Threads a broadcast on work_ready_ puts back in front of the mutex.
WakeWorkers(here) ==
  pc' = [t \in Threads |->
           IF t = 0 THEN here
           ELSE IF pc[t] = "asleep" THEN "poll" ELSE pc[t]]

\* The critical section of stop_workers.
StopWorkers ==
  /\ pc[0] = "stop"
  /\ shutting_down' = TRUE
  /\ generation' = generation + 1
  /\ WakeWorkers("join")
  /\ UNCHANGED <<loopVars, outstanding, pin_reports, seen, pinRequested,
                 pin_outcomes, spawned, answer>>

\* pthread_join of every started worker.
JoinWorkers ==
  /\ pc[0] = "join"
  /\ \A w \in 1..spawned : pc[w] = "exited"
  /\ pc' = [pc EXCEPT ![0] = "gone"]
  /\ UNCHANGED <<loopVars, poolVars>>

-----------------------------------------------------------------------------
(* parallel_for, reduce and run_task, on the owning thread. *)

\* parallel_for or reduce over no elements: nothing is dispatched.
CallNothing(kind, n) ==
  /\ pc[0] = "ready"
  /\ Grid(kind, n) <= 0
  /\ answer' = NoException
  /\ UNCHANGED <<pc, loopVars, generation, outstanding, pin_reports,
                 shutting_down, seen, pinRequested, pin_outcomes, spawned>>

\* run_task writes the task fields, outside the mutex.
Call(kind, n) ==
  /\ pc[0] = "ready"
  /\ Grid(kind, n) > 0
  /\ W > 1 => generation < MaxGeneration
  /\ Post(kind, n, Grid(kind, n))
  /\ pc' = [pc EXCEPT ![0] = IF W = 1 THEN "execute" ELSE "dispatch"]
  /\ cursor' = [cursor EXCEPT ![0] = 0]
  /\ answer' = Pending
  /\ UNCHANGED <<relay, generation, outstanding, pin_reports, shutting_down,
                 seen, pinRequested, pin_outcomes, spawned>>

\* The critical section that releases the workers.
Dispatch ==
  /\ pc[0] = "dispatch"
  /\ outstanding' = W - 1
  /\ generation' = generation + 1
  /\ WakeWorkers("execute")
  /\ UNCHANGED <<loopVars, pin_reports, shutting_down, seen, pinRequested,
                 pin_outcomes, spawned, answer>>

\* The owner's own share is finished.
OwnerShareDone ==
  /\ ShareDone(0)
  /\ pc' = [pc EXCEPT ![0] = IF W = 1 THEN "rethrow" ELSE "collect"]
  /\ UNCHANGED <<loopVars, poolVars>>

\* Fault: the last worker is not waited for.
CollectTooEarly ==
  /\ pc[0] = "collect"
  /\ pc' = [pc EXCEPT ![0] = IF outstanding > 1 THEN "asleep_collect"
                                                ELSE "rethrow"]
  /\ UNCHANGED <<loopVars, poolVars>>

\* while (outstanding_ > 0) pthread_cond_wait(&work_done_, &mutex_)
Collect ==
  /\ pc[0] = "collect"
  /\ pc' = [pc EXCEPT ![0] = IF outstanding > 0 THEN "asleep_collect"
                                                ELSE "rethrow"]
  /\ UNCHANGED <<loopVars, poolVars>>

\* relay_.rethrow(), after the join point.
Rethrow ==
  /\ pc[0] = "rethrow"
  /\ answer' = Delivered
  /\ relay' = RelayAfterRethrow
  /\ pc' = [pc EXCEPT ![0] = "ready"]
  /\ UNCHANGED <<cursor, task, attempts, threw, generation, outstanding,
                 pin_reports, shutting_down, seen, pinRequested, pin_outcomes,
                 spawned>>

-----------------------------------------------------------------------------
(* worker_loop, on a spawned thread. *)

\* The worker binds itself and writes its own slot, without the mutex.
PinWorker(w) ==
  /\ pc[w] = "pin"
  /\ \E o \in PinResults : pin_outcomes' = [pin_outcomes EXCEPT ![w] = o]
  /\ pc' = [pc EXCEPT ![w] = "report"]
  /\ UNCHANGED <<loopVars, generation, outstanding, pin_reports, shutting_down,
                 seen, pinRequested, spawned, answer>>

\* Fault: pin_reports_ is raised but pin_done_ is not signalled.
ReportPinSilently(w) ==
  /\ pc[w] = "report"
  /\ pin_reports' = pin_reports + 1
  /\ pc' = [pc EXCEPT ![w] = "poll"]
  /\ UNCHANGED <<loopVars, generation, outstanding, shutting_down, seen,
                 pinRequested, pin_outcomes, spawned, answer>>

\* ++pin_reports_ and the signal on pin_done_.
ReportPin(w) ==
  /\ pc[w] = "report"
  /\ pin_reports' = pin_reports + 1
  /\ pc' = [pc EXCEPT ![w] = "poll",
                      ![0] = IF pc[0] = "asleep_pins" THEN "wait_pins" ELSE @]
  /\ UNCHANGED <<loopVars, generation, outstanding, shutting_down, seen,
                 pinRequested, pin_outcomes, spawned, answer>>

\* The worker finds nothing new and sleeps on work_ready_.
Sleep(w) ==
  /\ pc[w] = "poll"
  /\ generation = seen[w]
  /\ ~ shutting_down
  /\ pc' = [pc EXCEPT ![w] = "asleep"]
  /\ UNCHANGED <<loopVars, poolVars>>

\* The worker sees shutting_down_ and returns from its entry point.
Exit(w) ==
  /\ pc[w] = "poll"
  /\ shutting_down
  /\ pc' = [pc EXCEPT ![w] = "exited"]
  /\ UNCHANGED <<loopVars, poolVars>>

\* The worker sees a new generation and starts its share.
TakeTask(w) ==
  /\ pc[w] = "poll"
  /\ generation # seen[w]
  /\ ~ shutting_down
  /\ seen' = [seen EXCEPT ![w] = generation]
  /\ cursor' = [cursor EXCEPT ![w] = w]
  /\ pc' = [pc EXCEPT ![w] = "execute"]
  /\ UNCHANGED <<task, attempts, threw, relay, generation, outstanding,
                 pin_reports, shutting_down, pinRequested, pin_outcomes,
                 spawned, answer>>

\* Fault: outstanding_-- == 0, the counter is tested before it is lowered.
FinishShareTestsTooSoon(w) ==
  /\ ShareDone(w)
  /\ outstanding' = outstanding - 1
  /\ pc' = [pc EXCEPT ![w] = "poll",
                      ![0] = IF outstanding = 0 /\ pc[0] = "asleep_collect"
                             THEN "collect" ELSE @]
  /\ UNCHANGED <<loopVars, generation, pin_reports, shutting_down, seen,
                 pinRequested, pin_outcomes, spawned, answer>>

\* if (--outstanding_ == 0) pthread_cond_signal(&work_done_)
FinishShare(w) ==
  /\ ShareDone(w)
  /\ outstanding' = outstanding - 1
  /\ pc' = [pc EXCEPT ![w] = "poll",
                      ![0] = IF outstanding = 1 /\ pc[0] = "asleep_collect"
                             THEN "collect" ELSE @]
  /\ UNCHANGED <<loopVars, generation, pin_reports, shutting_down, seen,
                 pinRequested, pin_outcomes, spawned, answer>>

-----------------------------------------------------------------------------
\* Fault: an if instead of a while around the wait on work_done_.
SpuriousWakeupTrusted(t) ==
  /\ \/ pc[t] = "asleep"         /\ pc' = [pc EXCEPT ![t] = "poll"]
     \/ pc[t] = "asleep_pins"    /\ pc' = [pc EXCEPT ![t] = "wait_pins"]
     \/ pc[t] = "asleep_collect" /\ pc' = [pc EXCEPT ![t] = "rethrow"]
  /\ UNCHANGED <<loopVars, poolVars>>

\* pthread_cond_wait may return with nobody having signalled.
SpuriousWakeup(t) ==
  /\ \/ pc[t] = "asleep"         /\ pc' = [pc EXCEPT ![t] = "poll"]
     \/ pc[t] = "asleep_pins"    /\ pc' = [pc EXCEPT ![t] = "wait_pins"]
     \/ pc[t] = "asleep_collect" /\ pc' = [pc EXCEPT ![t] = "collect"]
  /\ UNCHANGED <<loopVars, poolVars>>

Share(t) == ShareStep(t) /\ UNCHANGED poolVars

\* What the owning thread does on its own once it is inside the backend.
OwnerStep ==
  \/ PinOwner \/ SpawnWorker \/ SpawnFails \/ AllSpawned \/ AwaitPins
  \/ FinishPinning \/ StopWorkers \/ JoinWorkers
  \/ Dispatch \/ Share(0) \/ OwnerShareDone \/ Collect \/ Rethrow

\* What the owner's client decides.
ClientStep ==
  \/ Destroy
  \/ \E kind \in {"for", "reduce"}, n \in Sizes :
       CallNothing(kind, n) \/ Call(kind, n)

WorkerStep(w) ==
  \/ PinWorker(w) \/ ReportPin(w) \/ Sleep(w) \/ Exit(w) \/ TakeTask(w)
  \/ Share(w) \/ FinishShare(w)

\* After the last join the object is gone and nothing runs any more.
Gone ==
  /\ pc[0] = "gone"
  /\ UNCHANGED vars

Next ==
  \/ OwnerStep
  \/ ClientStep
  \/ \E w \in Spawned : WorkerStep(w)
  \/ \E t \in Threads : SpuriousWakeup(t)
  \/ Gone

Spec == Init /\ [][Next]_vars

\* The operating system runs every thread that can run and hands the mutex to
\* every thread that waits for it; chunk bodies come back.
FairSpec ==
  /\ Spec
  /\ WF_vars(OwnerStep)
  /\ \A w \in Spawned : WF_vars(WorkerStep(w))

-----------------------------------------------------------------------------
OwnerStates ==
  Building \cup InCall \cup {"ready", "stop", "join", "gone"}

WorkerStates ==
  Working \cup {"unborn", "pin", "report", "poll", "asleep", "exited"}

\* The owner and the workers stay on their own program counters.
PcTypeOK ==
  /\ pc \in [Threads -> OwnerStates \cup WorkerStates]
  /\ pc[0] \in OwnerStates
  /\ \A w \in Spawned : pc[w] \in WorkerStates

\* The variables of ChunkLoop.
LoopTypeOK ==
  /\ cursor \in [Threads -> Nat]
  /\ task \in [kind : {"none", "for", "reduce"}, n : Int, chunks : Nat]
  /\ attempts \in [0..(task.chunks - 1) -> Nat]
  /\ threw \subseteq Nat
  /\ relay \in [claimed : BOOLEAN, captured : BOOLEAN,
                first : Nat \cup {NoException}]

\* The variables the pool adds.
PoolTypeOK ==
  /\ generation \in Nat
  /\ outstanding \in Int
  /\ pin_reports \in Nat
  /\ shutting_down \in BOOLEAN
  /\ seen \in [Spawned -> Nat]
  /\ pinRequested \in BOOLEAN
  /\ pin_outcomes \in [Threads -> Outcomes]
  /\ spawned \in 0..(W - 1)
  /\ answer \in Nat \cup {NoException, Pending}

\* Every variable keeps its type, and the attempts are those of the task's grid.
TypeOK == PcTypeOK /\ LoopTypeOK /\ PoolTypeOK

\* A spawned worker is inside a chunk loop only while the owner is inside the
\* run_task that released it: it never touches the body, the partials or the
\* relay of a call that has come back (the comment before relay_.rethrow()).
WorkersConfined ==
  \A w \in Spawned :
    pc[w] \in Working => pc[0] \in InFlight /\ seen[w] = generation

\* A worker that has not yet handed in its share of the current dispatch.
Owes(w) ==
  /\ pc[0] \in InFlight
  /\ pc[w] \in Working \/ seen[w] # generation

\* outstanding_ is exactly the number of workers the owner still waits for.
OutstandingExact ==
  outstanding = Cardinality({w \in Spawned : Owes(w)})

\* Nobody sleeps on a condition that already holds: the generation counter,
\* the completion counter and the pin counter lose no wakeup.
NoLostWakeup ==
  /\ \A w \in Spawned :
       pc[w] = "asleep" => generation = seen[w] /\ ~ shutting_down
  /\ pc[0] = "asleep_collect" => outstanding > 0
  /\ pc[0] = "asleep_pins" => pin_reports < W - 1

\* The range of elements chunk k of the current task covers.
TaskChunk(k) == block_partition(task.n, task.chunks, k)

\* When the owner is past the join point every element of [0, n) has been
\* handed to the body exactly once: one chunk holds it, that chunk was tried
\* once, and no other chunk holds it.
EveryElementOnce ==
  pc[0] = "rethrow" =>
    \A i \in 0..(task.n - 1) :
      \E k \in DOMAIN attempts :
        /\ attempts[k] = 1
        /\ InRange(i, TaskChunk(k))
        /\ \A l \in DOMAIN attempts \ {k} : ~ InRange(i, TaskChunk(l))

\* The relay is empty whenever a dispatch starts, and at the join point it
\* holds an exception of this dispatch exactly when there was one.
RelayFaithful ==
  /\ pc[0] \in {"ready", "dispatch"} => relay = EmptyRelay
  /\ pc[0] = "rethrow" =>
       /\ relay.captured <=> threw # {}
       /\ relay.captured => relay.first \in threw

\* A pool that was asked to pin and exists has every worker bound: no outcome
\* is missing from the aggregate because a slow worker reported too late.
PinnedPoolIsBound ==
  pinRequested /\ pc[0] \in InCall \cup {"ready"} =>
    \A t \in Threads : pin_outcomes[t] = "bound"

\* No worker misses a dispatch: its generations follow one another by one.
NoDispatchSkipped ==
  [][\A w \in Spawned : seen'[w] # seen[w] => seen'[w] = seen[w] + 1]_vars

\* A constructor ends in a pool or in an exception with no thread left over,
\* also when pthread_create fails half way or a binding is refused.
ConstructorEnds == pc[0] \in Building ~> pc[0] \in {"ready", "gone"}

-----------------------------------------------------------------------------
(* The inductive invariant: what the properties above rest on. *)

\* The worker has passed ++pin_reports_.
Reported(w) == pc[w] \notin {"unborn", "pin", "report"}

\* How far worker w may be, given where the owner is.
WorkerPhase(w) ==
  /\ pc[w] = "unborn" <=> w > spawned
  /\ pc[w] = "exited" => shutting_down
  /\ pc[w] \in Working => pc[0] \in InFlight /\ seen[w] = generation
  /\ pc[w] = "asleep" => seen[w] = generation /\ ~ shutting_down
  /\ pc[0] \in {"aggregate", "ready"} \cup InCall => Reported(w)
  /\ IF pc[0] \in InFlight THEN seen[w] \in {generation - 1, generation}
     ELSE IF shutting_down THEN seen[w] = generation - 1
     ELSE seen[w] = generation

PhaseInv ==
  /\ pc[0] \notin {"unbuilt", "spawn", "stop", "join", "gone"} => spawned = W - 1
  /\ pc[0] = "unbuilt" => spawned = 0
  /\ shutting_down <=> pc[0] \in {"join", "gone"}
  /\ \A w \in Spawned : WorkerPhase(w)

\* Both counters count threads, and the owner sleeps only while one is missing.
CountInv ==
  /\ OutstandingExact
  /\ pin_reports = Cardinality({w \in Spawned : Reported(w)})
  /\ pc[0] = "asleep_collect" => outstanding > 0
  /\ pc[0] = "asleep_pins" => pin_reports < W - 1

\* Thread t has started its share of the current task.
Begun(t) ==
  IF t = 0 THEN pc[0] \in InFlight \cup {"rethrow"}
           ELSE pc[0] \in InFlight \cup {"rethrow"} /\ seen[t] = generation

\* Thread t has been through chunk k.
Passed(t, k) ==
  /\ Begun(t)
  /\ k < cursor[t] \/ (k = cursor[t] /\ pc[t] \in {"caught", "publish"})

\* Thread t has left its loop.
LoopOver(t) ==
  IF t = 0 THEN pc[0] \in {"collect", "asleep_collect", "rethrow"}
           ELSE pc[0] \in InFlight \cup {"rethrow"} /\ seen[t] = generation
                /\ pc[t] \notin Working

\* Worker t stays on the chunks congruent to t, and a chunk counts one attempt
\* from the moment its worker has been through it.
GridInv ==
  /\ pc[0] \in InCall => task.n > 0 /\ task.chunks > 0
  /\ pc[0] = "dispatch" => cursor[0] = 0
  /\ \A t \in Threads :
       /\ Begun(t) => cursor[t] % W = t
       /\ LoopOver(t) => cursor[t] >= task.chunks
       /\ pc[t] \in {"caught", "publish"} => cursor[t] < task.chunks
  /\ pc[0] \in InCall =>
       \A k \in 0..(task.chunks - 1) :
         attempts[k] = IF Passed(k % W, k) THEN 1 ELSE 0

\* One winner at a time, and only while the call that threw is still open.
RelayInv ==
  /\ relay.captured => relay.claimed /\ relay.first \in threw
  /\ \A t \in Threads : pc[t] \in {"caught", "publish"} => cursor[t] \in threw
  /\ \A t \in Threads : pc[t] = "publish" => relay.claimed /\ ~ relay.captured
  /\ \A t, u \in Threads : pc[t] = "publish" /\ pc[u] = "publish" => t = u
  /\ relay.claimed => relay.captured \/ \E t \in Threads : pc[t] = "publish"
  /\ pc[0] \in InCall =>
       (threw # {} => relay.claimed \/ \E t \in Threads : pc[t] = "caught")
  /\ ~ relay.captured => relay.first = NoException
  /\ pc[0] \notin InFlight \cup {"rethrow"} => ~ relay.claimed
  /\ pc[0] = "dispatch" => threw = {}

IInv ==
  TypeOK /\ PhaseInv /\ CountInv /\ GridInv /\ RelayInv /\ PinnedPoolIsBound

\* The pool as the abstract fork-join backend.
Status ==
  CASE pc[0] \in Building       -> "building"
    [] pc[0] = "ready"          -> "idle"
    [] pc[0] \in InCall         -> "busy"
    [] pc[0] \in {"stop", "join"} -> "closing"
    [] OTHER                    -> "gone"

FJ == INSTANCE ForkJoin WITH
        ChunkCounts <- {Grid(kind, n) : kind \in {"for", "reduce"}, n \in Sizes} \ {0},
        status <- Status

\* The pool implements the fork-join contract, its liveness included.
ImplementsForkJoin == FJ!FairSpec

=============================================================================
