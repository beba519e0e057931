------------------------------ MODULE JthreadPool ------------------------------
(***************************************************************************)
(* JthreadBackend (include/pnl/backend/jthread_pool.hpp): a persistent     *)
(* pool on std::jthread.  Two std::barriers entered in strict alternation: *)
(* release_ lets the workers onto a task, collect_ gathers them again.  A  *)
(* std::latch tells the constructor that every worker has tried to bind.   *)
(*                                                                         *)
(* arrive_and_wait is two steps: the arrival, which completes the phase    *)
(* when it is the last one expected, and the return, which a waiter takes  *)
(* once the phase it arrived in is over.  Other threads run in between.    *)
(***************************************************************************)
EXTENDS ChunkLoop

CONSTANTS
  Sizes,             \* element counts the owner dispatches over
  Schedule,          \* "Static" or "Dynamic"
  ChunksPerWorker,   \* Config::chunks_per_worker
  ReductionCap,      \* DETERMINISTIC_CHUNKS
  MaxPhase           \* bound: how many phases of release_ a dispatch may open

ASSUME SizesAssumption == Sizes \subseteq Int
ASSUME ConfigAssumption ==
  /\ Schedule \in {"Static", "Dynamic"}
  /\ ChunksPerWorker \in Int
  /\ ReductionCap \in Nat \ {0}

VARIABLES
  release,        \* release_: arrivals of the current phase and its number
  collect,        \* collect_
  token,          \* token[t]: the phase thread t arrived in last
  latch,          \* pinned_: count downs still missing
  stopping,       \* stopping_
  stopRequested,  \* workers whose stop_token has been asked to stop
  pinRequested,   \* Config::pinning is not None
  pin_outcomes,   \* pin_outcomes_
  spawned,        \* size of threads_
  answer          \* how the owner's last call came back

poolVars == <<release, collect, token, latch, stopping, stopRequested,
              pinRequested, pin_outcomes, spawned, answer>>
vars == <<pc, cursor, task, attempts, threw, relay, release, collect, token,
          latch, stopping, stopRequested, pinRequested, pin_outcomes, spawned,
          answer>>

Outcomes == {"not_requested", "bound", "not_applicable", "refused"}

PinResults ==
  IF pinRequested THEN {"bound", "not_applicable", "refused"}
                  ELSE {"not_requested"}

InFlight == Working \cup {"at_release", "collect", "at_collect"}
InCall == InFlight \cup {"release", "rethrow"}
Building == {"spawn", "pin_owner", "await_latch", "aggregate"}
Closing == {"stop", "stop_release", "at_stop_release", "join", "unwind"}

Grid(kind, n) ==
  IF kind = "for" THEN for_chunk_count(n, W, Schedule, ChunksPerWorker)
                  ELSE reduction_chunk_count(n, ReductionCap)

-----------------------------------------------------------------------------
NewBarrier == [arrived |-> 0, phase |-> 0]

\* Both barriers are constructed for every worker, the owner included.
Participants == W

\* std::barrier: one more arrival; the last one expected starts the next phase.
AfterArrival(b) ==
  IF b.arrived + 1 >= Participants
  THEN [arrived |-> 0, phase |-> b.phase + 1]
  ELSE [b EXCEPT !.arrived = @ + 1]

\* Thread t arrives at release_ (resp. collect_) and goes on to wait at here.
ArriveRelease(t, here) ==
  /\ release' = AfterArrival(release)
  /\ token' = [token EXCEPT ![t] = release.phase]
  /\ pc' = [pc EXCEPT ![t] = here]
  /\ UNCHANGED collect

ArriveCollect(t, here) ==
  /\ collect' = AfterArrival(collect)
  /\ token' = [token EXCEPT ![t] = collect.phase]
  /\ pc' = [pc EXCEPT ![t] = here]
  /\ UNCHANGED release

\* The phase thread t arrived in is over.
Released(t, b) == token[t] # b.phase

-----------------------------------------------------------------------------
Init ==
  /\ pc = [t \in Threads |-> IF t = 0 THEN "spawn" ELSE "unborn"]
  /\ cursor = [t \in Threads |-> t]
  /\ task = NoTask
  /\ attempts = NoAttempts(0)
  /\ threw = {}
  /\ relay = EmptyRelay
  /\ release = NewBarrier
  /\ collect = NewBarrier
  /\ token = [t \in Threads |-> 0]
  /\ latch = W - 1
  /\ stopping = FALSE
  /\ stopRequested = {}
  /\ pinRequested \in BOOLEAN
  /\ pin_outcomes = [t \in Threads |-> "not_requested"]
  /\ spawned = 0
  /\ answer = NoException

Move(t, here) ==
  /\ pc' = [pc EXCEPT ![t] = here]
  /\ UNCHANGED <<loopVars, poolVars>>

-----------------------------------------------------------------------------
(* Constructor, shutdown and destructor, on the owning thread. *)

SpawnWorker ==
  /\ pc[0] = "spawn"
  /\ spawned < W - 1
  /\ spawned' = spawned + 1
  /\ pc' = [pc EXCEPT ![spawned + 1] = "pin"]
  /\ UNCHANGED <<loopVars, release, collect, token, latch, stopping,
                 stopRequested, pinRequested, pin_outcomes, answer>>

\* std::jthread cannot start the thread and throws out of emplace_back.  The
\* constructor catches nothing: the members already constructed are destroyed.
SpawnFails ==
  /\ pc[0] = "spawn"
  /\ spawned < W - 1
  /\ Move(0, "unwind")

AllSpawned ==
  /\ pc[0] = "spawn"
  /\ spawned = W - 1
  /\ Move(0, "pin_owner")

\* Destroying threads_: every jthread asks its worker to stop and joins it.
UnwindStopRequest ==
  /\ pc[0] = "unwind"
  /\ stopRequested # 1..spawned
  /\ \E w \in (1..spawned) \ stopRequested :
       /\ \A v \in 1..(w - 1) : pc[v] = "exited"
       /\ stopRequested' = stopRequested \cup {w}
  /\ UNCHANGED <<pc, loopVars, release, collect, token, latch, stopping,
                 pinRequested, pin_outcomes, spawned, answer>>

UnwindDone ==
  /\ pc[0] = "unwind"
  /\ stopRequested = 1..spawned
  /\ \A w \in 1..spawned : pc[w] = "exited"
  /\ Move(0, "gone")

PinOwner ==
  /\ pc[0] = "pin_owner"
  /\ \E o \in PinResults : pin_outcomes' = [pin_outcomes EXCEPT ![0] = o]
  /\ pc' = [pc EXCEPT ![0] = "await_latch"]
  /\ UNCHANGED <<loopVars, release, collect, token, latch, stopping,
                 stopRequested, pinRequested, spawned, answer>>

\* pinned_->wait()
LatchOpens ==
  /\ pc[0] = "await_latch"
  /\ latch = 0
  /\ Move(0, "aggregate")

\* Fault: the owner's own slot is left out of the aggregate.
FinishPinningSkipsOwner ==
  /\ pc[0] = "aggregate"
  /\ Move(0, IF pinRequested /\ \E t \in Spawned : pin_outcomes[t] # "bound"
             THEN "stop" ELSE "ready")

FinishPinning ==
  /\ pc[0] = "aggregate"
  /\ Move(0, IF pinRequested /\ \E t \in Threads : pin_outcomes[t] # "bound"
             THEN "stop" ELSE "ready")

Destroy ==
  /\ pc[0] = "ready"
  /\ Move(0, "stop")

\* shutdown(): set stopping_, then ask every stop token.
SetStopping ==
  /\ pc[0] = "stop"
  /\ stopping' = TRUE
  /\ pc' = [pc EXCEPT ![0] = "stop_release"]
  /\ UNCHANGED <<loopVars, release, collect, token, latch, stopRequested,
                 pinRequested, pin_outcomes, spawned, answer>>

RequestStop ==
  /\ pc[0] = "stop_release"
  /\ \E w \in (1..spawned) \ stopRequested :
       /\ (1..(w - 1)) \subseteq stopRequested
       /\ stopRequested' = stopRequested \cup {w}
  /\ UNCHANGED <<pc, loopVars, release, collect, token, latch, stopping,
                 pinRequested, pin_outcomes, spawned, answer>>

\* Fault: shutdown joins without the final release phase.
StopWithoutRelease ==
  /\ pc[0] = "stop_release"
  /\ stopRequested = 1..spawned
  /\ Move(0, "join")

\* One final release phase so that every worker wakes up.
StopRelease ==
  /\ pc[0] = "stop_release"
  /\ stopRequested = 1..spawned
  /\ IF spawned = 0
     THEN Move(0, "join")
     ELSE /\ ArriveRelease(0, "at_stop_release")
          /\ UNCHANGED <<loopVars, latch, stopping, stopRequested,
                         pinRequested, pin_outcomes, spawned, answer>>

StopReleased ==
  /\ pc[0] = "at_stop_release"
  /\ Released(0, release)
  /\ Move(0, "join")

JoinWorkers ==
  /\ pc[0] = "join"
  /\ \A w \in 1..spawned : pc[w] = "exited"
  /\ Move(0, "gone")

-----------------------------------------------------------------------------
(* parallel_for, reduce and run_task, on the owning thread. *)

CallNothing(kind, n) ==
  /\ pc[0] = "ready"
  /\ Grid(kind, n) <= 0
  /\ answer' = NoException
  /\ UNCHANGED <<pc, loopVars, release, collect, token, latch, stopping,
                 stopRequested, pinRequested, pin_outcomes, spawned>>

\* The task fields are plain members, written before release_ is entered.
Call(kind, n) ==
  /\ pc[0] = "ready"
  /\ Grid(kind, n) > 0
  /\ W > 1 => release.phase < MaxPhase
  /\ Post(kind, n, Grid(kind, n))
  /\ pc' = [pc EXCEPT ![0] = IF W = 1 THEN "execute" ELSE "release"]
  /\ cursor' = [cursor EXCEPT ![0] = 0]
  /\ answer' = Pending
  /\ UNCHANGED <<relay, release, collect, token, latch, stopping,
                 stopRequested, pinRequested, pin_outcomes, spawned>>

OwnerRelease ==
  /\ pc[0] = "release"
  /\ ArriveRelease(0, "at_release")
  /\ UNCHANGED <<loopVars, latch, stopping, stopRequested, pinRequested,
                 pin_outcomes, spawned, answer>>

OwnerReleased ==
  /\ pc[0] = "at_release"
  /\ Released(0, release)
  /\ Move(0, "execute")

\* Fault: the owner does not enter the collecting barrier.
OwnerSkipsCollect ==
  /\ ShareDone(0)
  /\ Move(0, "rethrow")

\* Fault: a chunk that threw takes the owner past the collecting barrier.
OwnerLeavesOnThrow ==
  /\ ShareDone(0)
  /\ Move(0, IF W = 1 \/ threw # {} THEN "rethrow" ELSE "collect")

OwnerShareDone ==
  /\ ShareDone(0)
  /\ Move(0, IF W = 1 THEN "rethrow" ELSE "collect")

OwnerCollect ==
  /\ pc[0] = "collect"
  /\ ArriveCollect(0, "at_collect")
  /\ UNCHANGED <<loopVars, latch, stopping, stopRequested, pinRequested,
                 pin_outcomes, spawned, answer>>

OwnerCollected ==
  /\ pc[0] = "at_collect"
  /\ Released(0, collect)
  /\ Move(0, "rethrow")

Rethrow ==
  /\ pc[0] = "rethrow"
  /\ answer' = Delivered
  /\ relay' = RelayAfterRethrow
  /\ pc' = [pc EXCEPT ![0] = "ready"]
  /\ UNCHANGED <<cursor, task, attempts, threw, release, collect, token, latch,
                 stopping, stopRequested, pinRequested, pin_outcomes, spawned>>

-----------------------------------------------------------------------------
(* worker_loop, on a spawned thread. *)

PinWorker(w) ==
  /\ pc[w] = "pin"
  /\ \E o \in PinResults : pin_outcomes' = [pin_outcomes EXCEPT ![w] = o]
  /\ pc' = [pc EXCEPT ![w] = "count_down"]
  /\ UNCHANGED <<loopVars, release, collect, token, latch, stopping,
                 stopRequested, pinRequested, spawned, answer>>

CountDown(w) ==
  /\ pc[w] = "count_down"
  /\ latch' = latch - 1
  /\ pc' = [pc EXCEPT ![w] = "release"]
  /\ UNCHANGED <<loopVars, release, collect, token, stopping, stopRequested,
                 pinRequested, pin_outcomes, spawned, answer>>

WorkerRelease(w) ==
  /\ pc[w] = "release"
  /\ ArriveRelease(w, "at_release")
  /\ UNCHANGED <<loopVars, latch, stopping, stopRequested, pinRequested,
                 pin_outcomes, spawned, answer>>

WorkerReleased(w) ==
  /\ pc[w] = "at_release"
  /\ Released(w, release)
  /\ IF w \in stopRequested \/ stopping
     THEN Move(w, "exited")
     ELSE /\ pc' = [pc EXCEPT ![w] = "execute"]
          /\ cursor' = [cursor EXCEPT ![w] = w]
          /\ UNCHANGED <<task, attempts, threw, relay, poolVars>>

WorkerCollect(w) ==
  /\ ShareDone(w)
  /\ ArriveCollect(w, "at_collect")
  /\ UNCHANGED <<loopVars, latch, stopping, stopRequested, pinRequested,
                 pin_outcomes, spawned, answer>>

WorkerCollected(w) ==
  /\ pc[w] = "at_collect"
  /\ Released(w, collect)
  /\ Move(w, "release")

-----------------------------------------------------------------------------
Share(t) == ShareStep(t) /\ UNCHANGED poolVars

OwnerStep ==
  \/ SpawnWorker \/ SpawnFails \/ AllSpawned \/ UnwindStopRequest \/ UnwindDone
  \/ PinOwner \/ LatchOpens \/ FinishPinning
  \/ SetStopping \/ RequestStop \/ StopRelease \/ StopReleased \/ JoinWorkers
  \/ OwnerRelease \/ OwnerReleased \/ Share(0) \/ OwnerShareDone
  \/ OwnerCollect \/ OwnerCollected \/ Rethrow

ClientStep ==
  \/ Destroy
  \/ \E kind \in {"for", "reduce"}, n \in Sizes :
       CallNothing(kind, n) \/ Call(kind, n)

WorkerStep(w) ==
  \/ PinWorker(w) \/ CountDown(w) \/ WorkerRelease(w) \/ WorkerReleased(w)
  \/ Share(w) \/ WorkerCollect(w) \/ WorkerCollected(w)

Next ==
  \/ OwnerStep
  \/ ClientStep
  \/ \E w \in Spawned : WorkerStep(w)

Spec == Init /\ [][Next]_vars

\* The operating system runs every thread that can run; chunk bodies return.
FairSpec ==
  /\ Spec
  /\ WF_vars(OwnerStep)
  /\ \A w \in Spawned : WF_vars(WorkerStep(w))

-----------------------------------------------------------------------------
OwnerStates == Building \cup Closing \cup InCall \cup {"ready", "gone"}
WorkerStates ==
  Working \cup {"unborn", "pin", "count_down", "release", "at_release",
                "at_collect", "exited"}
Barriers == [arrived : 0..(W - 1), phase : Nat]

\* Every variable keeps its type; a barrier never counts more than W arrivals.
TypeOK ==
  /\ pc \in [Threads -> OwnerStates \cup WorkerStates]
  /\ pc[0] \in OwnerStates
  /\ \A w \in Spawned : pc[w] \in WorkerStates
  /\ cursor \in [Threads -> Nat]
  /\ task \in [kind : {"none", "for", "reduce"}, n : Int, chunks : Nat]
  /\ attempts \in [0..(task.chunks - 1) -> Nat]
  /\ threw \subseteq Nat
  /\ relay \in [claimed : BOOLEAN, captured : BOOLEAN,
                first : Nat \cup {NoException}]
  /\ release \in Barriers
  /\ collect \in Barriers
  /\ token \in [Threads -> Nat]
  /\ latch \in Int
  /\ stopping \in BOOLEAN
  /\ stopRequested \subseteq Spawned
  /\ pinRequested \in BOOLEAN
  /\ pin_outcomes \in [Threads -> Outcomes]
  /\ spawned \in 0..(W - 1)
  /\ answer \in Nat \cup {NoException, Pending}

\* The owner overwrites the task fields, the partials and the relay only while
\* no worker can be between the two barriers.
WorkersConfined ==
  \A w \in Spawned :
    pc[w] \in Working => pc[0] \in InFlight /\ release.phase = collect.phase + 1

TaskChunk(k) == block_partition(task.n, task.chunks, k)

\* The latch opens for the constructor only after the last worker's slot is
\* written, so a pinned pool that exists is bound on every worker.
PinnedPoolIsBound ==
  pinRequested /\ pc[0] \in InCall \cup {"ready"} =>
    \A t \in Threads : pin_outcomes[t] = "bound"

\* A pool that exists is safe to hand a task to: no worker is left over from
\* the task before, and under pinning every one of them runs where it said.
PoolReady == TypeOK /\ WorkersConfined /\ PinnedPoolIsBound

\* shutdown() ends with every worker joined, called from the destructor or
\* from a constructor whose binding was refused.
ShutdownEnds == pc[0] = "stop" ~> pc[0] = "gone"

\* run_task always comes back to the client, whichever participants' chunks
\* threw: both barriers get every arrival they were constructed for, in this
\* dispatch and in those after it.
DispatchEnds == pc[0] \in InCall ~> pc[0] = "ready"

\* make_backend promises BackendFailure "if construction fails, for example a
\* thread that will not start", so a constructor ends one way or the other.
ConstructorEnds == pc[0] \in Building ~> pc[0] \in {"ready", "gone"}

Status ==
  CASE pc[0] \in Building -> "building"
    [] pc[0] = "ready"    -> "idle"
    [] pc[0] \in InCall   -> "busy"
    [] pc[0] \in Closing  -> "closing"
    [] OTHER              -> "gone"

FJ == INSTANCE ForkJoin WITH
        ChunkCounts <- {Grid(kind, n) : kind \in {"for", "reduce"}, n \in Sizes} \ {0},
        status <- Status

\* Every step of the pool is a step the fork-join contract allows.  This is
\* safety alone: that a dispatch and a shutdown end is DispatchEnds and
\* ShutdownEnds, and that the constructor ends is refuted (ConstructorEnds).
ImplementsForkJoin == FJ!Spec

=============================================================================
