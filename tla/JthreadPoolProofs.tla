--------------------------- MODULE JthreadPoolProofs ---------------------------
(***************************************************************************)
(* Theorems about JthreadPool, for every number of workers: two barriers   *)
(* entered in alternation confine the workers to the task in flight, and a *)
(* latch counted down by every worker makes a pinned pool a bound one.     *)
(***************************************************************************)
EXTENDS JthreadPool, PartitionProofs, FiniteSetTheorems, TLAPS

\* The types, one part of the state at a time.
PcTypes ==
  /\ pc \in [Threads -> OwnerStates \cup WorkerStates]
  /\ pc[0] \in OwnerStates
  /\ \A w \in Spawned : pc[w] \in WorkerStates

LoopTypes ==
  /\ cursor \in [Threads -> Nat]
  /\ task \in [kind : {"none", "for", "reduce"}, n : Int, chunks : Nat]
  /\ attempts \in [0..(task.chunks - 1) -> Nat]
  /\ threw \subseteq Nat
  /\ relay \in [claimed : BOOLEAN, captured : BOOLEAN,
                first : Nat \cup {NoException}]

PoolTypes ==
  /\ release \in Barriers
  /\ collect \in Barriers
  /\ token \in [Threads -> Nat]
  /\ latch \in Int
  /\ stopping \in BOOLEAN
  /\ stopRequested \subseteq Spawned
  /\ pinRequested \in BOOLEAN
  /\ pin_outcomes \in [Threads -> Outcomes]
  /\ spawned \in 0..(W - 1)
  /\ answer \in Nat \cup {NoException, Pending}

-----------------------------------------------------------------------------
(* The constructor and the latch. *)

\* Workers that still owe the latch their count.
Owing == {w \in Spawned : pc[w] \in {"unborn", "pin", "count_down"}}

\* Owner states before the latch has opened, or of a constructor that failed.
BeforeLatch == {"spawn", "pin_owner", "await_latch", "unwind", "gone"}

LatchInvariant ==
  /\ \A w \in Spawned : w > spawned => pc[w] = "unborn"
  /\ pc[0] \notin {"spawn", "unwind", "gone"} => spawned = W - 1
  /\ latch = Cardinality(Owing)
  /\ pc[0] \notin BeforeLatch => Owing = {}
  /\ PinnedPoolIsBound

-----------------------------------------------------------------------------
(* The two barriers. *)

Waiting == {"at_release", "at_stop_release", "at_collect"}

\* Threads that have arrived in the phase a barrier is in.
Arrived ==
  {t \in Threads : pc[t] \in {"at_release", "at_stop_release"} /\ token[t] = release.phase}
Gathered == {t \in Threads : pc[t] = "at_collect" /\ token[t] = collect.phase}

Counted ==
  /\ release.arrived = Cardinality(Arrived)
  /\ collect.arrived = Cardinality(Gathered)

\* Between tasks: past collect_ or not yet through release_.
Outside(t) ==
  \/ pc[t] \in {"unborn", "pin", "count_down", "release"}
  \/ t = 0 /\ pc[t] \in Building \cup {"ready", "rethrow", "stop", "stop_release",
                                       "unwind", "gone"}
  \/ pc[t] \in {"at_release", "at_stop_release"} /\ token[t] = release.phase
  \/ pc[t] = "at_collect" /\ token[t] # collect.phase

\* In a task: through release_ and not yet past collect_.
Inside(t) ==
  \/ pc[t] \in Working \cup {"exited"}
  \/ t = 0 /\ pc[t] \in {"collect", "join", "gone"}
  \/ pc[t] \in {"at_release", "at_stop_release"} /\ token[t] # release.phase
  \/ pc[t] = "at_collect" /\ token[t] = collect.phase

BetweenTasks == release.phase = collect.phase /\ \A t \in Threads : Outside(t)
InTask == release.phase = collect.phase + 1 /\ \A t \in Threads : Inside(t)

\* All threads are on the same side of the two barriers; a pool of one never
\* enters them.
Alternation ==
  /\ W > 1 => BetweenTasks \/ InTask
  /\ W = 1 => pc[0] \notin {"release", "collect", "unwind"} \cup Waiting

\* Once the pool is told to stop it stays told, and no worker takes a task.
Stopped == {"at_stop_release", "join", "gone"}

StopInvariant ==
  /\ pc[0] \in {"stop_release", "at_stop_release", "join"} => stopping
  /\ pc[0] = "gone" => stopping \/ release.phase = collect.phase
  /\ pc[0] \in Stopped => \A w \in Spawned : pc[w] \notin Working

PoolInvariant ==
  TypeOK /\ LatchInvariant /\ Counted /\ Alternation /\ StopInvariant

-----------------------------------------------------------------------------
USE DEF Threads, Spawned, Pending, NoException

\* A grid is a natural number of chunks.
LEMMA GridShape ==
  ASSUME NEW kind \in {"for", "reduce"}, NEW n \in Int
  PROVE  Grid(kind, n) \in Nat
  <1> DEFINE per == Greater(ChunksPerWorker, 1)
  <1>1. per \in Nat /\ per >= 1
    BY ConfigAssumption DEF Greater
  <1> HIDE DEF per
  <1>2. W * per \in Nat
    BY <1>1, WorkersAssumption
  <1>3. Grid(kind, n) =
          IF kind = "for"
          THEN IF n <= 0 \/ W <= 0 THEN 0
               ELSE IF Schedule = "Static" THEN Lesser(W, n) ELSE Lesser(W * per, n)
          ELSE IF n <= 0 THEN 0 ELSE Lesser(ReductionCap, n)
    BY DEF Grid, for_chunk_count, reduction_chunk_count, per
  <1> QED
    BY <1>2, <1>3, WorkersAssumption, ConfigAssumption DEF Lesser

\* One thread moves to one of its own states.
LEMMA PcMove ==
  ASSUME PcTypes, NEW t \in Threads, NEW here,
         t = 0 => here \in OwnerStates,
         t # 0 => here \in WorkerStates,
         pc' = [pc EXCEPT ![t] = here]
  PROVE  PcTypes'
  BY WorkersAssumption DEF PcTypes

\* Every step moves at most one thread, to one of its own states.
LEMMA OneThreadMoves ==
  ASSUME PcTypes, PoolTypes, [Next]_vars
  PROVE  \/ pc' = pc
         \/ \E t \in Threads, here \in OwnerStates \cup WorkerStates :
              /\ t = 0 => here \in OwnerStates
              /\ t # 0 => here \in WorkerStates
              /\ pc' = [pc EXCEPT ![t] = here]
  <1> USE WorkersAssumption
  <1> DEFINE Moves(t, here) == pc' = [pc EXCEPT ![t] = here]
  <1>0. 0 \in Threads /\ \A w \in Spawned : w \in Threads /\ w # 0
    OBVIOUS
  <1>1. /\ {"spawn", "pin_owner", "await_latch", "aggregate", "stop", "stop_release",
             "at_stop_release", "join", "unwind", "ready", "gone", "release", "at_release",
             "execute", "caught", "publish", "collect", "at_collect", "rethrow"}
             \subseteq OwnerStates
        /\ {"pin", "count_down", "release", "at_release", "execute", "caught", "publish",
             "at_collect", "exited"} \subseteq WorkerStates
    BY DEF OwnerStates, WorkerStates, Building, Closing, InCall, InFlight, Working
  <1>2. CASE UNCHANGED vars
    BY <1>2 DEF vars
  <1>3. ASSUME NEW t \in Threads, Share(t)
        PROVE  \E here \in {"execute", "caught", "publish"} : Moves(t, here)
    BY <1>3 DEF Share, ShareStep, RunChunk, ClaimRelay, DropException, PublishRelay, Advance
  <1>4. CASE SpawnWorker
    <2>1. spawned + 1 \in Spawned
      BY <1>4 DEF SpawnWorker, PoolTypes
    <2> QED BY <1>0, <1>1, <1>4, <2>1 DEF SpawnWorker
  <1>5. CASE OwnerStep /\ ~SpawnWorker /\ ~Share(0)
    <2>1. pc' = pc \/ \E here \in {"pin_owner", "unwind", "await_latch", "aggregate", "ready",
                        "stop", "stop_release", "at_stop_release", "join", "gone",
                        "at_release", "execute", "collect", "at_collect", "rethrow"} :
             Moves(0, here)
      BY <1>5
      DEF OwnerStep, SpawnFails, AllSpawned, UnwindStopRequest, UnwindDone, PinOwner, LatchOpens,
          FinishPinning, SetStopping, RequestStop, StopRelease, StopReleased, JoinWorkers,
          OwnerRelease, OwnerReleased, OwnerShareDone, OwnerCollect, OwnerCollected, Rethrow,
          Move, ArriveRelease, ArriveCollect
    <2> QED BY <1>0, <1>1, <2>1
  <1>6. CASE ClientStep
    <2>1. pc' = pc \/ \E here \in {"stop", "execute", "release"} : Moves(0, here)
      BY <1>6 DEF ClientStep, Destroy, CallNothing, Call, Move
    <2> QED BY <1>0, <1>1, <2>1
  <1>7. ASSUME NEW w \in Spawned, WorkerStep(w), ~Share(w)
        PROVE  \E here \in {"count_down", "release", "at_release", "exited", "execute",
                            "at_collect"} : Moves(w, here)
    BY <1>7
    DEF WorkerStep, PinWorker, CountDown, WorkerRelease, WorkerReleased, WorkerCollect,
        WorkerCollected, Move, ArriveRelease, ArriveCollect
  <1>8. CASE Share(0)
    BY <1>0, <1>1, <1>3, <1>8
  <1>9. ASSUME NEW w \in Spawned, Share(w)
        PROVE  \E here \in WorkerStates : Moves(w, here)
    BY <1>0, <1>1, <1>3, <1>9
  <1>10. CASE \E w \in Spawned : WorkerStep(w)
    <2>1. PICK w \in Spawned : WorkerStep(w)
      BY <1>10
    <2>2. \E here \in WorkerStates : Moves(w, here)
      BY <1>1, <1>7, <1>9, <2>1
    <2> QED BY <1>0, <2>2
  <1> QED
    BY <1>2, <1>4, <1>5, <1>6, <1>8, <1>10 DEF Next

\* A step of the pool keeps the types of the chunk loops.
LEMMA LoopTypesStep ==
  ASSUME LoopTypes, PcTypes, PoolTypes, [Next]_vars
  PROVE  LoopTypes'
  <1> USE WorkersAssumption DEF LoopTypes
  <1>1. CASE UNCHANGED loopVars
    BY <1>1 DEF loopVars
  <1>2. ASSUME NEW kind \in {"for", "reduce"}, NEW n \in Sizes, Call(kind, n)
        PROVE  LoopTypes'
    <2>1. n \in Int /\ Grid(kind, n) \in Nat
      BY SizesAssumption, GridShape
    <2> QED
      BY <1>2, <2>1 DEF Call, Post, NoAttempts
  <1>3. CASE Rethrow
    BY <1>3 DEF Rethrow, RelayAfterRethrow, EmptyRelay
  <1>4. ASSUME NEW w \in Spawned, WorkerReleased(w) PROVE LoopTypes'
    <2>1. UNCHANGED <<task, attempts, threw, relay>>
      BY <1>4 DEF WorkerReleased, Move, loopVars
    <2>2. cursor' = cursor \/ cursor' = [cursor EXCEPT ![w] = w]
      BY <1>4 DEF WorkerReleased, Move, loopVars
    <2>3. w \in Nat /\ w \in Threads
      OBVIOUS
    <2>4. cursor' \in [Threads -> Nat]
      BY <2>2, <2>3
    <2> QED BY <2>1, <2>4
  <1>5. ASSUME NEW t \in Threads, Share(t) PROVE LoopTypes'
    <2>1. CASE RunChunk(t)
      <3>1. cursor[t] \in 0..(task.chunks - 1)
        BY <2>1 DEF RunChunk
      <3>2. attempts' \in [0..(task.chunks - 1) -> Nat]
        BY <2>1, <3>1 DEF RunChunk
      <3>3. cursor' \in [Threads -> Nat]
        <4>1. cursor[t] \in Nat /\ cursor[t] + W \in Nat
          BY <3>1
        <4>2. cursor' = cursor \/ cursor' = [cursor EXCEPT ![t] = cursor[t] + W]
          BY <2>1 DEF RunChunk, Advance
        <4> QED BY <4>1, <4>2
      <3>4. threw' \subseteq Nat
        <4>1. threw' = threw \/ threw' = threw \cup {cursor[t]}
          BY <2>1 DEF RunChunk
        <4>2. cursor[t] \in Nat
          OBVIOUS
        <4> QED BY <4>1, <4>2
      <3>5. task' = task /\ relay' = relay
        BY <2>1 DEF RunChunk
      <3> QED BY <3>2, <3>3, <3>4, <3>5
    <2>2. CASE ClaimRelay(t)
      BY <2>2 DEF ClaimRelay
    <2>3. CASE DropException(t)
      BY <2>3 DEF DropException, Advance
    <2>4. CASE PublishRelay(t)
      <3>1. cursor' \in [Threads -> Nat]
        BY <2>4 DEF PublishRelay, Advance
      <3>2. /\ relay' = [relay EXCEPT !.first = cursor[t], !.captured = TRUE]
            /\ cursor[t] \in Nat
        BY <2>4 DEF PublishRelay
      <3>3. relay' \in [claimed : BOOLEAN, captured : BOOLEAN,
                        first : Nat \cup {NoException}]
        BY <3>2
      <3>4. UNCHANGED <<task, attempts, threw>>
        BY <2>4 DEF PublishRelay
      <3> QED BY <3>1, <3>3, <3>4
    <2> QED
      BY <1>5, <2>1, <2>2, <2>3, <2>4 DEF Share, ShareStep
  <1>6. ASSUME OwnerStep, ~ Rethrow, ~ Share(0) PROVE UNCHANGED loopVars
    BY <1>6
    DEF OwnerStep, loopVars, SpawnWorker, SpawnFails, AllSpawned, UnwindStopRequest, UnwindDone,
        PinOwner, LatchOpens, FinishPinning, SetStopping, RequestStop, StopRelease, StopReleased,
        JoinWorkers, OwnerRelease, OwnerReleased, OwnerShareDone, OwnerCollect, OwnerCollected,
        Move
  <1>7. ASSUME NEW w \in Spawned, WorkerStep(w), ~ WorkerReleased(w), ~ Share(w)
        PROVE  UNCHANGED loopVars
    BY <1>7
    DEF WorkerStep, loopVars, PinWorker, CountDown, WorkerRelease, WorkerCollect,
        WorkerCollected, Move
  <1>8. ASSUME Destroy \/ UNCHANGED vars PROVE UNCHANGED loopVars
    BY <1>8 DEF Destroy, Move, vars, loopVars
  <1>9. ASSUME NEW kind \in {"for", "reduce"}, NEW n \in Sizes, CallNothing(kind, n)
        PROVE  UNCHANGED loopVars
    BY <1>9 DEF CallNothing, loopVars
  <1>11. Spawned \subseteq Threads /\ 0 \in Threads
    OBVIOUS
  <1>12. CASE OwnerStep
    BY <1>1, <1>3, <1>5, <1>6, <1>11, <1>12
  <1>13. CASE ClientStep
    BY <1>1, <1>2, <1>8, <1>9, <1>13 DEF ClientStep
  <1>14. CASE \E w \in Spawned : WorkerStep(w)
    BY <1>1, <1>4, <1>5, <1>7, <1>11, <1>14
  <1> QED
    BY <1>1, <1>8, <1>12, <1>13, <1>14 DEF Next

\* An arrival at a barrier keeps the types of its counters.
LEMMA ArrivalTypes ==
  ASSUME NEW b \in Barriers
  PROVE  AfterArrival(b) \in Barriers
  BY WorkersAssumption DEF AfterArrival, Participants, Barriers

\* A step of the pool keeps the types of its own variables.
LEMMA PoolTypesStep ==
  ASSUME PoolTypes, LoopTypes, [Next]_vars
  PROVE  PoolTypes'
  <1> USE WorkersAssumption DEF PoolTypes
  <1>0. 0 \in Threads /\ Spawned \subseteq Threads
    OBVIOUS
  <1>1. CASE UNCHANGED poolVars
    BY <1>1 DEF poolVars
  <1>2. ASSUME NEW t \in Threads, NEW here,
               ArriveRelease(t, here) \/ ArriveCollect(t, here),
               UNCHANGED <<latch, stopping, stopRequested, pinRequested, pin_outcomes,
                           spawned, answer>>
        PROVE  PoolTypes'
    <2>1. release.phase \in Nat /\ collect.phase \in Nat
      BY DEF Barriers
    <2>2. release' \in Barriers /\ collect' \in Barriers
      BY <1>2, ArrivalTypes DEF ArriveRelease, ArriveCollect
    <2>3. token' \in [Threads -> Nat]
      BY <1>2, <2>1 DEF ArriveRelease, ArriveCollect
    <2> QED BY <1>2, <2>2, <2>3
  <1>3. CASE SpawnWorker
    BY <1>3 DEF SpawnWorker
  <1>4. CASE UnwindStopRequest \/ RequestStop
    <2>1. 1..spawned \subseteq Spawned
      OBVIOUS
    <2> QED BY <1>4, <2>1 DEF UnwindStopRequest, RequestStop
  <1>5. CASE PinOwner
    <2>1. PinResults \subseteq Outcomes
      BY DEF PinResults, Outcomes
    <2> QED BY <1>0, <1>5, <2>1 DEF PinOwner
  <1>6. CASE SetStopping
    BY <1>6 DEF SetStopping
  <1>7. CASE StopRelease
    BY <1>0, <1>1, <1>2, <1>7 DEF StopRelease, Move
  <1>8. CASE OwnerRelease \/ OwnerCollect
    BY <1>0, <1>2, <1>8 DEF OwnerRelease, OwnerCollect
  <1>9. CASE Rethrow
    BY <1>9 DEF Rethrow, Delivered, LoopTypes
  <1>10. ASSUME NEW kind \in {"for", "reduce"}, NEW n \in Sizes,
                CallNothing(kind, n) \/ Call(kind, n)
         PROVE  PoolTypes'
    BY <1>10 DEF CallNothing, Call
  <1>11. ASSUME NEW w \in Spawned, PinWorker(w) PROVE PoolTypes'
    <2>1. PinResults \subseteq Outcomes
      BY DEF PinResults, Outcomes
    <2> QED BY <1>11, <2>1 DEF PinWorker
  <1>12. ASSUME NEW w \in Spawned, CountDown(w) PROVE PoolTypes'
    BY <1>12 DEF CountDown
  <1>13. ASSUME NEW w \in Spawned, WorkerRelease(w) \/ WorkerCollect(w) PROVE PoolTypes'
    BY <1>0, <1>2, <1>13 DEF WorkerRelease, WorkerCollect
  <1>14. CASE OwnerStep
    BY <1>1, <1>3, <1>4, <1>5, <1>6, <1>7, <1>8, <1>9, <1>14
    DEF OwnerStep, SpawnFails, AllSpawned, UnwindDone, LatchOpens, FinishPinning, StopReleased,
        JoinWorkers, OwnerReleased, OwnerShareDone, OwnerCollected, Share, Move
  <1>15. CASE ClientStep
    BY <1>1, <1>10, <1>15 DEF ClientStep, Destroy, Move
  <1>16. CASE \E w \in Spawned : WorkerStep(w)
    <2>1. PICK w \in Spawned : WorkerStep(w)
      BY <1>16
    <2>2. CASE WorkerReleased(w) \/ WorkerCollected(w) \/ Share(w)
      BY <1>1, <2>2 DEF WorkerReleased, WorkerCollected, Share, Move
    <2> QED BY <1>11, <1>12, <1>13, <2>1, <2>2 DEF WorkerStep
  <1> QED
    BY <1>1, <1>14, <1>15, <1>16 DEF Next, vars, poolVars

\* The three groups of types are the type invariant.
LEMMA TypesAreTypeOK == TypeOK <=> PcTypes /\ LoopTypes /\ PoolTypes
  BY DEF TypeOK, PcTypes, LoopTypes, PoolTypes

\* Every step keeps the types.
LEMMA TypeStep == TypeOK /\ [Next]_vars => TypeOK'
  <1> SUFFICES ASSUME PcTypes, LoopTypes, PoolTypes, [Next]_vars PROVE TypeOK'
    BY TypesAreTypeOK
  <1>1. PcTypes'
    <2>1. CASE pc' = pc
      BY <2>1 DEF PcTypes
    <2>2. CASE pc' # pc
      BY <2>2, OneThreadMoves, PcMove
    <2> QED BY <2>1, <2>2
  <1>2. LoopTypes' /\ PoolTypes'
    BY LoopTypesStep, PoolTypesStep
  <1> QED BY <1>1, <1>2 DEF TypeOK, PcTypes, LoopTypes, PoolTypes

\* The types hold at the start.
LEMMA InitTypes == Init => TypeOK
  <1> SUFFICES ASSUME Init PROVE TypeOK
    OBVIOUS
  <1> USE WorkersAssumption
  <1>1. PcTypes
    BY DEF Init, PcTypes, OwnerStates, WorkerStates, Building
  <1>2. LoopTypes
    BY DEF Init, LoopTypes, NoTask, NoAttempts, EmptyRelay
  <1>3. release \in Barriers /\ collect \in Barriers
    BY DEF Init, NewBarrier, Barriers
  <1>4. /\ pin_outcomes \in [Threads -> Outcomes]
        /\ token \in [Threads -> Nat]
        /\ spawned \in 0..(W - 1)
    BY DEF Init, Outcomes
  <1>6. latch \in Int /\ answer \in Nat \cup {NoException, Pending}
    BY DEF Init
  <1>7. stopping = FALSE /\ stopRequested = {} /\ pinRequested \in BOOLEAN
    BY DEF Init
  <1>5. PoolTypes
    BY <1>3, <1>4, <1>6, <1>7 DEF PoolTypes
  <1> QED BY <1>1, <1>2, <1>5, TypesAreTypeOK

-----------------------------------------------------------------------------
(* The constructor and the latch: pinned_ opens when every worker has bound. *)

OwingPcs == {"unborn", "pin", "count_down"}

\* The workers that still owe the construction latch a count are finitely many.
LEMMA OwingFinite == IsFiniteSet(Owing) /\ (Cardinality(Owing) = 0 <=> Owing = {})
  <1>1. IsFiniteSet(Spawned) /\ Owing \subseteq Spawned
    BY WorkersAssumption, FS_Interval DEF Owing
  <1>2. IsFiniteSet(Owing)
    BY <1>1, FS_Subset
  <1> QED BY <1>2, FS_EmptySet

\* Steps that move no worker past the latch leave its count alone.
LEMMA OwingKept ==
  ASSUME PcTypes, LatchInvariant, NEW t \in Threads, NEW here,
         pc' = [pc EXCEPT ![t] = here],
         t # 0 => (pc[t] \in OwingPcs <=> here \in OwingPcs),
         \A w \in Spawned : w > spawned' => w > spawned /\ w # t
  PROVE  Owing' = Owing /\ \A w \in Spawned : w > spawned' => pc'[w] = "unborn"
  <1>1. \A w \in Spawned : pc'[w] = IF w = t THEN here ELSE pc[w]
    BY DEF PcTypes
  <1>2. Owing' = Owing
    BY <1>1 DEF Owing, OwingPcs
  <1>3. ASSUME NEW w \in Spawned, w > spawned' PROVE pc'[w] = "unborn"
    <2>1. w # t /\ w > spawned
      BY <1>3
    <2> QED BY <1>1, <2>1 DEF LatchInvariant
  <1> QED BY <1>2, <1>3

\* Once the latch has opened the owner's moves keep what it found out.
LEMMA LateMove ==
  ASSUME PcTypes, PoolTypes, LatchInvariant, NEW here,
         pc' = [pc EXCEPT ![0] = here],
         pc[0] \notin BeforeLatch,
         here \notin {"spawn", "unwind", "pin_owner", "await_latch"},
         here \in InCall \cup {"ready"} => pc[0] \in InCall \cup {"ready"},
         UNCHANGED <<latch, spawned, pinRequested, pin_outcomes>>
  PROVE  LatchInvariant'
  <1>1. 0 \in Threads /\ pc'[0] = here
    BY WorkersAssumption DEF PcTypes
  <1>2. Owing' = Owing /\ \A w \in Spawned : w > spawned' => pc'[w] = "unborn"
    <2>1. \A w \in Spawned : w > spawned' => w > spawned /\ w # 0
      BY WorkersAssumption
    <2> QED BY <1>1, <2>1, OwingKept
  <1>3. Owing = {} /\ spawned = W - 1
    BY DEF LatchInvariant, BeforeLatch
  <1>4. PinnedPoolIsBound'
    BY <1>1 DEF LatchInvariant, PinnedPoolIsBound
  <1>5. latch' = Cardinality(Owing')
    BY <1>2 DEF LatchInvariant
  <1> QED BY <1>1, <1>2, <1>3, <1>4, <1>5 DEF LatchInvariant

\* Before it opens, nothing but the number of workers started is known.
LEMMA EarlyMove ==
  ASSUME PcTypes, PoolTypes, LatchInvariant, NEW here \in BeforeLatch,
         pc' = [pc EXCEPT ![0] = here],
         here \notin {"spawn", "unwind", "gone"} => spawned = W - 1,
         UNCHANGED <<latch, spawned, pinRequested>>
  PROVE  LatchInvariant'
  <1>1. 0 \in Threads /\ pc'[0] = here
    BY WorkersAssumption DEF PcTypes
  <1>2. Owing' = Owing /\ \A w \in Spawned : w > spawned' => pc'[w] = "unborn"
    <2>1. \A w \in Spawned : w > spawned' => w > spawned /\ w # 0
      BY WorkersAssumption
    <2> QED BY <1>1, <2>1, OwingKept
  <1>3. PinnedPoolIsBound'
    BY <1>1 DEF PinnedPoolIsBound, BeforeLatch, InCall, InFlight, Working
  <1>4. latch' = Cardinality(Owing')
    BY <1>2 DEF LatchInvariant
  <1> QED BY <1>1, <1>2, <1>3, <1>4 DEF LatchInvariant

\* A worker that has counted down stays so.
LEMMA WorkerMove ==
  ASSUME PcTypes, PoolTypes, LatchInvariant, NEW w \in Spawned, NEW here,
         pc' = [pc EXCEPT ![w] = here],
         pc[w] \notin OwingPcs, here \notin OwingPcs,
         UNCHANGED <<latch, spawned, pinRequested, pin_outcomes>>
  PROVE  LatchInvariant'
  <1>1. w \in Threads /\ w # 0 /\ pc'[0] = pc[0]
    BY WorkersAssumption DEF PcTypes
  <1>2. w <= spawned'
    BY WorkersAssumption DEF LatchInvariant, OwingPcs, PoolTypes
  <1>3. Owing' = Owing /\ \A v \in Spawned : v > spawned' => pc'[v] = "unborn"
    <2>1. \A v \in Spawned : v > spawned' => v > spawned /\ v # w
      BY <1>2, WorkersAssumption DEF PoolTypes
    <2> QED BY <1>1, <2>1, OwingKept
  <1>4. latch' = Cardinality(Owing')
    BY <1>3 DEF LatchInvariant
  <1> QED BY <1>1, <1>3, <1>4 DEF LatchInvariant, PinnedPoolIsBound

\* Every step keeps the account of the construction latch.
LEMMA LatchStep == TypeOK /\ LatchInvariant /\ [Next]_vars => LatchInvariant'
  <1> SUFFICES ASSUME PcTypes, PoolTypes, LatchInvariant, [Next]_vars
               PROVE  LatchInvariant'
    BY TypesAreTypeOK
  <1>0. 0 \in Threads /\ \A w \in Spawned : w \in Threads /\ w # 0
    BY WorkersAssumption
  <1>1. CASE UNCHANGED <<pc, latch, spawned, pinRequested, pin_outcomes>>
    BY <1>1 DEF LatchInvariant, Owing, PinnedPoolIsBound
  <1>2. CASE SpawnWorker
    <2> DEFINE t == spawned + 1
    <2>1. /\ t \in Spawned /\ t > spawned /\ spawned' = t
          /\ pc' = [pc EXCEPT ![t] = "pin"] /\ pc[0] = "spawn"
          /\ UNCHANGED <<latch, pinRequested, pin_outcomes>>
      BY <1>2, WorkersAssumption DEF SpawnWorker, PoolTypes
    <2> HIDE DEF t
    <2>2. pc[t] = "unborn"
      BY <2>1 DEF LatchInvariant
    <2>3. \A w \in Spawned : w > spawned' => w > spawned /\ w # t
      BY <2>1, WorkersAssumption DEF PoolTypes
    <2>4. Owing' = Owing /\ \A w \in Spawned : w > spawned' => pc'[w] = "unborn"
      BY <1>0, <2>1, <2>2, <2>3, OwingKept DEF OwingPcs
    <2>5. pc'[0] = "spawn"
      BY <1>0, <2>1 DEF PcTypes
    <2>6. latch' = Cardinality(Owing')
      BY <2>1, <2>4 DEF LatchInvariant
    <2> QED
      BY <2>4, <2>5, <2>6
      DEF LatchInvariant, PinnedPoolIsBound, BeforeLatch, InCall, InFlight, Working
  <1>3. CASE SpawnFails \/ AllSpawned \/ UnwindDone \/ JoinWorkers
    <2>1. \E here \in BeforeLatch :
            /\ pc' = [pc EXCEPT ![0] = here]
            /\ here \notin {"spawn", "unwind", "gone"} => spawned = W - 1
            /\ UNCHANGED <<latch, spawned, pinRequested>>
      BY <1>3
      DEF SpawnFails, AllSpawned, UnwindDone, JoinWorkers, Move, poolVars, BeforeLatch
    <2> QED BY <2>1, EarlyMove
  <1>4. CASE PinOwner
    <2>1. /\ pc' = [pc EXCEPT ![0] = "await_latch"] /\ pc[0] = "pin_owner"
          /\ UNCHANGED <<latch, spawned, pinRequested>>
      BY <1>4 DEF PinOwner
    <2>2. "await_latch" \in BeforeLatch /\ spawned = W - 1
      BY <2>1 DEF BeforeLatch, LatchInvariant
    <2> QED BY <2>1, <2>2, EarlyMove
  <1>5. CASE LatchOpens
    <2>1. /\ pc' = [pc EXCEPT ![0] = "aggregate"] /\ pc[0] = "await_latch" /\ latch = 0
          /\ UNCHANGED <<latch, spawned, pinRequested, pin_outcomes>>
      BY <1>5 DEF LatchOpens, Move, poolVars
    <2>2. Owing = {} /\ spawned = W - 1
      BY <2>1, OwingFinite DEF LatchInvariant
    <2>3. \A w \in Spawned : w > spawned' => w > spawned /\ w # 0
      BY <2>1, WorkersAssumption
    <2>4. Owing' = Owing /\ \A w \in Spawned : w > spawned' => pc'[w] = "unborn"
      BY <1>0, <2>1, <2>3, OwingKept
    <2>5. pc'[0] = "aggregate"
      BY <1>0, <2>1 DEF PcTypes
    <2>6. latch' = Cardinality(Owing')
      BY <2>1, <2>4 DEF LatchInvariant
    <2> QED
      BY <2>1, <2>2, <2>4, <2>5, <2>6
      DEF LatchInvariant, PinnedPoolIsBound, InCall, InFlight, Working
  <1>6. CASE FinishPinning
    <2>1. CASE pc' = [pc EXCEPT ![0] = "stop"]
      BY <1>6, <2>1, LateMove
      DEF FinishPinning, Move, poolVars, BeforeLatch, InCall, InFlight, Working
    <2>2. CASE pc' = [pc EXCEPT ![0] = "ready"] /\ (pinRequested => \A t \in Threads : pin_outcomes[t] = "bound")
      <3>1. pc[0] = "aggregate" /\ UNCHANGED <<latch, spawned, pinRequested, pin_outcomes>>
        BY <1>6 DEF FinishPinning, Move, poolVars
      <3>2. Owing = {} /\ spawned = W - 1 /\ spawned \in Int
        BY <3>1 DEF LatchInvariant, BeforeLatch, PoolTypes
      <3>6. \A w \in Spawned : w > spawned' => w > spawned /\ w # 0
        BY <3>1, WorkersAssumption
      <3>3. Owing' = Owing /\ \A w \in Spawned : w > spawned' => pc'[w] = "unborn"
        BY <1>0, <2>2, <3>6, OwingKept
      <3>4. latch' = Cardinality(Owing')
        BY <3>1, <3>3 DEF LatchInvariant
      <3>5. PinnedPoolIsBound'
        BY <2>2, <3>1 DEF PinnedPoolIsBound
      <3> QED BY <3>1, <3>2, <3>3, <3>4, <3>5 DEF LatchInvariant
    <2> QED BY <1>6, <2>1, <2>2 DEF FinishPinning, Move
  <1>7. ASSUME NEW here \in {"stop", "stop_release", "at_stop_release", "join"},
               pc' = [pc EXCEPT ![0] = here], pc[0] \notin BeforeLatch,
               UNCHANGED <<latch, spawned, pinRequested, pin_outcomes>>
        PROVE  LatchInvariant'
    BY <1>7, LateMove DEF InCall, InFlight, Working
  <1>8. ASSUME NEW here \in InCall \cup {"ready"},
               pc' = [pc EXCEPT ![0] = here], pc[0] \in InCall \cup {"ready"},
               UNCHANGED <<latch, spawned, pinRequested, pin_outcomes>>
        PROVE  LatchInvariant'
    <2>1. pc[0] \notin BeforeLatch /\ here \notin {"spawn", "unwind", "pin_owner", "await_latch"}
      BY <1>8 DEF BeforeLatch, InCall, InFlight, Working
    <2> QED BY <1>8, <2>1, LateMove
  <1>9. CASE SetStopping \/ StopRelease \/ StopReleased \/ Destroy
    <2>1. /\ pc[0] \notin BeforeLatch
          /\ UNCHANGED <<latch, spawned, pinRequested, pin_outcomes>>
          /\ \E here \in {"stop", "stop_release", "at_stop_release", "join"} :
               pc' = [pc EXCEPT ![0] = here]
      BY <1>9
      DEF SetStopping, StopRelease, StopReleased, Destroy, Move, poolVars, BeforeLatch,
          ArriveRelease
    <2> QED BY <1>7, <2>1
  <1>10. ASSUME NEW t \in Threads, Share(t)
         PROVE  /\ pc[t] \in Working
                /\ UNCHANGED <<latch, spawned, pinRequested, pin_outcomes>>
                /\ \E here \in Working : pc' = [pc EXCEPT ![t] = here]
    BY <1>10
    DEF Share, ShareStep, RunChunk, ClaimRelay, DropException, PublishRelay, Advance, poolVars,
        Working
  <1>11. CASE OwnerRelease \/ OwnerReleased \/ OwnerShareDone \/ OwnerCollect
              \/ OwnerCollected \/ Rethrow
    <2>1. /\ pc[0] \in InCall \cup {"ready"}
          /\ UNCHANGED <<latch, spawned, pinRequested, pin_outcomes>>
          /\ \E here \in InCall \cup {"ready"} : pc' = [pc EXCEPT ![0] = here]
      BY <1>11
      DEF OwnerRelease, OwnerReleased, OwnerShareDone, ShareDone, OwnerCollect, OwnerCollected,
          Rethrow, ArriveRelease, ArriveCollect, Move, poolVars, InCall, InFlight, Working
    <2> QED BY <1>8, <2>1
  <1>12. CASE Share(0)
    BY <1>0, <1>8, <1>10, <1>12 DEF InCall, InFlight
  <1>13. ASSUME NEW kind \in {"for", "reduce"}, NEW n \in Sizes, Call(kind, n)
         PROVE  LatchInvariant'
    <2>1. /\ pc[0] = "ready"
          /\ UNCHANGED <<latch, spawned, pinRequested, pin_outcomes>>
          /\ \E here \in {"execute", "release"} : pc' = [pc EXCEPT ![0] = here]
      BY <1>13 DEF Call
    <2> QED BY <1>8, <2>1 DEF InCall, InFlight, Working
  <1>14. CASE UnwindStopRequest \/ RequestStop
    BY <1>1, <1>14 DEF UnwindStopRequest, RequestStop
  <1>15. ASSUME NEW w \in Spawned, PinWorker(w) PROVE LatchInvariant'
    <2>1. /\ pc[w] = "pin" /\ pc' = [pc EXCEPT ![w] = "count_down"]
          /\ UNCHANGED <<latch, spawned, pinRequested>>
      BY <1>15 DEF PinWorker
    <2>2. \A v \in Spawned : v > spawned' => v > spawned /\ v # w
      BY <2>1, WorkersAssumption DEF LatchInvariant, PoolTypes
    <2>3. Owing' = Owing /\ \A v \in Spawned : v > spawned' => pc'[v] = "unborn"
      BY <1>0, <2>1, <2>2, OwingKept DEF OwingPcs
    <2>4. w \in Owing /\ pc[0] \in BeforeLatch /\ pc'[0] = pc[0]
      BY <1>0, <2>1 DEF Owing, LatchInvariant, PcTypes
    <2>5. latch' = Cardinality(Owing')
      BY <2>1, <2>3 DEF LatchInvariant
    <2>6. PinnedPoolIsBound'
      BY <2>4 DEF PinnedPoolIsBound, BeforeLatch, InCall, InFlight, Working
    <2> QED BY <2>1, <2>3, <2>4, <2>5, <2>6 DEF LatchInvariant
  <1>16. ASSUME NEW w \in Spawned, CountDown(w) PROVE LatchInvariant'
    <2>1. /\ pc[w] = "count_down" /\ pc' = [pc EXCEPT ![w] = "release"]
          /\ latch' = latch - 1
          /\ UNCHANGED <<spawned, pinRequested, pin_outcomes>>
      BY <1>16 DEF CountDown
    <2>2. \A v \in Threads : pc'[v] = IF v = w THEN "release" ELSE pc[v]
      BY <1>0, <2>1 DEF PcTypes
    <2>3. w \in Owing /\ Owing' = Owing \ {w}
      BY <1>0, <2>1, <2>2 DEF Owing
    <2>4. Cardinality(Owing \ {w}) = Cardinality(Owing) - 1
      BY <2>3, OwingFinite, FS_RemoveElement
    <2>5. latch' = Cardinality(Owing')
      BY <2>1, <2>3, <2>4 DEF LatchInvariant
    <2>6. pc[0] \in BeforeLatch /\ pc'[0] = pc[0]
      BY <1>0, <2>2, <2>3 DEF LatchInvariant
    <2>7. \A v \in Spawned : v > spawned' => pc'[v] = "unborn"
      BY <1>0, <2>1, <2>2 DEF LatchInvariant
    <2> QED
      BY <2>1, <2>5, <2>6, <2>7 DEF LatchInvariant, PinnedPoolIsBound
  <1>17. ASSUME NEW w \in Spawned,
                WorkerRelease(w) \/ WorkerReleased(w) \/ WorkerCollect(w) \/ WorkerCollected(w)
         PROVE  LatchInvariant'
    <2>1. /\ pc[w] \notin OwingPcs
          /\ UNCHANGED <<latch, spawned, pinRequested, pin_outcomes>>
          /\ \E here \in {"at_release", "exited", "execute", "at_collect", "release"} :
               pc' = [pc EXCEPT ![w] = here]
      BY <1>17
      DEF WorkerRelease, WorkerReleased, WorkerCollect, ShareDone, WorkerCollected,
          ArriveRelease, ArriveCollect, Move, poolVars, OwingPcs
    <2> QED BY <2>1, WorkerMove DEF OwingPcs
  <1>18. ASSUME NEW w \in Spawned, Share(w) PROVE LatchInvariant'
    BY <1>0, <1>10, <1>18, WorkerMove DEF Working, OwingPcs
  <1>19. CASE OwnerStep
    BY <1>2, <1>3, <1>4, <1>5, <1>6, <1>9, <1>11, <1>12, <1>14, <1>19 DEF OwnerStep
  <1>20. CASE ClientStep
    <2>1. ASSUME NEW kind \in {"for", "reduce"}, NEW n \in Sizes, CallNothing(kind, n)
          PROVE  LatchInvariant'
      BY <1>1, <2>1 DEF CallNothing
    <2> QED BY <1>9, <1>13, <1>20, <2>1 DEF ClientStep
  <1>21. CASE \E w \in Spawned : WorkerStep(w)
    BY <1>15, <1>16, <1>17, <1>18, <1>21 DEF WorkerStep
  <1> QED
    BY <1>1, <1>19, <1>20, <1>21 DEF Next, vars

-----------------------------------------------------------------------------
(* The two barriers: every thread is on the same side of both. *)

OutsidePcs(t) ==
  {"unborn", "pin", "count_down", "release"}
    \cup (IF t = 0 THEN Building \cup {"ready", "rethrow", "stop", "stop_release",
                                       "unwind", "gone"}
          ELSE {})

InsidePcs(t) ==
  Working \cup {"exited"} \cup (IF t = 0 THEN {"collect", "join", "gone"} ELSE {})

\* A thread that was not waiting at a barrier, or has been released from it,
\* moves on the side of the barriers it is on.
LEMMA QuietMove ==
  ASSUME PcTypes, Counted, Alternation, NEW t \in Threads, NEW here,
         pc' = [pc EXCEPT ![t] = here],
         UNCHANGED <<release, collect, token>>,
         t \notin Arrived, t \notin Gathered, here \notin Waiting,
         W = 1 => here \notin {"release", "collect", "unwind"},
         W > 1 /\ BetweenTasks => here \in OutsidePcs(t),
         W > 1 /\ InTask => here \in InsidePcs(t)
  PROVE  Counted' /\ Alternation'
  <1>0. W \in Nat \ {0}
    BY WorkersAssumption
  <1>1. \A u \in Threads : pc'[u] = IF u = t THEN here ELSE pc[u]
    BY DEF PcTypes
  <1>2. Arrived' = Arrived
    BY <1>1 DEF Arrived, Waiting
  <1>3. Gathered' = Gathered
    BY <1>1 DEF Gathered, Waiting
  <1>4. Counted'
    BY <1>2, <1>3 DEF Counted
  <1>5. CASE W = 1
    <2>1. t = 0 /\ 0 \in Threads
      BY <1>5
    <2> QED BY <1>1, <1>4, <1>5, <2>1 DEF Alternation
  <1>6. CASE W > 1 /\ BetweenTasks
    <2>1. ASSUME NEW u \in Threads PROVE Outside(u)'
      <3>1. CASE u = t
        BY <1>1, <1>6, <3>1 DEF Outside, OutsidePcs
      <3>2. CASE u # t
        BY <1>1, <1>6, <3>2 DEF BetweenTasks, Outside
      <3> QED BY <3>1, <3>2
    <2> QED BY <1>4, <1>6, <2>1 DEF Alternation, BetweenTasks
  <1>7. CASE W > 1 /\ InTask
    <2>1. ASSUME NEW u \in Threads PROVE Inside(u)'
      <3>1. CASE u = t
        BY <1>1, <1>7, <3>1 DEF Inside, InsidePcs
      <3>2. CASE u # t
        BY <1>1, <1>7, <3>2 DEF InTask, Inside
      <3> QED BY <3>1, <3>2
    <2> QED BY <1>4, <1>7, <2>1 DEF Alternation, InTask
  <1> QED BY <1>0, <1>5, <1>6, <1>7 DEF Alternation

\* Leaving one member out.
LEMMA AllButOne ==
  ASSUME NEW T, IsFiniteSet(T), Cardinality(T) \in Nat, NEW S \in SUBSET T, NEW t \in T, t \notin S
  PROVE  /\ IsFiniteSet(S) /\ Cardinality(S) \in Nat
         /\ Cardinality(S \cup {t}) = Cardinality(S) + 1
         /\ Cardinality(S) + 1 >= Cardinality(T) => S = T \ {t}
  <1> DEFINE U == T \ {t}
  <1>1. IsFiniteSet(U) /\ Cardinality(U) = Cardinality(T) - 1
    BY FS_RemoveElement
  <1>2. S \in SUBSET U
    OBVIOUS
  <1> HIDE DEF U
  <1>3. IsFiniteSet(S) /\ Cardinality(S) <= Cardinality(U)
    BY <1>1, <1>2, FS_Subset
  <1>4. Cardinality(S) \in Nat
    BY <1>3, FS_CardinalityType
  <1>5. Cardinality(S \cup {t}) = Cardinality(S) + 1
    BY <1>3, FS_AddElement
  <1>6. Cardinality(S) + 1 >= Cardinality(T) => Cardinality(U) = Cardinality(S)
    BY <1>1, <1>3, <1>4
  <1>7. Cardinality(S) + 1 >= Cardinality(T) => S = U
    BY <1>1, <1>2, <1>6, FS_Subset
  <1> QED BY <1>3, <1>4, <1>5, <1>7 DEF U

\* Who may be missing when the last arrival comes.
LEMMA LastArrival ==
  ASSUME NEW S \in SUBSET Threads, NEW t \in Threads, t \notin S
  PROVE  /\ IsFiniteSet(S) /\ Cardinality(S) \in Nat
         /\ Cardinality(S \cup {t}) = Cardinality(S) + 1
         /\ Cardinality(S) + 1 >= W => S = Threads \ {t}
  <1>1. IsFiniteSet(Threads) /\ Cardinality(Threads) = W /\ W \in Nat
    BY WorkersAssumption, FS_Interval
  <1> HIDE DEF Threads
  <1> QED BY <1>1, AllButOne

\* The last arrival at release_ opens a task for every thread at once.
LEMMA ReleaseStep ==
  ASSUME PcTypes, PoolTypes, Counted, BetweenTasks, W > 1,
         NEW t \in Threads, NEW here \in {"at_release", "at_stop_release"},
         pc[t] \notin Waiting, ArriveRelease(t, here)
  PROVE  /\ Counted' /\ Alternation'
         /\ \/ release'.phase = release.phase /\ collect' = collect
            \/ \A u \in Threads : u # t => pc[u] \in Waiting
  <1> USE WorkersAssumption
  <1>1. /\ \A u \in Threads : pc'[u] = IF u = t THEN here ELSE pc[u]
        /\ \A u \in Threads : token'[u] = IF u = t THEN release.phase ELSE token[u]
        /\ collect' = collect
    BY DEF ArriveRelease, PcTypes, PoolTypes
  <1>2. /\ release.arrived \in Nat /\ release.phase \in Nat
        /\ release \in [arrived : 0..(W - 1), phase : Nat]
    BY DEF PoolTypes, Barriers
  <1>3. /\ Arrived \in SUBSET Threads /\ t \notin Arrived
        /\ release.arrived = Cardinality(Arrived)
    BY DEF Arrived, Waiting, Counted
  <1>4. Gathered = {} /\ collect.arrived = 0 /\ collect.phase = release.phase
    <2>1. Gathered = {}
      BY DEF Gathered, BetweenTasks, Outside, Building
    <2> QED BY <2>1, FS_EmptySet DEF Counted, BetweenTasks
  <1>5. Gathered' = {}
    <2>1. ASSUME NEW u \in Threads, pc'[u] = "at_collect" PROVE token'[u] # collect'.phase
      <3>1. u # t /\ pc[u] = "at_collect"
        BY <1>1, <2>1
      <3> QED BY <1>1, <1>4, <3>1 DEF Gathered
    <2> QED BY <2>1 DEF Gathered
  <1>6. Counted' <=> release'.arrived = Cardinality(Arrived')
    BY <1>1, <1>4, <1>5, FS_EmptySet DEF Counted
  <1>7. CASE release.arrived + 1 >= W
    <2>1. Arrived = Threads \ {t}
      BY <1>3, <1>7, LastArrival
    <2>2. release' = [arrived |-> 0, phase |-> release.phase + 1]
      BY <1>7 DEF ArriveRelease, AfterArrival, Participants
    <2>3. \A u \in Threads : /\ pc'[u] \in {"at_release", "at_stop_release"}
                             /\ token'[u] = release.phase
      BY <1>1, <2>1 DEF Arrived
    <2>4. Arrived' = {}
      BY <1>2, <2>2, <2>3 DEF Arrived
    <2>5. \A u \in Threads : Inside(u)'
      BY <1>2, <2>2, <2>3 DEF Inside
    <2>6. release'.phase = collect'.phase + 1
      BY <1>1, <1>4, <2>2
    <2>7. InTask'
      BY <2>5, <2>6 DEF InTask
    <2>8. \A u \in Threads : u # t => pc[u] \in Waiting
      BY <2>1 DEF Arrived, Waiting
    <2> QED BY <1>6, <2>2, <2>4, <2>7, <2>8, FS_EmptySet DEF Alternation
  <1>8. CASE ~(release.arrived + 1 >= W)
    <2>1. release'.arrived = release.arrived + 1 /\ release'.phase = release.phase
      BY <1>2, <1>8 DEF ArriveRelease, AfterArrival, Participants
    <2>2. Arrived' = Arrived \cup {t}
      BY <1>1, <2>1 DEF Arrived
    <2>3. Counted'
      BY <1>3, <1>6, <2>1, <2>2, LastArrival
    <2>4. ASSUME NEW u \in Threads PROVE Outside(u)'
      BY <1>1, <2>1 DEF Outside, BetweenTasks
    <2>5. BetweenTasks'
      BY <1>1, <1>4, <2>1, <2>4 DEF BetweenTasks
    <2> QED BY <1>1, <2>1, <2>3, <2>5 DEF Alternation
  <1> QED BY <1>7, <1>8

\* The last arrival at collect_ closes the task for every thread at once.
LEMMA CollectStep ==
  ASSUME PcTypes, PoolTypes, Counted, InTask, W > 1,
         NEW t \in Threads, pc[t] \notin Waiting, ArriveCollect(t, "at_collect")
  PROVE  /\ Counted' /\ Alternation'
         /\ \/ collect'.phase = collect.phase /\ release' = release
            \/ \A u \in Threads : u # t => pc[u] \in Waiting
  <1> USE WorkersAssumption
  <1>1. /\ \A u \in Threads : pc'[u] = IF u = t THEN "at_collect" ELSE pc[u]
        /\ \A u \in Threads : token'[u] = IF u = t THEN collect.phase ELSE token[u]
        /\ release' = release
    BY DEF ArriveCollect, PcTypes, PoolTypes
  <1>2. /\ collect.arrived \in Nat /\ collect.phase \in Nat
        /\ collect \in [arrived : 0..(W - 1), phase : Nat]
    BY DEF PoolTypes, Barriers
  <1>3. /\ Gathered \in SUBSET Threads /\ t \notin Gathered
        /\ collect.arrived = Cardinality(Gathered)
    BY DEF Gathered, Waiting, Counted
  <1>4. Arrived = {} /\ release.arrived = 0 /\ release.phase = collect.phase + 1
    <2>1. Arrived = {}
      BY DEF Arrived, InTask, Inside, Working
    <2> QED BY <2>1, FS_EmptySet DEF Counted, InTask
  <1>5. Arrived' = {}
    <2>1. ASSUME NEW u \in Threads, pc'[u] \in {"at_release", "at_stop_release"}
          PROVE  token'[u] # release'.phase
      <3>1. u # t /\ pc[u] \in {"at_release", "at_stop_release"}
        BY <1>1, <2>1
      <3> QED BY <1>1, <1>4, <3>1 DEF Arrived
    <2> QED BY <2>1 DEF Arrived
  <1>6. Counted' <=> collect'.arrived = Cardinality(Gathered')
    BY <1>1, <1>4, <1>5, FS_EmptySet DEF Counted
  <1>7. CASE collect.arrived + 1 >= W
    <2>1. Gathered = Threads \ {t}
      BY <1>3, <1>7, LastArrival
    <2>2. collect' = [arrived |-> 0, phase |-> collect.phase + 1]
      BY <1>7 DEF ArriveCollect, AfterArrival, Participants
    <2>3. \A u \in Threads : pc'[u] = "at_collect" /\ token'[u] = collect.phase
      BY <1>1, <2>1 DEF Gathered
    <2>4. Gathered' = {}
      BY <1>2, <2>2, <2>3 DEF Gathered
    <2>5. \A u \in Threads : Outside(u)'
      BY <1>2, <2>2, <2>3 DEF Outside
    <2>6. release'.phase = collect'.phase
      BY <1>1, <1>4, <2>2
    <2>7. BetweenTasks'
      BY <2>5, <2>6 DEF BetweenTasks
    <2>8. \A u \in Threads : u # t => pc[u] \in Waiting
      BY <2>1 DEF Gathered, Waiting
    <2> QED BY <1>6, <2>2, <2>4, <2>7, <2>8, FS_EmptySet DEF Alternation
  <1>8. CASE ~(collect.arrived + 1 >= W)
    <2>1. collect'.arrived = collect.arrived + 1 /\ collect'.phase = collect.phase
      BY <1>2, <1>8 DEF ArriveCollect, AfterArrival, Participants
    <2>2. Gathered' = Gathered \cup {t}
      BY <1>1, <2>1 DEF Gathered
    <2>3. Counted'
      BY <1>3, <1>6, <2>1, <2>2, LastArrival
    <2>4. ASSUME NEW u \in Threads PROVE Inside(u)'
      BY <1>1, <2>1 DEF Inside, InTask
    <2>5. InTask'
      BY <1>1, <1>4, <2>1, <2>4 DEF InTask
    <2> QED BY <1>1, <2>1, <2>3, <2>5 DEF Alternation
  <1> QED BY <1>7, <1>8

\* States on one side of the barriers only.
OutsideOnly ==
  {"unborn", "pin", "count_down", "release", "ready", "rethrow", "stop", "stop_release",
   "unwind"} \cup Building
InsideOnly == Working \cup {"exited", "collect", "join"}

\* Where one thread is says where all of them are.
LEMMA SideOf ==
  ASSUME Alternation, W > 1, NEW t \in Threads
  PROVE  /\ pc[t] \in OutsideOnly => BetweenTasks
         /\ pc[t] \in InsideOnly => InTask
         /\ pc[t] \in {"at_release", "at_stop_release"} /\ token[t] # release.phase => InTask
         /\ pc[t] = "at_collect" /\ token[t] # collect.phase => BetweenTasks
  <1>1. BetweenTasks => Outside(t)
    BY DEF BetweenTasks
  <1>2. InTask => Inside(t)
    BY DEF InTask
  <1>3. BetweenTasks \/ InTask
    BY DEF Alternation
  <1>4. pc[t] \in OutsideOnly => ~ Inside(t)
    BY DEF OutsideOnly, Inside, Working, Building
  <1>5. pc[t] \in InsideOnly => ~ Outside(t)
    BY DEF InsideOnly, Outside, Working, Building
  <1>6. pc[t] \in {"at_release", "at_stop_release"} /\ token[t] # release.phase => ~ Outside(t)
    BY DEF Outside, Building
  <1>7. pc[t] = "at_collect" /\ token[t] # collect.phase => ~ Inside(t)
    BY DEF Inside, Working
  <1> QED BY <1>1, <1>2, <1>3, <1>4, <1>5, <1>6, <1>7

\* The two sides exclude each other.
LEMMA OneSide ==
  PoolTypes => ~(BetweenTasks /\ InTask)
  BY DEF PoolTypes, Barriers, BetweenTasks, InTask

\* A step of one thread that arrives nowhere keeps it on its side.
LEMMA MoveOn ==
  ASSUME PcTypes, PoolTypes, Counted, Alternation, NEW t \in Threads, NEW here,
         pc' = [pc EXCEPT ![t] = here],
         UNCHANGED <<release, collect, token>>,
         here \notin Waiting,
         W = 1 => here \notin {"release", "collect", "unwind"},
         \/ pc[t] \in OutsideOnly /\ here \in OutsidePcs(t)
         \/ pc[t] \in InsideOnly /\ here \in InsidePcs(t)
         \/ /\ pc[t] \in {"at_release", "at_stop_release"}
            /\ token[t] # release.phase
            /\ here \in InsidePcs(t)
         \/ pc[t] = "at_collect" /\ token[t] # collect.phase /\ here \in OutsidePcs(t)
  PROVE  Counted' /\ Alternation'
  <1>1. t \notin Arrived /\ t \notin Gathered
    BY DEF Arrived, Gathered, OutsideOnly, InsideOnly, Building, Working
  <1>2. W > 1 /\ BetweenTasks => here \in OutsidePcs(t)
    BY SideOf, OneSide
  <1>3. W > 1 /\ InTask => here \in InsidePcs(t)
    BY SideOf, OneSide
  <1> QED BY <1>1, <1>2, <1>3, QuietMove

\* A pool of one thread enters no barrier.
LEMMA MoveAlone ==
  ASSUME PcTypes, Counted, Alternation, W = 1, NEW here,
         pc' = [pc EXCEPT ![0] = here],
         UNCHANGED <<release, collect, token>>,
         here \notin Waiting \cup {"release", "collect", "unwind"}
  PROVE  Counted' /\ Alternation'
  <1>1. 0 \in Threads /\ ~(W > 1)
    OBVIOUS
  <1>2. 0 \notin Arrived /\ 0 \notin Gathered
    BY DEF Arrived, Gathered, Alternation, Waiting
  <1> QED BY <1>1, <1>2, QuietMove

\* Every step keeps the account of the two barriers.
LEMMA BarrierStep ==
  TypeOK /\ LatchInvariant /\ Counted /\ Alternation /\ [Next]_vars => Counted' /\ Alternation'
  <1> SUFFICES ASSUME PcTypes, PoolTypes, LatchInvariant, Counted, Alternation, [Next]_vars
               PROVE  Counted' /\ Alternation'
    BY TypesAreTypeOK
  <1>0. /\ W \in Nat \ {0} /\ 0 \in Threads
        /\ \A w \in Spawned : w \in Threads /\ w # 0 /\ W > 1
    BY WorkersAssumption
  <1>1. CASE UNCHANGED <<pc, release, collect, token>>
    BY <1>1
    DEF Counted, Alternation, Arrived, Gathered, BetweenTasks, InTask, Outside, Inside
  <1>2. CASE SpawnWorker
    <2> DEFINE t == spawned + 1
    <2>1. /\ t \in Spawned /\ t > spawned /\ pc' = [pc EXCEPT ![t] = "pin"]
          /\ UNCHANGED <<release, collect, token>>
      BY <1>2, <1>0 DEF SpawnWorker, PoolTypes
    <2> HIDE DEF t
    <2>2. pc[t] \in OutsideOnly /\ "pin" \in OutsidePcs(t) /\ t \in Threads
      BY <1>0, <2>1 DEF LatchInvariant, OutsideOnly, OutsidePcs
    <2> QED BY <2>1, <2>2, MoveOn DEF Waiting
  <1>3. CASE SpawnFails \/ AllSpawned \/ UnwindDone \/ PinOwner \/ LatchOpens \/ FinishPinning
             \/ SetStopping \/ Rethrow \/ Destroy
    <2>1. \E here \in {"unwind", "pin_owner", "gone", "await_latch", "aggregate", "stop",
                       "ready", "stop_release"} :
            /\ pc' = [pc EXCEPT ![0] = here]
            /\ UNCHANGED <<release, collect, token>>
            /\ pc[0] \in OutsideOnly
            /\ here = "unwind" => spawned < W - 1
      BY <1>3
      DEF SpawnFails, AllSpawned, UnwindDone, PinOwner, LatchOpens, FinishPinning, SetStopping,
          Rethrow, Destroy, Move, poolVars, OutsideOnly, Building
    <2>2. spawned < W - 1 => W # 1
      BY <1>0 DEF PoolTypes
    <2>3. \A here \in {"unwind", "pin_owner", "gone", "await_latch", "aggregate", "stop",
                       "ready", "stop_release"} :
            here \in OutsidePcs(0) /\ here \notin Waiting /\ here \notin {"release", "collect"}
      BY DEF OutsidePcs, Waiting, Building
    <2> QED BY <1>0, <2>1, <2>2, <2>3, MoveOn
  <1>4. ASSUME NEW t \in Threads, Share(t) PROVE Counted' /\ Alternation'
    <2>1. /\ pc[t] \in Working
          /\ UNCHANGED <<release, collect, token>>
          /\ \E here \in Working : pc' = [pc EXCEPT ![t] = here]
      BY <1>4
      DEF Share, ShareStep, RunChunk, ClaimRelay, DropException, PublishRelay, Advance, poolVars,
          Working
    <2>2. pc[t] \in InsideOnly /\ \A here \in Working : /\ here \in InsidePcs(t)
                                                        /\ here \notin Waiting
                                                        /\ here \notin {"release", "collect", "unwind"}
      BY <2>1 DEF InsideOnly, InsidePcs, Working, Waiting
    <2> QED BY <2>1, <2>2, MoveOn
  <1>5. CASE StopReleased \/ OwnerReleased
    <2>1. \E here \in {"join", "execute"} :
            /\ pc' = [pc EXCEPT ![0] = here]
            /\ UNCHANGED <<release, collect, token>>
            /\ pc[0] \in {"at_release", "at_stop_release"} /\ token[0] # release.phase
      BY <1>5 DEF StopReleased, OwnerReleased, Released, Move, poolVars
    <2>2. \A here \in {"join", "execute"} : /\ here \in InsidePcs(0) /\ here \notin Waiting
                                            /\ here \notin {"release", "collect", "unwind"}
      BY DEF InsidePcs, Waiting, Working
    <2> QED BY <1>0, <2>1, <2>2, MoveOn
  <1>6. CASE JoinWorkers
    <2>1. /\ pc' = [pc EXCEPT ![0] = "gone"] /\ pc[0] = "join"
          /\ UNCHANGED <<release, collect, token>>
      BY <1>6 DEF JoinWorkers, Move, poolVars
    <2>2. pc[0] \in InsideOnly /\ "gone" \in InsidePcs(0) /\ "gone" \notin Waiting
      BY <2>1 DEF InsideOnly, InsidePcs, Waiting
    <2> QED BY <1>0, <2>1, <2>2, MoveOn
  <1>7. ASSUME NEW kind \in {"for", "reduce"}, NEW n \in Sizes, Call(kind, n)
        PROVE  Counted' /\ Alternation'
    <2>1. /\ pc' = [pc EXCEPT ![0] = IF W = 1 THEN "execute" ELSE "release"]
          /\ UNCHANGED <<release, collect, token>> /\ pc[0] = "ready"
      BY <1>7 DEF Call
    <2>2. CASE W = 1
      BY <2>1, <2>2, MoveAlone DEF Waiting
    <2>3. CASE W # 1
      <3>1. pc[0] \in OutsideOnly /\ "release" \in OutsidePcs(0) /\ "release" \notin Waiting
        BY <2>1 DEF OutsideOnly, OutsidePcs, Waiting
      <3> QED BY <1>0, <2>1, <2>3, <3>1, MoveOn
    <2> QED BY <2>2, <2>3
  <1>8. CASE OwnerShareDone
    <2>1. /\ pc' = [pc EXCEPT ![0] = IF W = 1 THEN "rethrow" ELSE "collect"]
          /\ UNCHANGED <<release, collect, token>> /\ pc[0] = "execute"
      BY <1>8 DEF OwnerShareDone, ShareDone, Move, poolVars
    <2>2. CASE W = 1
      BY <2>1, <2>2, MoveAlone DEF Waiting
    <2>3. CASE W # 1
      <3>1. pc[0] \in InsideOnly /\ "collect" \in InsidePcs(0) /\ "collect" \notin Waiting
        BY <2>1 DEF InsideOnly, InsidePcs, Waiting, Working
      <3> QED BY <1>0, <2>1, <2>3, <3>1, MoveOn
    <2> QED BY <2>2, <2>3
  <1>9. CASE OwnerCollected
    <2>1. /\ pc' = [pc EXCEPT ![0] = "rethrow"]
          /\ UNCHANGED <<release, collect, token>>
          /\ pc[0] = "at_collect" /\ token[0] # collect.phase
      BY <1>9 DEF OwnerCollected, Released, Move, poolVars
    <2>2. "rethrow" \in OutsidePcs(0) /\ "rethrow" \notin Waiting
      BY DEF OutsidePcs, Waiting
    <2> QED BY <1>0, <2>1, <2>2, MoveOn
  <1>10. CASE OwnerRelease
    <2>1. pc[0] = "release" /\ ArriveRelease(0, "at_release")
      BY <1>10 DEF OwnerRelease
    <2>2. W > 1
      BY <1>0, <2>1 DEF Alternation
    <2>3. BetweenTasks /\ pc[0] \notin Waiting
      BY <1>0, <2>1, <2>2, SideOf DEF OutsideOnly, Waiting
    <2> QED BY <1>0, <2>1, <2>2, <2>3, ReleaseStep
  <1>11. CASE StopRelease
    <2>1. pc[0] = "stop_release"
      BY <1>11 DEF StopRelease
    <2>2. CASE spawned = 0
      <3>1. /\ pc' = [pc EXCEPT ![0] = "join"]
            /\ UNCHANGED <<release, collect, token>>
        BY <1>11, <2>2 DEF StopRelease, Move, poolVars
      <3>2. W = 1
        <4>1. spawned = W - 1
          BY <2>1 DEF LatchInvariant
        <4> QED BY <1>0, <2>2, <4>1
      <3> QED BY <3>1, <3>2, MoveAlone DEF Waiting
    <2>3. CASE spawned # 0
      <3>1. ArriveRelease(0, "at_stop_release")
        BY <1>11, <2>3 DEF StopRelease
      <3>2. W > 1
        BY <1>0, <2>3 DEF PoolTypes
      <3>3. BetweenTasks /\ pc[0] \notin Waiting
        BY <1>0, <2>1, <3>2, SideOf DEF OutsideOnly, Waiting
      <3> QED BY <1>0, <3>1, <3>2, <3>3, ReleaseStep
    <2> QED BY <2>2, <2>3
  <1>12. CASE OwnerCollect
    <2>1. pc[0] = "collect" /\ ArriveCollect(0, "at_collect")
      BY <1>12 DEF OwnerCollect
    <2>2. W > 1
      BY <1>0, <2>1 DEF Alternation
    <2>3. InTask /\ pc[0] \notin Waiting
      BY <1>0, <2>1, <2>2, SideOf DEF InsideOnly, Waiting
    <2> QED BY <1>0, <2>1, <2>2, <2>3, CollectStep
  <1>13. ASSUME NEW w \in Spawned, PinWorker(w) \/ CountDown(w)
         PROVE  Counted' /\ Alternation'
    <2>1. \E here \in {"count_down", "release"} :
            /\ pc' = [pc EXCEPT ![w] = here]
            /\ UNCHANGED <<release, collect, token>>
            /\ pc[w] \in OutsideOnly
      BY <1>13 DEF PinWorker, CountDown, OutsideOnly
    <2>2. \A here \in {"count_down", "release"} : here \in OutsidePcs(w) /\ here \notin Waiting
      BY DEF OutsidePcs, Waiting
    <2>3. w \in Threads /\ ~(W = 1)
      BY <1>0
    <2> QED BY <2>1, <2>2, <2>3, MoveOn
  <1>14. ASSUME NEW w \in Spawned, WorkerRelease(w) PROVE Counted' /\ Alternation'
    <2>1. pc[w] = "release" /\ ArriveRelease(w, "at_release")
      BY <1>14 DEF WorkerRelease
    <2>2. BetweenTasks /\ pc[w] \notin Waiting
      BY <1>0, <2>1, SideOf DEF OutsideOnly, Waiting
    <2> QED BY <1>0, <2>1, <2>2, ReleaseStep
  <1>15. ASSUME NEW w \in Spawned, WorkerReleased(w) PROVE Counted' /\ Alternation'
    <2>1. \E here \in {"exited", "execute"} :
            /\ pc' = [pc EXCEPT ![w] = here]
            /\ UNCHANGED <<release, collect, token>>
            /\ pc[w] = "at_release" /\ token[w] # release.phase
      BY <1>15 DEF WorkerReleased, Released, Move, poolVars
    <2>2. \A here \in {"exited", "execute"} : here \in InsidePcs(w) /\ here \notin Waiting
      BY DEF InsidePcs, Waiting, Working
    <2> QED BY <1>0, <2>1, <2>2, MoveOn
  <1>16. ASSUME NEW w \in Spawned, WorkerCollect(w) PROVE Counted' /\ Alternation'
    <2>1. pc[w] = "execute" /\ ArriveCollect(w, "at_collect")
      BY <1>16 DEF WorkerCollect, ShareDone
    <2>2. InTask /\ pc[w] \notin Waiting
      BY <1>0, <2>1, SideOf DEF InsideOnly, Working, Waiting
    <2> QED BY <1>0, <2>1, <2>2, CollectStep
  <1>17. ASSUME NEW w \in Spawned, WorkerCollected(w) PROVE Counted' /\ Alternation'
    <2>1. /\ pc' = [pc EXCEPT ![w] = "release"]
          /\ UNCHANGED <<release, collect, token>>
          /\ pc[w] = "at_collect" /\ token[w] # collect.phase
      BY <1>17 DEF WorkerCollected, Released, Move, poolVars
    <2>2. "release" \in OutsidePcs(w) /\ "release" \notin Waiting
      BY DEF OutsidePcs, Waiting
    <2>3. w \in Threads /\ ~(W = 1)
      BY <1>0
    <2> QED BY <2>1, <2>2, <2>3, MoveOn
  <1>18. CASE OwnerStep
    <2>1. CASE UnwindStopRequest \/ RequestStop
      BY <1>1, <2>1 DEF UnwindStopRequest, RequestStop
    <2> QED
      BY <1>0, <1>2, <1>3, <1>4, <1>5, <1>6, <1>8, <1>9, <1>10, <1>11, <1>12, <1>18, <2>1
      DEF OwnerStep
  <1>19. CASE ClientStep
    <2>1. ASSUME NEW kind \in {"for", "reduce"}, NEW n \in Sizes, CallNothing(kind, n)
          PROVE  Counted' /\ Alternation'
      BY <1>1, <2>1 DEF CallNothing
    <2> QED BY <1>3, <1>7, <1>19, <2>1 DEF ClientStep
  <1>20. CASE \E w \in Spawned : WorkerStep(w)
    BY <1>0, <1>4, <1>13, <1>14, <1>15, <1>16, <1>17, <1>20 DEF WorkerStep
  <1> QED
    BY <1>1, <1>18, <1>19, <1>20 DEF Next, vars

-----------------------------------------------------------------------------
(* Shutdown: a pool told to stop hands out no more tasks. *)

\* Between tasks no worker is in a chunk loop.
LEMMA IdleBetween ==
  ASSUME BetweenTasks
  PROVE  \A w \in Spawned : pc[w] \notin Working
  BY DEF BetweenTasks, Outside, Working

\* The owner's steps that do not concern shutdown.
LEMMA OwnerElsewhere ==
  ASSUME PcTypes, NEW here, pc' = [pc EXCEPT ![0] = here],
         here \notin Stopped \cup {"stop_release"}
  PROVE  StopInvariant'
  <1>1. pc'[0] = here
    BY WorkersAssumption DEF PcTypes
  <1> QED BY <1>1 DEF StopInvariant, Stopped

\* A worker's steps, the owner being past its last task only if it said so.
LEMMA WorkerUnderStop ==
  ASSUME PcTypes, StopInvariant, NEW w \in Spawned, NEW here,
         pc' = [pc EXCEPT ![w] = here],
         stopping' = stopping,
         pc[0] = "gone" => UNCHANGED <<release, collect>>,
         here \in Working => pc[0] \notin Stopped
  PROVE  StopInvariant'
  <1>1. pc'[0] = pc[0] /\ \A v \in Spawned : pc'[v] = IF v = w THEN here ELSE pc[v]
    BY WorkersAssumption DEF PcTypes
  <1> QED BY <1>1 DEF StopInvariant, Stopped

\* Every step keeps what a stop request finds.
LEMMA StopStep ==
  /\ TypeOK /\ LatchInvariant /\ Counted /\ Alternation /\ StopInvariant
  /\ [Next]_vars
  => StopInvariant'
  <1> SUFFICES ASSUME PcTypes, PoolTypes, LatchInvariant, Counted, Alternation, StopInvariant,
                      [Next]_vars
               PROVE  StopInvariant'
    BY TypesAreTypeOK
  <1>0. /\ W \in Nat \ {0} /\ 0 \in Threads
        /\ \A w \in Spawned : w \in Threads /\ w # 0 /\ W > 1
        /\ ~(W > 1) => Spawned = {}
    BY WorkersAssumption
  <1>1. CASE UNCHANGED <<pc, stopping, release, collect>>
    BY <1>1 DEF StopInvariant
  <1>3. CASE SpawnWorker
    <2>1. pc'[0] = "spawn"
      BY <1>3, <1>0 DEF SpawnWorker, PcTypes, PoolTypes
    <2> QED BY <2>1 DEF StopInvariant, Stopped
  <1>4. CASE SpawnFails \/ AllSpawned \/ PinOwner \/ LatchOpens \/ FinishPinning \/ Destroy
             \/ OwnerRelease \/ OwnerReleased \/ OwnerShareDone \/ OwnerCollect
             \/ OwnerCollected \/ Rethrow
    <2>1. \E here : pc' = [pc EXCEPT ![0] = here] /\ here \notin Stopped \cup {"stop_release"}
      BY <1>4
      DEF SpawnFails, AllSpawned, PinOwner, LatchOpens, FinishPinning, Destroy, OwnerRelease,
          OwnerReleased, OwnerShareDone, OwnerCollect, OwnerCollected, Rethrow, Move,
          ArriveRelease, ArriveCollect, Stopped
    <2> QED BY <2>1, OwnerElsewhere
  <1>5. CASE Share(0)
    <2>1. \E here : pc' = [pc EXCEPT ![0] = here] /\ here \notin Stopped \cup {"stop_release"}
      BY <1>5
      DEF Share, ShareStep, RunChunk, ClaimRelay, DropException, PublishRelay, Advance, Stopped
    <2> QED BY <2>1, OwnerElsewhere
  <1>6. ASSUME NEW kind \in {"for", "reduce"}, NEW n \in Sizes, Call(kind, n)
        PROVE  StopInvariant'
    <2>1. \E here \in {"execute", "release"} : pc' = [pc EXCEPT ![0] = here]
      BY <1>6 DEF Call
    <2>2. {"execute", "release"} \cap (Stopped \cup {"stop_release"}) = {}
      BY DEF Stopped
    <2> QED BY <2>1, <2>2, OwnerElsewhere
  <1>7. CASE SetStopping
    <2>1. stopping' = TRUE /\ pc'[0] = "stop_release"
      BY <1>0, <1>7 DEF SetStopping, PcTypes
    <2> QED BY <2>1 DEF StopInvariant, Stopped
  <1>8. CASE StopRelease
    <2>1. pc[0] = "stop_release" /\ stopping /\ stopping' = stopping
      BY <1>8 DEF StopRelease, Move, poolVars, StopInvariant
    <2>2. \A w \in Spawned : pc[w] \notin Working
      BY <1>0, <2>1, SideOf, IdleBetween DEF OutsideOnly
    <2>3. \E here \in {"join", "at_stop_release"} : pc' = [pc EXCEPT ![0] = here]
      BY <1>8 DEF StopRelease, Move, ArriveRelease
    <2>4. pc'[0] \in {"join", "at_stop_release"} /\ \A w \in Spawned : pc'[w] = pc[w]
      BY <1>0, <2>3 DEF PcTypes
    <2> QED BY <2>1, <2>2, <2>4 DEF StopInvariant
  <1>9. CASE StopReleased \/ JoinWorkers
    <2>1. /\ pc[0] \in Stopped /\ stopping /\ stopping' = stopping
          /\ \E here \in {"join", "gone"} : pc' = [pc EXCEPT ![0] = here]
      BY <1>9 DEF StopReleased, JoinWorkers, Move, poolVars, StopInvariant, Stopped
    <2>2. \A w \in Spawned : pc'[w] = pc[w]
      BY <1>0, <2>1 DEF PcTypes
    <2> QED BY <2>1, <2>2 DEF StopInvariant
  <1>10. CASE UnwindDone
    <2>1. /\ pc[0] = "unwind" /\ pc' = [pc EXCEPT ![0] = "gone"]
          /\ UNCHANGED <<stopping, release, collect>>
      BY <1>10 DEF UnwindDone, Move, poolVars
    <2>2. BetweenTasks
      <3>1. W > 1
        BY <1>0, <2>1 DEF Alternation
      <3> QED BY <1>0, <2>1, <3>1, SideOf DEF OutsideOnly
    <2>3. pc'[0] = "gone" /\ \A w \in Spawned : pc'[w] = pc[w]
      BY <1>0, <2>1 DEF PcTypes
    <2>4. release'.phase = collect'.phase
      BY <2>1, <2>2 DEF BetweenTasks
    <2> QED BY <2>2, <2>3, <2>4, IdleBetween DEF StopInvariant
  <1>11. ASSUME NEW w \in Spawned, PinWorker(w) \/ CountDown(w) \/ WorkerCollected(w)
         PROVE  StopInvariant'
    <2>1. /\ UNCHANGED <<stopping, release, collect>>
          /\ \E here : pc' = [pc EXCEPT ![w] = here] /\ here \notin Working
      BY <1>11 DEF PinWorker, CountDown, WorkerCollected, Move, poolVars, Working
    <2> QED BY <2>1, WorkerUnderStop
  <1>12. ASSUME NEW w \in Spawned, WorkerRelease(w) PROVE StopInvariant'
    <2>1. /\ pc[w] = "release" /\ ArriveRelease(w, "at_release") /\ stopping' = stopping
          /\ pc' = [pc EXCEPT ![w] = "at_release"]
      BY <1>12 DEF WorkerRelease, ArriveRelease
    <2>2. BetweenTasks /\ pc[w] \notin Waiting
      BY <1>0, <2>1, SideOf DEF OutsideOnly, Waiting
    <2>3. pc[0] = "gone" => release'.phase = release.phase /\ collect' = collect
      BY <1>0, <2>1, <2>2, ReleaseStep DEF Waiting
    <2>4. pc'[0] = pc[0] /\ \A v \in Spawned : pc'[v] = IF v = w THEN "at_release" ELSE pc[v]
      BY <1>0, <2>1 DEF PcTypes
    <2> QED BY <2>1, <2>3, <2>4 DEF StopInvariant, Working
  <1>13. ASSUME NEW w \in Spawned, WorkerCollect(w) PROVE StopInvariant'
    <2>1. /\ pc[w] = "execute" /\ ArriveCollect(w, "at_collect") /\ stopping' = stopping
          /\ pc' = [pc EXCEPT ![w] = "at_collect"]
      BY <1>13 DEF WorkerCollect, ShareDone, ArriveCollect
    <2>2. pc[0] \notin Stopped
      BY <2>1 DEF StopInvariant, Working
    <2>3. pc'[0] = pc[0]
      BY <1>0, <2>1 DEF PcTypes
    <2> QED BY <2>1, <2>2, <2>3 DEF StopInvariant, Stopped
  <1>14. ASSUME NEW w \in Spawned, WorkerReleased(w) PROVE StopInvariant'
    <2>1. /\ pc[w] = "at_release" /\ token[w] # release.phase
          /\ UNCHANGED <<stopping, release, collect>>
          /\ \E here \in {"exited", "execute"} : /\ pc' = [pc EXCEPT ![w] = here]
                                                 /\ here = "execute" => ~ stopping
      BY <1>14 DEF WorkerReleased, Released, Move, poolVars
    <2>2. InTask
      BY <1>0, <2>1, SideOf
    <2>3. release.phase # collect.phase
      BY <2>2 DEF InTask, PoolTypes, Barriers
    <2>4. ~ stopping => pc[0] \notin Stopped
      BY <2>3 DEF StopInvariant, Stopped
    <2>5. "exited" \notin Working
      BY DEF Working
    <2> QED BY <2>1, <2>4, <2>5, WorkerUnderStop
  <1>15. ASSUME NEW w \in Spawned, Share(w) PROVE StopInvariant'
    <2>1. /\ pc[w] \in Working /\ UNCHANGED <<stopping, release, collect>>
          /\ \E here : pc' = [pc EXCEPT ![w] = here]
      BY <1>15
      DEF Share, ShareStep, RunChunk, ClaimRelay, DropException, PublishRelay, Advance, poolVars,
          Working
    <2>2. pc[0] \notin Stopped
      BY <2>1 DEF StopInvariant
    <2> QED BY <2>1, <2>2, WorkerUnderStop
  <1>16. CASE OwnerStep
    <2>1. CASE UnwindStopRequest \/ RequestStop
      BY <1>1, <2>1 DEF UnwindStopRequest, RequestStop
    <2> QED
      BY <1>3, <1>4, <1>5, <1>7, <1>8, <1>9, <1>10, <1>16, <2>1 DEF OwnerStep
  <1>17. CASE ClientStep
    <2>1. ASSUME NEW kind \in {"for", "reduce"}, NEW n \in Sizes, CallNothing(kind, n)
          PROVE  StopInvariant'
      BY <1>1, <2>1 DEF CallNothing
    <2> QED BY <1>4, <1>6, <1>17, <2>1 DEF ClientStep
  <1>18. CASE \E w \in Spawned : WorkerStep(w)
    BY <1>11, <1>12, <1>13, <1>14, <1>15, <1>18 DEF WorkerStep
  <1> QED
    BY <1>1, <1>16, <1>17, <1>18 DEF Next, vars

-----------------------------------------------------------------------------
(* Theorems. *)

\* A pool under construction satisfies the invariant.
LEMMA InitPool == Init => PoolInvariant
  <1> SUFFICES ASSUME Init PROVE PoolInvariant
    OBVIOUS
  <1>0. /\ W \in Nat \ {0} /\ 0 \in Threads
        /\ \A w \in Spawned : w \in Threads /\ w # 0
    BY WorkersAssumption
  <1>1. /\ pc[0] = "spawn" /\ \A w \in Spawned : pc[w] = "unborn"
        /\ \A t \in Threads : pc[t] \in {"spawn", "unborn"}
        /\ release.phase = 0 /\ collect.phase = 0
        /\ release.arrived = 0 /\ collect.arrived = 0
        /\ latch = W - 1 /\ spawned = 0
    BY <1>0 DEF Init, NewBarrier
  <1>2. LatchInvariant
    <2>1. Owing = 1..(W - 1)
      BY <1>1 DEF Owing
    <2>2. Cardinality(1..(W - 1)) = W - 1
      BY <1>0, FS_Interval
    <2>3. PinnedPoolIsBound
      BY <1>1 DEF PinnedPoolIsBound, InCall, InFlight, Working
    <2> QED BY <1>1, <2>1, <2>2, <2>3 DEF LatchInvariant, BeforeLatch
  <1>3. Arrived = {} /\ Gathered = {}
    BY <1>1 DEF Arrived, Gathered
  <1>4. Counted
    BY <1>1, <1>3, FS_EmptySet DEF Counted
  <1>5. \A t \in Threads : Outside(t)
    <2>1. \A t \in Threads : t # 0 => t \in Spawned
      OBVIOUS
    <2> QED BY <1>1, <2>1 DEF Outside, Building
  <1>6. Alternation
    BY <1>1, <1>5 DEF Alternation, BetweenTasks, Waiting
  <1>7. StopInvariant
    BY <1>1 DEF StopInvariant, Stopped
  <1> QED BY <1>2, <1>4, <1>6, <1>7, InitTypes DEF PoolInvariant

\* Both barriers count exactly the threads standing at them, all threads are on
\* one side of them together, and the latch counts the workers not yet bound
\* (jthread_pool.hpp: run_task, worker_loop and the constructor).
THEOREM PoolInvariantHolds == Spec => []PoolInvariant
  <1>1. PoolInvariant /\ [Next]_vars => PoolInvariant'
    BY TypeStep, LatchStep, BarrierStep, StopStep DEF PoolInvariant
  <1> QED BY InitPool, <1>1, PTL DEF Spec

\* A worker is in a chunk loop only while the owner is in the call that posted
\* the task, and the task has been released and not yet collected.
LEMMA Confinement == PoolInvariant => WorkersConfined
  <1> SUFFICES ASSUME PoolInvariant, NEW w \in Spawned, pc[w] \in Working
               PROVE  pc[0] \in InFlight /\ release.phase = collect.phase + 1
    BY DEF WorkersConfined
  <1>1. PcTypes
    BY TypesAreTypeOK DEF PoolInvariant
  <1>2. W > 1 /\ w \in Threads /\ 0 \in Threads
    BY WorkersAssumption
  <1>3. InTask
    BY <1>2, SideOf DEF InsideOnly, PoolInvariant
  <1>4. Inside(0) /\ release.phase = collect.phase + 1
    BY <1>2, <1>3 DEF InTask
  <1>5. pc[0] \notin Stopped
    BY DEF PoolInvariant, StopInvariant
  <1>6. pc[0] # "exited"
    BY <1>1 DEF PcTypes, OwnerStates, Building, Closing, InCall, InFlight, Working
  <1> QED BY <1>4, <1>5, <1>6 DEF Inside, Stopped, InFlight, Working

\* The pool is fit for the next task whenever it can be given one: a worker is
\* in a chunk loop only while the owner is in the call that posted the task,
\* and a pinned pool that exists is bound on every thread.
THEOREM PoolReadyHolds == Spec => []PoolReady
  <1>1. PoolInvariant => PoolReady
    BY Confinement DEF PoolReady, PoolInvariant, LatchInvariant
  <1> QED BY <1>1, PoolInvariantHolds, PTL

-----------------------------------------------------------------------------
(* A call: which chunks each thread has been through. *)

\* Worker w has come to the end of its share of the task in flight: it has
\* arrived at collect_, or the phase of collect_ that gathers the task is over.
Finished(w) ==
  /\ pc[0] \in InCall
  /\ IF release.phase = collect.phase THEN pc[0] \in {"at_collect", "rethrow"}
                                      ELSE pc[w] = "at_collect"

\* Thread t has left its loop over the chunks of the task in flight.
LoopOver(t) ==
  IF t = 0 THEN pc[0] \in {"collect", "at_collect", "rethrow"} ELSE Finished(t)

\* Thread t has started its share of it.
Begun(t) == pc[t] \in Working \/ LoopOver(t)

\* Thread t has been through chunk k.
Passed(t, k) ==
  /\ Begun(t)
  /\ k < cursor[t] \/ (k = cursor[t] /\ pc[t] \in {"caught", "publish"})

\* Thread t stays on the chunks congruent to t, and a chunk counts one attempt
\* from the moment its thread has been through it.
GridInv ==
  /\ pc[0] \in InCall => task.n > 0 /\ task.chunks > 0
  /\ pc[0] \in {"release", "at_release"} => cursor[0] = 0
  /\ \A t \in Threads :
       /\ Begun(t) => cursor[t] % W = t
       /\ LoopOver(t) => cursor[t] >= task.chunks
       /\ pc[t] \in {"caught", "publish"} => cursor[t] < task.chunks
  /\ pc[0] \in InCall =>
       \A k \in 0..(task.chunks - 1) :
         attempts[k] = IF Passed(k % W, k) THEN 1 ELSE 0

\* One winner at a time, and only while the call that threw is still open.
RelayInv ==
  /\ relay.captured => relay.claimed /\ relay.first \in threw
  /\ \A t \in Threads : pc[t] \in {"caught", "publish"} => cursor[t] \in threw
  /\ \A t \in Threads : pc[t] = "publish" => relay.claimed /\ ~ relay.captured
  /\ \A t, u \in Threads : pc[t] = "publish" /\ pc[u] = "publish" => t = u
  /\ relay.claimed => relay.captured \/ \E t \in Threads : pc[t] = "publish"
  /\ pc[0] \in InCall =>
       (threw # {} => relay.claimed \/ \E t \in Threads : pc[t] = "caught")
  /\ ~ relay.captured => relay.first = NoException
  /\ pc[0] \notin InFlight \cup {"rethrow"} => ~ relay.claimed

\* The barriers, the grid and the relay together: inductive.
CallInvariant == PoolInvariant /\ GridInv /\ RelayInv

\* A step that ends outside a call: nobody is in a chunk loop any more.
LEMMA NoCallNoGrid ==
  ASSUME WorkersConfined', pc'[0] \notin InCall
  PROVE  GridInv'
  <1>1. \A t \in Threads : pc'[t] \notin Working
    BY DEF WorkersConfined, InCall, InFlight
  <1>2. \A t \in Threads : ~ Begun(t)' /\ ~ LoopOver(t)'
    BY <1>1 DEF Begun, LoopOver, Finished, InCall, InFlight
  <1> QED
    BY <1>1, <1>2 DEF GridInv, Working, InCall, InFlight

\* A step that moves threads but leaves their place in the loop alone.
LEMMA SamePlaces ==
  ASSUME GridInv, W \in Nat \ {0}, UNCHANGED <<task, attempts, cursor>>,
         pc'[0] \in InCall => pc[0] \in InCall,
         pc'[0] \in {"release", "at_release"} => pc[0] \in {"release", "at_release"},
         \A t \in Threads :
           /\ Begun(t)' <=> Begun(t)
           /\ LoopOver(t)' => LoopOver(t) \/ cursor[t] >= task.chunks
           /\ pc'[t] \in {"caught", "publish"} <=> pc[t] \in {"caught", "publish"},
         task.chunks \in Nat
  PROVE  GridInv'
  <1>1. ASSUME NEW t \in Threads, NEW k \in Nat PROVE Passed(t, k)' <=> Passed(t, k)
    BY <1>1 DEF Passed
  <1>2. \A k \in 0..(task.chunks - 1) : k % W \in Threads /\ k \in Nat
    BY DivisionFacts
  <1> QED
    BY <1>1, <1>2 DEF GridInv

\* Inside a call, a thread in a chunk loop has begun its share of this task and
\* not ended it.
LEMMA WorkingHasBegun ==
  ASSUME WorkersConfined, PoolTypes, NEW t \in Threads, pc[t] \in Working
  PROVE  /\ Begun(t) /\ ~ LoopOver(t)
         /\ pc[0] \in InFlight
         /\ \A here \in Working : t = 0 => here \in InFlight
  BY DEF WorkersConfined, Begun, LoopOver, Finished, InFlight, Working, PoolTypes, Barriers

\* The chunks thread t visits are its own: another thread's are left alone.
LEMMA GridShareStep ==
  ASSUME TypeOK, WorkersConfined, GridInv, NEW t \in Threads, Share(t)
  PROVE  GridInv'
  <1> DEFINE c == cursor[t]
  <1>0. /\ pc \in [Threads -> OwnerStates \cup WorkerStates]
        /\ cursor \in [Threads -> Nat]
        /\ task.chunks \in Nat
        /\ attempts \in [0..(task.chunks - 1) -> Nat]
        /\ W \in Nat \ {0}
        /\ 0 \in Threads
        /\ PoolTypes
    BY WorkersAssumption, TypesAreTypeOK DEF PcTypes, LoopTypes
  <1>1. /\ pc[t] \in Working
        /\ UNCHANGED <<task, poolVars>>
        /\ \E here \in Working : pc' = [pc EXCEPT ![t] = here]
    BY DEF Share, ShareStep, RunChunk, ClaimRelay, DropException, PublishRelay,
           Advance, Working
  <1>2. Begun(t) /\ pc[0] \in InFlight /\ pc'[0] \in InFlight
    BY <1>0, <1>1, WorkingHasBegun DEF InFlight
  <1>3. /\ pc[0] \in InCall /\ pc'[0] \in InCall
        /\ pc'[0] \in {"release", "at_release"} => t # 0 /\ cursor[0] = 0
    <2>1. pc'[0] \in {"release", "at_release"} => t # 0 /\ pc'[0] = pc[0]
      BY <1>0, <1>1 DEF Working
    <2> QED BY <1>2, <2>1 DEF InCall, GridInv
  <1>4. c \in Nat /\ c % W = t
    BY <1>0, <1>2 DEF GridInv
  <1>6. \A u \in Threads : LoopOver(u)' <=> LoopOver(u) /\ u # t
    <2>1. ~ LoopOver(t)
      BY <1>0, <1>1, WorkingHasBegun
    <2>2. \A u \in Threads : pc'[u] = pc[u] \/ (u = t /\ pc[u] \in Working /\ pc'[u] \in Working)
      <3>1. PICK here \in Working : pc' = [pc EXCEPT ![t] = here]
        BY <1>1
      <3> QED BY <1>0, <1>1, <3>1
    <2>3. release' = release /\ collect' = collect
      BY <1>1 DEF poolVars
    <2>4. ASSUME NEW u \in Spawned PROVE Finished(u)' <=> Finished(u)
      <3>1. pc'[0] \in {"at_collect", "rethrow"} <=> pc[0] \in {"at_collect", "rethrow"}
        BY <1>0, <2>2 DEF Working
      <3>2. pc'[u] = "at_collect" <=> pc[u] = "at_collect"
        BY <2>2 DEF Working
      <3> QED BY <1>3, <2>3, <3>1, <3>2 DEF Finished
    <2> QED BY <1>0, <2>1, <2>2, <2>4 DEF LoopOver, Working
  <1>5. \A u \in Threads : Begun(u)' <=> Begun(u)
    BY <1>0, <1>1, <1>6 DEF Begun
  <1>7. \A k \in 0..(task.chunks - 1) : k % W \in Threads /\ k \in Nat
    BY <1>0, DivisionFacts
  <1>8. ASSUME cursor' = cursor, pc'[t] \in {"caught", "publish"}, c < task.chunks,
               \A k \in 0..(task.chunks - 1) :
                 attempts'[k] = IF k = c THEN 1 ELSE attempts[k]
        PROVE  GridInv'
    <2>1. ASSUME NEW k \in 0..(task.chunks - 1)
          PROVE  attempts'[k] = IF Passed(k % W, k)' THEN 1 ELSE 0
      <3>1. CASE k % W = t
        BY <1>0, <1>1, <1>2, <1>3, <1>4, <1>5, <1>7, <1>8, <3>1 DEF GridInv, Passed
      <3>2. CASE k % W # t
        <4>1. k # c /\ pc'[k % W] = pc[k % W]
          BY <1>0, <1>1, <1>4, <1>7, <3>2
        <4>2. Passed(k % W, k)' <=> Passed(k % W, k)
          BY <1>5, <1>7, <1>8, <4>1 DEF Passed
        <4> QED BY <1>3, <1>7, <1>8, <4>1, <4>2 DEF GridInv
      <3> QED BY <3>1, <3>2
    <2>2. ASSUME NEW u \in Threads
          PROVE  /\ Begun(u)' => cursor'[u] % W = u
                 /\ LoopOver(u)' => cursor'[u] >= task'.chunks
                 /\ pc'[u] \in {"caught", "publish"} => cursor'[u] < task'.chunks
      BY <1>0, <1>1, <1>5, <1>6, <1>8 DEF GridInv
    <2>3. pc'[0] \in {"release", "at_release"} => cursor'[0] = 0
      BY <1>0, <1>3, <1>8
    <2> QED
      BY <1>1, <1>3, <2>1, <2>2, <2>3 DEF GridInv
  <1>9. ASSUME cursor' = [cursor EXCEPT ![t] = @ + W], pc'[t] = "execute",
               \A k \in 0..(task.chunks - 1) :
                 attempts'[k] = IF k = c THEN 1 ELSE attempts[k]
        PROVE  GridInv'
    <2>0. cursor'[t] = c + W /\ (c + W) % W = t
      <3>1. (c + W) % W = c % W
        <4>1. W \in Nat /\ W > 0
          BY <1>0
        <4> HIDE DEF c
        <4> QED BY <1>4, <4>1, StrideKeepsResidue
      <3>2. cursor'[t] = c + W
        BY <1>0, <1>9
      <3> QED BY <1>4, <3>1, <3>2
    <2>1. ASSUME NEW k \in 0..(task.chunks - 1)
          PROVE  attempts'[k] = IF Passed(k % W, k)' THEN 1 ELSE 0
      <3>1. CASE k % W = t
        <4>1. Passed(t, k)' <=> k < c + W
          BY <1>0, <1>1, <1>2, <1>5, <1>9, <2>0 DEF Passed
        <4>2. k < c + W <=> k <= c
          <5>1. c < k => c + W <= k
            <6>1. W \in Nat /\ W > 0
              BY <1>0
            <6>2. k \in Nat
              BY <1>7
            <6> HIDE DEF c
            <6>3. c % W = k % W
              BY <1>4, <3>1
            <6> QED BY <1>4, <6>1, <6>2, <6>3, SameResidueApart
          <5> QED BY <1>0, <1>4, <1>7, <5>1
        <4>3. k < c => Passed(t, k)
          BY <1>2 DEF Passed
        <4>4. k > c => ~ Passed(t, k)
          BY <1>4, <1>7 DEF Passed
        <4>5. attempts[k] = IF Passed(t, k) THEN 1 ELSE 0
          BY <1>3, <3>1 DEF GridInv
        <4>6. CASE k = c
          BY <1>9, <3>1, <4>1, <4>2, <4>6, <1>4
        <4>7. CASE k < c
          BY <1>4, <1>7, <1>9, <3>1, <4>1, <4>2, <4>3, <4>5, <4>7
        <4>8. CASE k > c
          BY <1>4, <1>7, <1>9, <3>1, <4>1, <4>2, <4>4, <4>5, <4>8
        <4> QED BY <1>4, <1>7, <4>6, <4>7, <4>8
      <3>2. CASE k % W # t
        <4>1. /\ k # c
              /\ pc'[k % W] = pc[k % W]
              /\ cursor'[k % W] = cursor[k % W]
          BY <1>0, <1>1, <1>4, <1>7, <1>9, <3>2
        <4>2. Passed(k % W, k)' <=> Passed(k % W, k)
          BY <1>5, <1>7, <4>1 DEF Passed
        <4> QED BY <1>3, <1>7, <1>9, <4>1, <4>2 DEF GridInv
      <3> QED BY <3>1, <3>2
    <2>2. ASSUME NEW u \in Threads
          PROVE  /\ Begun(u)' => cursor'[u] % W = u
                 /\ LoopOver(u)' => cursor'[u] >= task'.chunks
                 /\ pc'[u] \in {"caught", "publish"} => cursor'[u] < task'.chunks
      <3>1. CASE u = t
        BY <1>6, <1>9, <2>0, <3>1
      <3>2. CASE u # t
        <4>1. cursor'[u] = cursor[u] /\ pc'[u] = pc[u] /\ task' = task
          BY <1>0, <1>1, <1>9, <3>2
        <4> QED BY <1>5, <1>6, <4>1 DEF GridInv
      <3> QED BY <3>1, <3>2
    <2>3. pc'[0] \in {"release", "at_release"} => cursor'[0] = 0
      BY <1>0, <1>3, <1>9
    <2> QED
      BY <1>1, <1>3, <2>1, <2>2, <2>3 DEF GridInv
  <1>10. ASSUME attempts' = attempts, pc[t] \in {"caught", "publish"}
         PROVE  /\ c < task.chunks
                /\ \A k \in 0..(task.chunks - 1) :
                     attempts'[k] = IF k = c THEN 1 ELSE attempts[k]
    <2>1. c < task.chunks
      BY <1>10 DEF GridInv
    <2>2. Passed(t, c)
      BY <1>2, <1>10 DEF Passed
    <2>3. c \in 0..(task.chunks - 1)
      BY <1>0, <1>4, <2>1
    <2>4. attempts[c] = 1
      BY <1>3, <1>4, <2>2, <2>3 DEF GridInv
    <2> QED BY <1>10, <2>1, <2>4
  <1>11. CASE RunChunk(t)
    <2>1. c \in 0..(task.chunks - 1)
      BY <1>0, <1>4, <1>11 DEF RunChunk
    <2>2. ~ Passed(t, c)
      BY <1>4, <1>11 DEF Passed, RunChunk
    <2>3. attempts[c] = 0
      BY <1>3, <1>4, <2>1, <2>2 DEF GridInv
    <2>4. \A k \in 0..(task.chunks - 1) :
            attempts'[k] = IF k = c THEN 1 ELSE attempts[k]
      BY <1>0, <1>11, <2>1, <2>3 DEF RunChunk
    <2>5. \/ cursor' = [cursor EXCEPT ![t] = @ + W] /\ pc'[t] = "execute"
          \/ cursor' = cursor /\ pc'[t] = "caught"
      BY <1>0, <1>11 DEF RunChunk, Advance
    <2> QED
      BY <1>0, <1>8, <1>9, <2>1, <2>4, <2>5
  <1>12. CASE ClaimRelay(t)
    <2>1. /\ pc[t] = "caught" /\ pc'[t] = "publish"
          /\ attempts' = attempts /\ cursor' = cursor
      BY <1>0, <1>12 DEF ClaimRelay
    <2> QED BY <1>8, <1>10, <2>1
  <1>13. CASE DropException(t) \/ PublishRelay(t)
    <2>1. /\ pc[t] \in {"caught", "publish"} /\ pc'[t] = "execute"
          /\ attempts' = attempts /\ cursor' = [cursor EXCEPT ![t] = @ + W]
      BY <1>0, <1>13 DEF DropException, PublishRelay, Advance
    <2> QED BY <1>9, <1>10, <2>1
  <1> QED
    BY <1>11, <1>12, <1>13 DEF Share, ShareStep

\* Between tasks the owner says who is finished, in a task every worker does.
LEMMA FinishedNow ==
  ASSUME PoolTypes, NEW w \in Spawned
  PROVE  /\ BetweenTasks => (Finished(w) <=> pc[0] \in {"at_collect", "rethrow"})
         /\ InTask => (Finished(w) <=> pc[0] \in InCall /\ pc[w] = "at_collect")
  BY DEF Finished, BetweenTasks, InTask, PoolTypes, Barriers, InCall, InFlight

\* An arrival at release_, the last one or not, ends nobody's share: a thread
\* that waits at collect_ for the task before is not one that waits for this.
LEMMA ArrivalAtRelease ==
  ASSUME PcTypes, PoolTypes, PoolTypes', Alternation, Alternation', W > 1,
         NEW t \in Threads, pc[t] = "release", ArriveRelease(t, "at_release"),
         NEW w \in Spawned
  PROVE  Finished(w)' <=> Finished(w)
  <1>0. /\ \A u \in Threads : pc'[u] = IF u = t THEN "at_release" ELSE pc[u]
        /\ \A u \in Threads : u # t => token'[u] = token[u]
        /\ collect' = collect
        /\ 0 \in Threads /\ w \in Threads
    BY WorkersAssumption DEF PcTypes, PoolTypes, ArriveRelease
  <1>1. BetweenTasks
    BY SideOf DEF OutsideOnly
  <1>2. CASE BetweenTasks'
    <2>1. Finished(w)' <=> pc'[0] \in {"at_collect", "rethrow"}
      BY <1>2 DEF Finished, BetweenTasks, InCall, InFlight
    <2>2. pc'[0] \in {"at_collect", "rethrow"} <=> pc[0] \in {"at_collect", "rethrow"}
      BY <1>0
    <2> QED BY <1>1, <2>1, <2>2, FinishedNow
  <1>3. CASE InTask'
    <2>1. pc[0] \notin {"at_collect", "rethrow"}
      <3>1. pc[0] = "at_collect" => token[0] # collect.phase
        BY <1>0, <1>1 DEF BetweenTasks, Outside, Building
      <3>2. pc'[0] # "rethrow" /\ (pc'[0] = "at_collect" => token'[0] = collect'.phase)
        BY <1>0, <1>3 DEF InTask, Inside, Working
      <3> QED BY <1>0, <3>1, <3>2
    <2>2. pc'[w] # "at_collect"
      <3>1. pc[w] = "at_collect" => token[w] # collect.phase
        BY <1>0, <1>1 DEF BetweenTasks, Outside, Building
      <3>2. pc'[w] = "at_collect" => token'[w] = collect'.phase
        BY <1>0, <1>3 DEF InTask, Inside, Working
      <3> QED BY <1>0, <3>1, <3>2
    <2>3. release'.phase # collect'.phase
      BY <1>3 DEF InTask, PoolTypes, Barriers
    <2>4. ~ Finished(w)'
      BY <2>2, <2>3 DEF Finished
    <2> QED BY <1>1, <2>1, <2>4, FinishedNow
  <1> QED BY <1>2, <1>3 DEF Alternation

\* An arrival at collect_ ends the share of the thread that arrives, and the
\* last one ends nobody else's: all the others were there.
LEMMA ArrivalAtCollect ==
  ASSUME PcTypes, PoolTypes, PoolTypes', Alternation, Alternation', W > 1,
         NEW t \in Threads, pc[t] \in {"execute", "collect"}, pc[0] \in InFlight,
         ArriveCollect(t, "at_collect"),
         NEW w \in Spawned
  PROVE  Finished(w)' <=> Finished(w) \/ w = t
  <1>0. /\ \A u \in Threads : pc'[u] = IF u = t THEN "at_collect" ELSE pc[u]
        /\ \A u \in Threads : u # t => token'[u] = token[u]
        /\ release' = release
        /\ 0 \in Threads /\ w \in Threads
    BY WorkersAssumption DEF PcTypes, PoolTypes, ArriveCollect
  <1>1. InTask
    BY SideOf DEF InsideOnly, Working
  <1>2. pc[0] \in InCall /\ pc'[0] \in InCall
    BY <1>0 DEF InCall, InFlight
  <1>3. CASE InTask'
    <2>1. Finished(w)' <=> pc'[w] = "at_collect"
      <3>1. release'.phase # collect'.phase
        BY <1>3 DEF InTask, PoolTypes, Barriers
      <3> QED BY <1>2, <3>1 DEF Finished
    <2> QED BY <1>0, <1>1, <1>2, <2>1, FinishedNow
  <1>4. CASE BetweenTasks'
    <2>1. ASSUME NEW u \in Threads, u # t, u = 0 => pc[u] \in InFlight
          PROVE  pc[u] = "at_collect"
      <3>1. Inside(u) /\ Outside(u)'
        BY <1>1, <1>4 DEF InTask, BetweenTasks
      <3>2. pc'[u] = pc[u] /\ token'[u] = token[u] /\ release' = release
        BY <1>0, <2>1
      <3> QED
        BY <2>1, <3>1, <3>2 DEF Inside, Outside, Building, InFlight, Working
    <2>2. pc'[0] = "at_collect"
      BY <1>0, <2>1
    <2>3. Finished(w)'
      BY <1>2, <1>4, <2>2 DEF Finished, BetweenTasks
    <2>4. w # t => Finished(w)
      BY <1>0, <1>1, <1>2, <2>1, FinishedNow
    <2> QED BY <2>3, <2>4
  <1> QED BY <1>3, <1>4 DEF Alternation

\* Every step keeps the account of the chunks handed out in this call.
LEMMA GridStep ==
  /\ PoolInvariant /\ PoolInvariant' /\ WorkersConfined /\ WorkersConfined' /\ GridInv
  /\ [Next]_vars
  => GridInv'
  <1> SUFFICES ASSUME PoolInvariant, PoolInvariant', WorkersConfined, WorkersConfined',
                      GridInv, [Next]_vars
               PROVE  GridInv'
    OBVIOUS
  <1>0. /\ pc \in [Threads -> OwnerStates \cup WorkerStates]
        /\ pc[0] \in OwnerStates
        /\ cursor \in [Threads -> Nat]
        /\ task.chunks \in Nat
        /\ W \in Nat \ {0}
        /\ 0 \in Threads
        /\ \A w \in Spawned : w \in Threads /\ w # 0 /\ W > 1
    <2>1. /\ W \in Nat \ {0}
          /\ 0 \in Threads
          /\ \A w \in Spawned : w \in Threads /\ w # 0 /\ W > 1
      BY WorkersAssumption
    <2> QED BY <2>1, TypesAreTypeOK DEF PoolInvariant, PcTypes, LoopTypes
  <1>1. TypeOK /\ PcTypes /\ PoolTypes /\ PoolTypes' /\ Alternation /\ Alternation'
    BY TypesAreTypeOK DEF PoolInvariant, TypeOK, PoolTypes
  <1>2. ASSUME pc'[0] \notin InCall PROVE GridInv'
    BY <1>2, NoCallNoGrid
  <1> USE <1>0 DEF loopVars, poolVars
  <1>3. CASE SpawnFails \/ AllSpawned \/ UnwindStopRequest \/ UnwindDone \/ PinOwner
             \/ LatchOpens \/ FinishPinning \/ SetStopping \/ RequestStop \/ StopRelease
             \/ StopReleased \/ JoinWorkers \/ Rethrow \/ Destroy
    <2>1. pc'[0] \notin InCall
      BY <1>3
         DEF SpawnFails, AllSpawned, UnwindStopRequest, UnwindDone, PinOwner, LatchOpens,
             FinishPinning, SetStopping, RequestStop, StopRelease, StopReleased,
             JoinWorkers, Rethrow, Destroy, Move, ArriveRelease, InCall, InFlight, Working
    <2> QED BY <1>2, <2>1
  <1>4. CASE SpawnWorker
    <2>1. pc'[0] = "spawn"
      BY <1>1, <1>4 DEF SpawnWorker, PoolTypes
    <2> QED BY <1>2, <2>1 DEF InCall, InFlight, Working
  <1>5. ASSUME NEW kind \in {"for", "reduce"}, NEW n \in Sizes, CallNothing(kind, n)
        PROVE  GridInv'
    BY <1>2, <1>5 DEF CallNothing, InCall, InFlight, Working
  <1>6. ASSUME NEW kind \in {"for", "reduce"}, NEW n \in Sizes, Call(kind, n)
        PROVE  GridInv'
    <2>1. /\ n > 0 /\ Grid(kind, n) > 0 /\ Grid(kind, n) \in Nat
          /\ task' = [kind |-> kind, n |-> n, chunks |-> Grid(kind, n)]
          /\ attempts' = [k \in 0..(Grid(kind, n) - 1) |-> 0]
          /\ cursor' = [cursor EXCEPT ![0] = 0]
          /\ pc' = [pc EXCEPT ![0] = IF W = 1 THEN "execute" ELSE "release"]
          /\ release' = release /\ collect' = collect
      <3>1. n > 0
        BY <1>6, SizesAssumption
           DEF Call, Grid, for_chunk_count, reduction_chunk_count
      <3> QED BY <1>6, <3>1, GridShape, SizesAssumption DEF Call, Post, NoAttempts
    <2>2. ASSUME NEW t \in Threads
          PROVE  /\ Begun(t)' => t = 0
                 /\ ~ LoopOver(t)'
                 /\ pc'[t] \notin {"caught", "publish"}
      <3>1. CASE t = 0
        BY <2>1, <3>1 DEF LoopOver
      <3>2. CASE t # 0
        <4>1. t \in Spawned /\ pc[0] = "ready"
          BY <1>6, <3>2 DEF Call
        <4>2. BetweenTasks
          BY <1>1, <4>1, SideOf DEF OutsideOnly
        <4>3. pc'[t] \notin Working
          BY <2>1, <4>1, <4>2, IdleBetween
        <4>4. ~ Finished(t)'
          BY <2>1, <4>1, <4>2 DEF Finished, BetweenTasks
        <4> QED BY <3>2, <4>3, <4>4 DEF Begun, LoopOver, Working
      <3> QED BY <3>1, <3>2
    <2>3. cursor'[0] = 0 /\ 0 % W = 0
      BY <2>1, OwnResidue
    <2>4. \A k \in 0..(task'.chunks - 1) : attempts'[k] = 0 /\ ~ Passed(k % W, k)'
      <3>1. \A k \in 0..(task'.chunks - 1) : k \in Nat /\ k % W \in Threads
        BY <2>1, DivisionFacts
      <3>2. \A k \in 0..(task'.chunks - 1) : attempts'[k] = 0
        BY <2>1
      <3> QED BY <2>2, <2>3, <3>1, <3>2 DEF Passed
    <2>5. task'.n > 0 /\ task'.chunks > 0
      BY <2>1
    <2> QED
      BY <2>2, <2>3, <2>4, <2>5 DEF GridInv
  <1>7. ASSUME NEW t \in Threads, pc[t] = "release", ArriveRelease(t, "at_release"),
               W > 1, UNCHANGED <<task, attempts, cursor>>
        PROVE  GridInv'
    <2>1. \A u \in Threads : pc'[u] = IF u = t THEN "at_release" ELSE pc[u]
      BY <1>7 DEF ArriveRelease
    <2>2. \A w \in Spawned : Finished(w)' <=> Finished(w)
      BY <1>1, <1>7, ArrivalAtRelease
    <2>3. \A u \in Threads : LoopOver(u)' <=> LoopOver(u)
      BY <1>7, <2>1, <2>2 DEF LoopOver
    <2>4. \A u \in Threads : Begun(u)' <=> Begun(u)
      BY <1>7, <2>1, <2>3 DEF Begun, Working
    <2>5. /\ pc'[0] \in InCall => pc[0] \in InCall
          /\ pc'[0] \in {"release", "at_release"} => pc[0] \in {"release", "at_release"}
          /\ \A u \in Threads : pc'[u] \in {"caught", "publish"} <=> pc[u] \in {"caught", "publish"}
      BY <1>7, <2>1 DEF InCall
    <2> QED BY <1>7, <2>3, <2>4, <2>5, SamePlaces
  <1>8. ASSUME NEW t \in Threads, pc[t] \in {"execute", "collect"}, pc[0] \in InFlight,
               ArriveCollect(t, "at_collect"), W > 1, UNCHANGED <<task, attempts, cursor>>,
               IF t = 0 THEN pc[t] = "collect" ELSE pc[t] = "execute",
               cursor[t] >= task.chunks
        PROVE  GridInv'
    <2>1. \A u \in Threads : pc'[u] = IF u = t THEN "at_collect" ELSE pc[u]
      BY <1>8 DEF ArriveCollect
    <2>2. \A w \in Spawned : Finished(w)' <=> Finished(w) \/ w = t
      BY <1>1, <1>8, ArrivalAtCollect
    <2>3. \A u \in Threads : LoopOver(u)' <=> LoopOver(u) \/ u = t
      BY <1>8, <2>1, <2>2 DEF LoopOver
    <2>4. \A u \in Threads : Begun(u)' <=> Begun(u)
      BY <1>8, <2>1, <2>3 DEF Begun, LoopOver, Working
    <2>5. /\ pc[0] \in InCall
          /\ pc'[0] \in {"release", "at_release"} => pc[0] \in {"release", "at_release"}
          /\ \A u \in Threads : pc'[u] \in {"caught", "publish"} <=> pc[u] \in {"caught", "publish"}
      BY <1>8, <2>1 DEF InCall
    <2> QED BY <1>8, <2>3, <2>4, <2>5, SamePlaces
  <1>9. CASE OwnerRelease
    <2>1. W > 1
      BY <1>1, <1>9 DEF OwnerRelease, Alternation
    <2> QED BY <1>7, <1>9, <2>1 DEF OwnerRelease
  <1>10. CASE OwnerReleased
    <2>1. /\ pc[0] = "at_release" /\ token[0] # release.phase
          /\ pc' = [pc EXCEPT ![0] = "execute"]
          /\ UNCHANGED <<task, attempts, cursor, release, collect>>
      BY <1>10 DEF OwnerReleased, Released, Move
    <2>2. InTask
      <3>1. W > 1
        BY <1>1, <2>1 DEF Alternation, Waiting
      <3> QED BY <1>1, <2>1, <3>1, SideOf
    <2>3. release.phase # collect.phase /\ pc[0] \in InCall /\ pc'[0] \in InCall
      BY <1>1, <2>1, <2>2 DEF InTask, PoolTypes, Barriers, InCall, InFlight, Working
    <2>4. \A t \in Threads : LoopOver(t)' <=> LoopOver(t)
      BY <2>1, <2>3 DEF LoopOver, Finished
    <2>5. \A t \in Threads \ {0} : Begun(t)' <=> Begun(t)
      BY <2>1, <2>4 DEF Begun
    <2>6. ~ Begun(0) /\ ~ LoopOver(0)' /\ cursor[0] = 0 /\ 0 % W = 0
      BY <2>1, OwnResidue DEF Begun, LoopOver, Working, GridInv
    <2>7. ASSUME NEW k \in 0..(task.chunks - 1)
          PROVE  Passed(k % W, k)' <=> Passed(k % W, k)
      <3>1. k \in Nat /\ k % W \in Threads
        BY DivisionFacts
      <3>2. CASE k % W = 0
        BY <2>1, <2>6, <3>1, <3>2 DEF Passed
      <3>3. CASE k % W # 0
        BY <2>1, <2>5, <3>1, <3>3 DEF Passed
      <3> QED BY <3>2, <3>3
    <2>8. ASSUME NEW t \in Threads
          PROVE  /\ Begun(t)' => cursor[t] % W = t
                 /\ LoopOver(t)' => cursor[t] >= task.chunks
                 /\ pc'[t] \in {"caught", "publish"} => cursor[t] < task.chunks
      BY <2>1, <2>4, <2>5, <2>6 DEF GridInv
    <2> QED BY <2>1, <2>3, <2>7, <2>8 DEF GridInv
  <1>11. CASE OwnerShareDone
    <2>1. /\ pc[0] = "execute" /\ cursor[0] >= task.chunks
          /\ pc' = [pc EXCEPT ![0] = IF W = 1 THEN "rethrow" ELSE "collect"]
          /\ UNCHANGED <<task, attempts, cursor, release, collect>>
      BY <1>11 DEF OwnerShareDone, ShareDone, Move
    <2>2. \A w \in Spawned : Finished(w)' <=> Finished(w)
      <3>1. ASSUME NEW w \in Spawned PROVE release.phase # collect.phase
        BY <1>1, <2>1, SideOf DEF InsideOnly, Working, InTask, PoolTypes, Barriers
      <3> QED BY <2>1, <3>1 DEF Finished, InCall, InFlight, Working
    <2>3. \A t \in Threads : LoopOver(t)' <=> LoopOver(t) \/ t = 0
      BY <2>1, <2>2 DEF LoopOver
    <2>4. \A t \in Threads : Begun(t)' <=> Begun(t)
      BY <2>1, <2>3 DEF Begun, Working
    <2>5. pc[0] \in InCall /\ pc'[0] \notin {"release", "at_release", "caught", "publish"}
      BY <2>1 DEF InCall, InFlight, Working
    <2> QED BY <2>1, <2>3, <2>4, <2>5, SamePlaces
  <1>12. CASE OwnerCollect
    <2>1. W > 1
      BY <1>1, <1>12 DEF OwnerCollect, Alternation
    <2>2. cursor[0] >= task.chunks
      BY <1>12 DEF OwnerCollect, GridInv, LoopOver
    <2> QED BY <1>8, <1>12, <2>1, <2>2 DEF OwnerCollect, InFlight
  <1>13. CASE OwnerCollected
    <2>1. /\ pc[0] = "at_collect" /\ token[0] # collect.phase
          /\ pc' = [pc EXCEPT ![0] = "rethrow"]
          /\ UNCHANGED <<task, attempts, cursor, release, collect>>
      BY <1>13 DEF OwnerCollected, Released, Move
    <2>2. \A w \in Spawned : Finished(w)' <=> Finished(w)
      <3>1. ASSUME NEW w \in Spawned PROVE release.phase = collect.phase
        BY <1>1, <2>1, SideOf DEF BetweenTasks
      <3> QED BY <2>1, <3>1 DEF Finished, InCall, InFlight
    <2>3. \A t \in Threads : LoopOver(t)' <=> LoopOver(t)
      BY <2>1, <2>2 DEF LoopOver
    <2>4. \A t \in Threads : Begun(t)' <=> Begun(t)
      BY <2>1, <2>3 DEF Begun, Working
    <2>5. pc[0] \in InCall /\ pc'[0] \notin {"release", "at_release", "caught", "publish"}
      BY <2>1 DEF InCall, InFlight
    <2> QED BY <2>1, <2>3, <2>4, <2>5, SamePlaces
  <1>14. ASSUME NEW w \in Spawned, NEW here \in WorkerStates \ (Working \cup {"at_collect"}),
                pc[w] \notin Working \cup {"at_collect"} \/ (pc[w] = "at_collect" /\ BetweenTasks),
                pc' = [pc EXCEPT ![w] = here],
                UNCHANGED <<task, attempts, cursor, release, collect>>
         PROVE  GridInv'
    <2>1. pc'[0] = pc[0] /\ \A t \in Threads : pc'[t] = IF t = w THEN here ELSE pc[t]
      BY <1>14
    <2>2. \A v \in Spawned : Finished(v)' <=> Finished(v)
      BY <1>14, <2>1 DEF Finished, BetweenTasks
    <2>3. \A t \in Threads : LoopOver(t)' <=> LoopOver(t)
      BY <2>1, <2>2 DEF LoopOver
    <2>4. \A t \in Threads : Begun(t)' <=> Begun(t)
      BY <1>14, <2>1, <2>3 DEF Begun, Working
    <2>5. \A t \in Threads : pc'[t] \in {"caught", "publish"} <=> pc[t] \in {"caught", "publish"}
      BY <1>14, <2>1 DEF Working
    <2> QED BY <1>14, <2>1, <2>3, <2>4, <2>5, SamePlaces
  <1>15. ASSUME NEW w \in Spawned, PinWorker(w) \/ CountDown(w) PROVE GridInv'
    <2>1. \E here \in {"count_down", "release"} : pc' = [pc EXCEPT ![w] = here]
      BY <1>15 DEF PinWorker, CountDown
    <2>2. /\ pc[w] \in {"pin", "count_down"}
          /\ UNCHANGED <<task, attempts, cursor, release, collect>>
      BY <1>15 DEF PinWorker, CountDown
    <2> QED BY <1>14, <2>1, <2>2 DEF WorkerStates, Working
  <1>16. ASSUME NEW w \in Spawned, WorkerRelease(w) PROVE GridInv'
    BY <1>7, <1>16 DEF WorkerRelease
  <1>17. ASSUME NEW w \in Spawned, WorkerReleased(w), pc' = [pc EXCEPT ![w] = "exited"]
         PROVE  GridInv'
    <2>1. /\ pc[w] = "at_release"
          /\ UNCHANGED <<task, attempts, cursor, release, collect>>
      <3>1. pc'[w] = "exited"
        BY <1>17
      <3> QED BY <1>17, <3>1 DEF WorkerReleased, Move
    <2> QED BY <1>14, <1>17, <2>1 DEF WorkerStates, Working
  <1>18. ASSUME NEW w \in Spawned, WorkerReleased(w), pc' # [pc EXCEPT ![w] = "exited"]
         PROVE  GridInv'
    <2>1. /\ pc[w] = "at_release" /\ token[w] # release.phase
          /\ pc' = [pc EXCEPT ![w] = "execute"]
          /\ cursor' = [cursor EXCEPT ![w] = w]
          /\ UNCHANGED <<task, attempts, release, collect>>
      BY <1>18 DEF WorkerReleased, Released, Move
    <2>2. InTask
      BY <1>1, <2>1, SideOf
    <2>3. release.phase # collect.phase
      BY <1>1, <2>2 DEF InTask, PoolTypes, Barriers
    <2>4. pc'[0] = pc[0] /\ pc[0] \in InCall
      BY <2>1 DEF WorkersConfined, InCall, Working
    <2>5. \A t \in Threads : LoopOver(t)' <=> LoopOver(t)
      BY <2>1, <2>3, <2>4 DEF LoopOver, Finished
    <2>6. ~ LoopOver(w) /\ ~ Begun(w)
      BY <2>1, <2>3 DEF LoopOver, Finished, Begun, Working
    <2>7. \A t \in Threads \ {w} : /\ Begun(t)' <=> Begun(t)
                                   /\ pc'[t] = pc[t] /\ cursor'[t] = cursor[t]
      BY <2>1, <2>5 DEF Begun
    <2>8. w % W = w /\ pc'[w] = "execute" /\ cursor'[w] = w
      <3>1. W \in Nat /\ W > 0 /\ w \in 0..(W - 1)
        OBVIOUS
      <3>2. w % W = w
        BY <3>1, OwnResidue
      <3> QED BY <2>1, <3>2
    <2>9. ASSUME NEW k \in 0..(task.chunks - 1)
          PROVE  Passed(k % W, k)' <=> Passed(k % W, k)
      <3>1. k \in Nat /\ k % W \in Threads
        BY DivisionFacts
      <3>2. CASE k % W = w
        <4>1. ~ (k < w)
          <5>1. W \in Nat /\ W > 0
            OBVIOUS
          <5>2. k \in 0..(W - 1) => k % W = k
            BY <5>1, OwnResidue
          <5>3. k < w => k \in 0..(W - 1)
            BY <3>1
          <5> QED BY <3>1, <3>2, <5>2, <5>3
        <4> QED BY <2>6, <2>8, <3>2, <4>1 DEF Passed
      <3>3. CASE k % W # w
        BY <2>7, <3>1, <3>3 DEF Passed
      <3> QED BY <3>2, <3>3
    <2>10. ASSUME NEW t \in Threads
           PROVE  /\ Begun(t)' => cursor'[t] % W = t
                  /\ LoopOver(t)' => cursor'[t] >= task'.chunks
                  /\ pc'[t] \in {"caught", "publish"} => cursor'[t] < task'.chunks
      <3>1. task' = task
        BY <2>1
      <3>2. CASE t = w
        BY <2>5, <2>6, <2>8, <3>2
      <3>3. CASE t # w
        BY <2>5, <2>7, <3>1, <3>3 DEF GridInv
      <3> QED BY <3>2, <3>3
    <2>11. cursor'[0] = cursor[0]
      BY <2>1
    <2> QED
      BY <2>1, <2>4, <2>9, <2>10, <2>11 DEF GridInv
  <1>19. ASSUME NEW w \in Spawned, WorkerCollect(w) PROVE GridInv'
    <2>1. pc[0] \in InFlight
      BY <1>19 DEF WorkerCollect, ShareDone, WorkersConfined, Working
    <2> QED BY <1>8, <1>19, <2>1 DEF WorkerCollect, ShareDone
  <1>20. ASSUME NEW w \in Spawned, WorkerCollected(w) PROVE GridInv'
    <2>1. /\ pc[w] = "at_collect" /\ token[w] # collect.phase
          /\ pc' = [pc EXCEPT ![w] = "release"]
          /\ UNCHANGED <<task, attempts, cursor, release, collect>>
      BY <1>20 DEF WorkerCollected, Released, Move
    <2>2. BetweenTasks
      BY <1>1, <2>1, SideOf
    <2> QED BY <1>14, <2>1, <2>2 DEF WorkerStates, Working
  <1>21. ASSUME NEW t \in Threads, Share(t) PROVE GridInv'
    BY <1>1, <1>21, GridShareStep
  <1>22. CASE UNCHANGED vars
    BY <1>22 DEF vars, GridInv, Begun, LoopOver, Finished, Passed
  <1>23. CASE OwnerStep
    BY <1>3, <1>4, <1>9, <1>10, <1>11, <1>12, <1>13, <1>21, <1>23 DEF OwnerStep
  <1>24. CASE ClientStep
    BY <1>3, <1>5, <1>6, <1>24 DEF ClientStep
  <1>25. CASE \E w \in Spawned : WorkerStep(w)
    BY <1>15, <1>16, <1>17, <1>18, <1>19, <1>20, <1>21, <1>25 DEF WorkerStep
  <1> QED
    BY <1>22, <1>23, <1>24, <1>25 DEF Next

-----------------------------------------------------------------------------
(* The exception relay. *)

\* A step that leaves the relay alone, and every thread in or out of its catch.
LEMMA SameRelay ==
  ASSUME RelayInv, UNCHANGED <<relay, threw>>,
         \A t \in Threads :
           /\ pc'[t] = "caught" <=> pc[t] = "caught"
           /\ pc'[t] = "publish" <=> pc[t] = "publish"
           /\ pc[t] \in {"caught", "publish"} => cursor'[t] = cursor[t],
         pc'[0] \in InCall => pc[0] \in InCall,
         pc'[0] \in InFlight \cup {"rethrow"} \/ ~ relay.claimed
  PROVE  RelayInv'
  BY DEF RelayInv

\* A step of a chunk loop: the one that claims the relay is the one that fills it.
LEMMA RelayShareStep ==
  ASSUME TypeOK, WorkersConfined, RelayInv, NEW t \in Threads, Share(t)
  PROVE  RelayInv'
  <1>0. /\ pc \in [Threads -> OwnerStates \cup WorkerStates]
        /\ cursor \in [Threads -> Nat]
        /\ relay \in [claimed : BOOLEAN, captured : BOOLEAN,
                      first : Nat \cup {NoException}]
        /\ W \in Nat \ {0}
        /\ 0 \in Threads
        /\ PoolTypes
    BY WorkersAssumption, TypesAreTypeOK DEF PcTypes, LoopTypes
  <1>1. /\ pc[t] \in Working
        /\ \E here \in Working : pc' = [pc EXCEPT ![t] = here]
    BY DEF Share, ShareStep, RunChunk, ClaimRelay, DropException, PublishRelay,
           Advance, Working
  <1>2. pc[0] \in InFlight /\ pc'[0] \in InFlight
    BY <1>0, <1>1, WorkingHasBegun DEF InFlight
  <1>3. pc[0] \in InCall /\ pc'[0] \in InCall
    BY <1>2 DEF InCall, InFlight, Working
  <1> USE <1>0
  <1>4. CASE RunChunk(t)
    <2>1. \/ /\ threw' = threw /\ relay' = relay
             /\ cursor' = [cursor EXCEPT ![t] = @ + W]
             /\ pc' = [pc EXCEPT ![t] = "execute"]
          \/ /\ threw' = threw \cup {cursor[t]} /\ relay' = relay
             /\ cursor' = cursor
             /\ pc' = [pc EXCEPT ![t] = "caught"]
      BY <1>4 DEF RunChunk, Advance
    <2>2. pc[t] = "execute"
      BY <1>4 DEF RunChunk
    <2> QED
      BY <1>2, <1>3, <2>1, <2>2 DEF RelayInv
  <1>5. CASE ClaimRelay(t)
    <2>1. /\ pc[t] = "caught" /\ ~ relay.claimed
          /\ relay' = [relay EXCEPT !.claimed = TRUE]
          /\ pc' = [pc EXCEPT ![t] = "publish"]
          /\ UNCHANGED <<cursor, threw>>
      BY <1>5 DEF ClaimRelay
    <2>2. relay'.claimed /\ relay'.captured = relay.captured /\ relay'.first = relay.first
      BY <2>1
    <2> QED
      BY <1>2, <1>3, <2>1, <2>2 DEF RelayInv
  <1>6. CASE DropException(t)
    <2>1. /\ pc[t] = "caught" /\ relay.claimed
          /\ cursor' = [cursor EXCEPT ![t] = @ + W]
          /\ pc' = [pc EXCEPT ![t] = "execute"]
          /\ UNCHANGED <<threw, relay>>
      BY <1>6 DEF DropException, Advance
    <2> QED
      BY <1>2, <1>3, <2>1 DEF RelayInv
  <1>7. CASE PublishRelay(t)
    <2>1. /\ pc[t] = "publish"
          /\ relay' = [relay EXCEPT !.first = cursor[t], !.captured = TRUE]
          /\ cursor' = [cursor EXCEPT ![t] = @ + W]
          /\ pc' = [pc EXCEPT ![t] = "execute"]
          /\ UNCHANGED threw
      BY <1>7 DEF PublishRelay, Advance
    <2>2. relay'.captured /\ relay'.claimed = relay.claimed /\ relay'.first = cursor[t]
      BY <2>1
    <2>3. relay.claimed /\ ~ relay.captured /\ cursor[t] \in threw
      BY <2>1 DEF RelayInv
    <2> QED
      BY <1>2, <1>3, <2>1, <2>2, <2>3 DEF RelayInv
  <1> QED
    BY <1>4, <1>5, <1>6, <1>7 DEF Share, ShareStep

\* At the join point nobody is still inside a chunk.
LEMMA NobodyWorksAtJoin ==
  ASSUME WorkersConfined, pc[0] = "rethrow"
  PROVE  \A t \in Threads : pc[t] \notin Working
  BY DEF WorkersConfined, InFlight, Working

\* Every step keeps the account of the exceptions of this call.
LEMMA RelayStep ==
  /\ TypeOK /\ WorkersConfined /\ LatchInvariant /\ RelayInv /\ [Next]_vars
  => RelayInv'
  <1> SUFFICES ASSUME TypeOK, WorkersConfined, LatchInvariant, RelayInv, [Next]_vars
               PROVE  RelayInv'
    OBVIOUS
  <1>0. /\ pc \in [Threads -> OwnerStates \cup WorkerStates]
        /\ pc[0] \in OwnerStates
        /\ relay \in [claimed : BOOLEAN, captured : BOOLEAN,
                      first : Nat \cup {NoException}]
        /\ cursor \in [Threads -> Nat]
        /\ W \in Nat \ {0}
        /\ 0 \in Threads
        /\ \A w \in Spawned : w \in Threads /\ w # 0
    BY WorkersAssumption, TypesAreTypeOK DEF PcTypes, LoopTypes
  <1>1. pc[0] \notin InFlight \cup {"rethrow"} => ~ relay.claimed
    BY DEF RelayInv
  <1> USE <1>0 DEF loopVars, poolVars
  <1>2. ASSUME NEW t \in Threads, NEW here, pc' = [pc EXCEPT ![t] = here],
               UNCHANGED <<relay, threw>>,
               \A u \in Threads : pc[u] \in {"caught", "publish"} => cursor'[u] = cursor[u],
               pc[t] \notin {"caught", "publish"}, here \notin {"caught", "publish"},
               t = 0 => /\ here \in InCall => pc[0] \in InCall
                        /\ pc[0] \in InFlight \cup {"rethrow"} => here \in InFlight \cup {"rethrow"}
        PROVE  RelayInv'
    <2>1. \A u \in Threads : pc'[u] = IF u = t THEN here ELSE pc[u]
      BY <1>2
    <2>2. pc'[0] \in InFlight \cup {"rethrow"} \/ ~ relay.claimed
      BY <1>1, <1>2, <2>1
    <2> QED
      BY <1>2, <2>1, <2>2, SameRelay
  <1>3. CASE SpawnFails \/ AllSpawned \/ UnwindDone \/ PinOwner \/ LatchOpens \/ FinishPinning
             \/ SetStopping \/ StopRelease \/ StopReleased \/ JoinWorkers \/ Destroy
             \/ OwnerRelease \/ OwnerReleased \/ OwnerShareDone \/ OwnerCollect
             \/ OwnerCollected
    <2>1. /\ UNCHANGED <<relay, threw, cursor>>
          /\ pc[0] \notin {"caught", "publish"}
          /\ \E here : /\ pc' = [pc EXCEPT ![0] = here]
                       /\ here \notin {"caught", "publish"}
                       /\ here \in InCall => pc[0] \in InCall
                       /\ pc[0] \in InFlight \cup {"rethrow"} => here \in InFlight \cup {"rethrow"}
      BY <1>3
         DEF SpawnFails, AllSpawned, UnwindDone, PinOwner, LatchOpens, FinishPinning,
             SetStopping, StopRelease, StopReleased, JoinWorkers, Destroy, OwnerRelease,
             OwnerReleased, OwnerShareDone, ShareDone, OwnerCollect, OwnerCollected, Move,
             ArriveRelease, ArriveCollect, InCall, InFlight, Working
    <2>2. PICK here : /\ pc' = [pc EXCEPT ![0] = here]
                      /\ here \notin {"caught", "publish"}
                      /\ here \in InCall => pc[0] \in InCall
                      /\ pc[0] \in InFlight \cup {"rethrow"} => here \in InFlight \cup {"rethrow"}
      BY <2>1
    <2> QED BY <1>2, <2>1, <2>2
  <1>4. CASE SpawnWorker
    <2>1. /\ UNCHANGED <<relay, threw, cursor>> /\ pc' = [pc EXCEPT ![spawned + 1] = "pin"]
          /\ spawned + 1 \in Spawned /\ pc[spawned + 1] = "unborn"
      <3>1. spawned \in 0..(W - 1) /\ spawned < W - 1
        BY <1>4, TypesAreTypeOK DEF SpawnWorker, PoolTypes
      <3>2. spawned + 1 \in Spawned /\ spawned + 1 > spawned
        BY <3>1
      <3> QED BY <1>4, <3>2 DEF SpawnWorker, LatchInvariant
    <2>2. PICK w \in Spawned : /\ pc' = [pc EXCEPT ![w] = "pin"] /\ pc[w] = "unborn"
                               /\ w \in Threads /\ w # 0
      BY <2>1
    <2> QED BY <1>2, <2>1, <2>2
  <1>5. CASE UNCHANGED <<pc, cursor, threw, relay>>
    BY <1>1, <1>5, SameRelay
  <1>6. CASE Rethrow
    <2>1. \A t \in Threads : pc[t] \notin {"caught", "publish"} /\ pc'[t] \notin {"caught", "publish"}
      BY <1>6, NobodyWorksAtJoin DEF Rethrow, Working
    <2>2. /\ pc'[0] = "ready" /\ threw' = threw
          /\ relay' = IF relay.captured THEN EmptyRelay ELSE relay
      BY <1>6 DEF Rethrow, RelayAfterRethrow
    <2>3. relay.claimed => relay.captured
      BY <2>1 DEF RelayInv
    <2>4. ~ relay'.claimed /\ ~ relay'.captured /\ relay'.first = NoException
      BY <2>2, <2>3 DEF EmptyRelay, RelayInv
    <2> QED
      BY <2>1, <2>2, <2>4 DEF RelayInv, InCall, InFlight, Working
  <1>7. ASSUME NEW kind \in {"for", "reduce"}, NEW n \in Sizes, Call(kind, n)
        PROVE  RelayInv'
    <2>1. /\ pc[0] = "ready" /\ threw' = {} /\ relay' = relay
          /\ \E here \in {"execute", "release"} : pc' = [pc EXCEPT ![0] = here]
      BY <1>7 DEF Call, Post
    <2>2. \A t \in Threads : pc'[t] \notin {"caught", "publish"}
      BY <2>1 DEF WorkersConfined, InFlight, Working
    <2>3. ~ relay.claimed
      BY <1>1, <2>1 DEF InFlight, Working
    <2> QED
      BY <2>1, <2>2, <2>3 DEF RelayInv
  <1>8. ASSUME NEW t \in Threads, Share(t) PROVE RelayInv'
    BY <1>8, RelayShareStep
  <1>9. ASSUME NEW w \in Spawned,
               PinWorker(w) \/ CountDown(w) \/ WorkerRelease(w) \/ WorkerReleased(w)
                 \/ WorkerCollect(w) \/ WorkerCollected(w)
        PROVE  RelayInv'
    <2>1. /\ UNCHANGED <<relay, threw>>
          /\ cursor' = cursor \/ cursor' = [cursor EXCEPT ![w] = w]
          /\ pc[w] \notin {"caught", "publish"}
          /\ \E here \in {"count_down", "release", "at_release", "exited", "execute",
                           "at_collect"} : pc' = [pc EXCEPT ![w] = here]
      <3>1. CASE WorkerReleased(w)
        BY <3>1 DEF WorkerReleased, Move
      <3>2. CASE ~ WorkerReleased(w)
        BY <1>9, <3>2
           DEF PinWorker, CountDown, WorkerRelease, WorkerCollect, ShareDone,
               WorkerCollected, Move, ArriveRelease, ArriveCollect
      <3> QED BY <3>1, <3>2
    <2>2. \A u \in Threads : pc[u] \in {"caught", "publish"} => cursor'[u] = cursor[u]
      BY <2>1
    <2> QED BY <1>2, <2>1, <2>2
  <1>10. CASE OwnerStep
    <2>1. CASE UnwindStopRequest \/ RequestStop
      BY <1>5, <2>1 DEF UnwindStopRequest, RequestStop
    <2> QED BY <1>3, <1>4, <1>6, <1>8, <1>10, <2>1 DEF OwnerStep
  <1>11. CASE ClientStep
    <2>1. ASSUME NEW kind \in {"for", "reduce"}, NEW n \in Sizes, CallNothing(kind, n)
          PROVE  RelayInv'
      BY <1>5, <2>1 DEF CallNothing
    <2> QED BY <1>3, <1>7, <1>11, <2>1 DEF ClientStep
  <1>12. CASE \E w \in Spawned : WorkerStep(w)
    BY <1>8, <1>9, <1>12 DEF WorkerStep
  <1>13. CASE UNCHANGED vars
    BY <1>5, <1>13 DEF vars
  <1> QED
    BY <1>10, <1>11, <1>12, <1>13 DEF Next

-----------------------------------------------------------------------------
(* The whole inductive invariant, and what it says at the join point. *)

\* The accounts of a call hold before there is one.
LEMMA InitCall == Init => CallInvariant
  <1> SUFFICES ASSUME Init PROVE CallInvariant
    OBVIOUS
  <1>1. PoolInvariant
    BY InitPool
  <1>2. \A t \in Threads : pc[t] \in {"spawn", "unborn"}
    BY DEF Init
  <1>3. pc[0] = "spawn"
    BY WorkersAssumption DEF Init
  <1>4. GridInv
    <2>1. \A t \in Threads : ~ Begun(t) /\ ~ LoopOver(t)
      BY <1>2, <1>3 DEF Begun, LoopOver, Finished, InCall, InFlight, Working
    <2> QED
      BY <1>2, <1>3, <2>1 DEF GridInv, InCall, InFlight, Working
  <1>5. RelayInv
    BY <1>2, <1>3 DEF Init, RelayInv, EmptyRelay, InCall, InFlight, Working
  <1> QED
    BY <1>1, <1>4, <1>5 DEF CallInvariant

\* In every state the pool can reach, thread t is on the chunks congruent to t,
\* a chunk has one attempt from the moment its thread passed it, and the relay
\* has one winner (execute_chunks, run_task, ExceptionRelay).
THEOREM CallInvariantHolds == Spec => []CallInvariant
  <1>1. PoolInvariant /\ [Next]_vars => PoolInvariant'
    BY TypeStep, LatchStep, BarrierStep, StopStep DEF PoolInvariant
  <1>2. PoolInvariant' => WorkersConfined'
    BY Confinement, PTL
  <1>3. CallInvariant /\ [Next]_vars => CallInvariant'
    <2> SUFFICES ASSUME CallInvariant, [Next]_vars PROVE CallInvariant'
      OBVIOUS
    <2>1. PoolInvariant' /\ WorkersConfined /\ WorkersConfined'
      BY <1>1, <1>2, Confinement DEF CallInvariant
    <2>2. GridInv'
      BY <2>1, GridStep DEF CallInvariant
    <2>3. RelayInv'
      BY <2>1, RelayStep DEF CallInvariant, PoolInvariant
    <2> QED BY <2>1, <2>2, <2>3 DEF CallInvariant
  <1> QED
    BY <1>3, InitCall, PTL DEF Spec

\* At the join point every chunk of the grid has had exactly one attempt.
LEMMA AllChunksAttempted ==
  ASSUME CallInvariant, pc[0] = "rethrow"
  PROVE  /\ task.n \in Nat /\ task.n > 0
         /\ task.chunks \in Nat /\ task.chunks > 0
         /\ DOMAIN attempts = 0..(task.chunks - 1)
         /\ \A k \in DOMAIN attempts : attempts[k] = 1
  <1>1. /\ task.n \in Int /\ task.chunks \in Nat
        /\ DOMAIN attempts = 0..(task.chunks - 1)
        /\ cursor \in [Threads -> Nat]
        /\ W \in Nat \ {0}
    BY WorkersAssumption, TypesAreTypeOK DEF CallInvariant, PoolInvariant, LoopTypes
  <1>2. pc[0] \in InCall
    BY DEF InCall
  <1>3. task.n > 0 /\ task.chunks > 0
    BY <1>2 DEF CallInvariant, GridInv
  <1>4. ASSUME NEW t \in Threads PROVE LoopOver(t) /\ Begun(t)
    <2>1. CASE t = 0
      BY <2>1 DEF LoopOver, Begun
    <2>2. CASE t # 0
      <3>1. t \in Spawned /\ W > 1 /\ 0 \in Threads
        BY <1>1, <2>2
      <3>2. BetweenTasks
        BY <3>1, SideOf DEF OutsideOnly, CallInvariant, PoolInvariant
      <3>3. Finished(t)
        BY <1>2, <3>2 DEF Finished, BetweenTasks
      <3> QED BY <2>2, <3>3 DEF LoopOver, Begun
    <2> QED BY <2>1, <2>2
  <1>5. ASSUME NEW k \in 0..(task.chunks - 1) PROVE attempts[k] = 1
    <2>1. k \in Nat /\ k % W \in Threads
      BY <1>1, DivisionFacts
    <2>2. cursor[k % W] >= task.chunks
      BY <1>4, <2>1 DEF CallInvariant, GridInv
    <2>3. Passed(k % W, k)
      BY <1>1, <1>4, <2>1, <2>2 DEF Passed
    <2> QED BY <1>2, <2>3 DEF CallInvariant, GridInv
  <1> QED
    BY <1>1, <1>3, <1>5

\* Element i is in exactly one of the chunks that were attempted, once.
ElementHandledOnce(i) ==
  \E k \in DOMAIN attempts :
    /\ attempts[k] = 1
    /\ InRange(i, TaskChunk(k))
    /\ \A l \in DOMAIN attempts \ {k} : ~ InRange(i, TaskChunk(l))

\* A call that comes back has handed every element to the body exactly once,
\* for every n, every worker count and every schedule (jthread_pool.hpp:
\* run_task and execute_chunks).
THEOREM JthreadPoolCoversEveryElement ==
  Spec => [](pc[0] = "rethrow" => \A i \in 0..(task.n - 1) : ElementHandledOnce(i))
  <1>1. CallInvariant =>
          (pc[0] = "rethrow" => \A i \in 0..(task.n - 1) : ElementHandledOnce(i))
    <2> SUFFICES ASSUME CallInvariant, pc[0] = "rethrow", NEW i \in 0..(task.n - 1)
                 PROVE  ElementHandledOnce(i)
      OBVIOUS
    <2> DEFINE n == task.n
               p == task.chunks
               k == BlockOf(n, p, i)
    <2>1. /\ n \in Nat /\ p \in Nat /\ p > 0
          /\ DOMAIN attempts = 0..(p - 1)
          /\ \A l \in DOMAIN attempts : attempts[l] = 1
      BY AllChunksAttempted
    <2>2. i \in 0..(n - 1) /\ i \in Int
      BY <2>1
    <2>3. \A l : TaskChunk(l) = block_partition(n, p, l)
      BY DEF TaskChunk
    <2> HIDE DEF n, p
    <2>4. k \in 0..(p - 1) /\ InRange(i, block_partition(n, p, k))
      BY <2>1, <2>2, BlocksCover
    <2> HIDE DEF k
    <2>5. \A l \in 0..(p - 1) : l # k => ~ InRange(i, block_partition(n, p, l))
      BY <2>1, <2>2, <2>4, BlocksDisjoint
    <2> QED
      BY <2>1, <2>3, <2>4, <2>5 DEF ElementHandledOnce
  <1> QED
    BY <1>1, CallInvariantHolds, PTL

\* At the join point the relay says whether a body threw, and names one that did.
LEMMA JoinRelay ==
  ASSUME CallInvariant, WorkersConfined, pc[0] = "rethrow"
  PROVE  /\ relay.captured <=> threw # {}
         /\ relay.captured => relay.first \in threw
  <1>1. \A t \in Threads : pc[t] \notin {"caught", "publish"}
    BY NobodyWorksAtJoin DEF Working
  <1>2. relay.captured <=> threw # {}
    BY <1>1 DEF CallInvariant, RelayInv, InCall
  <1>3. relay.captured => relay.first \in threw
    BY DEF CallInvariant, RelayInv
  <1> QED
    BY <1>2, <1>3

-----------------------------------------------------------------------------
(* Refinement: the pool is a fork-join backend. *)

\* The status of a pool whose owner is at a given place.
LEMMA StatusOf ==
  /\ pc[0] \in {"spawn", "pin_owner", "await_latch", "aggregate"} => Status = "building"
  /\ pc[0] = "ready" => Status = "idle"
  /\ pc[0] \in {"release", "at_release", "execute", "caught", "publish", "collect",
                "at_collect", "rethrow"} => Status = "busy"
  /\ pc[0] \in {"stop", "stop_release", "at_stop_release", "join", "unwind"}
       => Status = "closing"
  /\ pc[0] = "gone" => Status = "gone"
  BY DEF Status, Building, Closing, InCall, InFlight, Working

\* A step that stays in one phase of the pool's life and touches nothing the
\* contract talks about.
LEMMA Stutter ==
  ASSUME UNCHANGED <<attempts, threw, answer>>, Status' = Status
  PROVE  UNCHANGED FJ!vars
  BY DEF FJ!vars

\* A pool under construction is a backend under construction.
LEMMA InitRefines == Init => FJ!Init
  <1> SUFFICES ASSUME Init PROVE FJ!Init
    OBVIOUS
  <1>1. pc[0] = "spawn"
    BY WorkersAssumption DEF Init
  <1>2. attempts = [k \in {} |-> 0]
    <2>1. 0..(0 - 1) = {}
      OBVIOUS
    <2> QED BY <2>1 DEF Init, NoAttempts
  <1> QED
    BY <1>1, <1>2, StatusOf DEF Init, FJ!Init, FJ!NoException

\* A step of a chunk loop is an attempt at a chunk not tried before, or nothing.
LEMMA ShareRefines ==
  ASSUME CallInvariant, WorkersConfined, NEW t \in Threads, Share(t)
  PROVE  [FJ!Next]_FJ!vars
  <1>0. /\ pc \in [Threads -> OwnerStates \cup WorkerStates]
        /\ cursor \in [Threads -> Nat]
        /\ task.chunks \in Nat
        /\ attempts \in [0..(task.chunks - 1) -> Nat]
        /\ W \in Nat \ {0}
        /\ 0 \in Threads
        /\ PoolTypes
    BY WorkersAssumption, TypesAreTypeOK DEF CallInvariant, PoolInvariant, PcTypes, LoopTypes
  <1>1. /\ pc[t] \in Working
        /\ \E here \in Working : pc' = [pc EXCEPT ![t] = here]
    BY DEF Share, ShareStep, RunChunk, ClaimRelay, DropException, PublishRelay,
           Advance, Working
  <1>2. Begun(t) /\ pc[0] \in InFlight /\ pc'[0] \in InFlight
    BY <1>0, <1>1, WorkingHasBegun DEF InFlight
  <1>3. Status = "busy" /\ Status' = "busy"
    BY <1>2, StatusOf DEF Status, Building, Closing, InCall, InFlight, Working
  <1>4. answer' = answer
    BY DEF Share, poolVars
  <1>5. CASE RunChunk(t)
    <2> DEFINE c == cursor[t]
    <2>1. c \in 0..(task.chunks - 1) /\ c % W = t
      BY <1>0, <1>2, <1>5 DEF RunChunk, CallInvariant, GridInv
    <2>2. attempts[c] = 0
      <3>1. ~ Passed(t, c)
        BY <1>0, <1>5 DEF Passed, RunChunk
      <3>2. pc[0] \in InCall
        BY <1>2 DEF InCall
      <3> QED BY <2>1, <3>1, <3>2 DEF CallInvariant, GridInv
    <2>3. attempts' = [attempts EXCEPT ![c] = 1] /\ c \in DOMAIN attempts
      <3>1. attempts' = [attempts EXCEPT ![c] = attempts[c] + 1]
        BY <1>5 DEF RunChunk
      <3>2. attempts[c] + 1 = 1
        BY <2>2
      <3> QED BY <1>0, <2>1, <3>1, <3>2
    <2>4. threw' \in {threw, threw \cup {c}}
      BY <1>5 DEF RunChunk
    <2>5. FJ!Attempt(c)
      BY <1>3, <1>4, <2>2, <2>3, <2>4 DEF FJ!Attempt
    <2> QED
      BY <2>3, <2>5 DEF FJ!Next, FJ!AttemptSome
  <1>6. CASE ClaimRelay(t) \/ DropException(t) \/ PublishRelay(t)
    <2>1. UNCHANGED <<attempts, threw>>
      BY <1>6 DEF ClaimRelay, DropException, PublishRelay
    <2> QED
      BY <1>3, <1>4, <2>1, Stutter
  <1> QED
    BY <1>5, <1>6 DEF Share, ShareStep

\* Every step of the pool is a step of the fork-join contract or a stutter.
LEMMA NextRefines == CallInvariant /\ [Next]_vars => [FJ!Next]_FJ!vars
  <1> SUFFICES ASSUME CallInvariant, [Next]_vars PROVE [FJ!Next]_FJ!vars
    OBVIOUS
  <1>0. /\ pc \in [Threads -> OwnerStates \cup WorkerStates]
        /\ pc[0] \in OwnerStates
        /\ W \in Nat \ {0}
        /\ 0 \in Threads
        /\ \A w \in Spawned : w \in Threads /\ w # 0
    BY WorkersAssumption, TypesAreTypeOK DEF CallInvariant, PoolInvariant, PcTypes
  <1>1. WorkersConfined
    BY Confinement DEF CallInvariant
  <1>2. ASSUME UNCHANGED <<attempts, threw, answer>>, pc'[0] = pc[0]
        PROVE  [FJ!Next]_FJ!vars
    <2>1. Status' = Status
      BY <1>2 DEF Status
    <2> QED BY <1>2, <2>1, Stutter
  <1> USE <1>0 DEF loopVars, poolVars
  <1>3. CASE AllSpawned \/ PinOwner \/ LatchOpens
    <2>1. /\ UNCHANGED <<attempts, threw, answer>>
          /\ pc[0] \in {"spawn", "pin_owner", "await_latch"}
          /\ pc'[0] \in {"pin_owner", "await_latch", "aggregate"}
      BY <1>3 DEF AllSpawned, PinOwner, LatchOpens, Move
    <2>2. Status = "building" /\ Status' = "building"
      BY <2>1, StatusOf DEF Status, Building, Closing, InCall, InFlight, Working
    <2> QED BY <2>1, <2>2, Stutter
  <1>4. CASE SpawnWorker
    <2>1. spawned + 1 # 0
      BY TypesAreTypeOK DEF CallInvariant, PoolInvariant, PoolTypes
    <2> QED BY <1>2, <1>4, <2>1 DEF SpawnWorker
  <1>5. CASE SpawnFails \/ FinishPinning
    <2>1. /\ UNCHANGED <<attempts, threw, answer>>
          /\ pc[0] \in {"spawn", "aggregate"}
          /\ pc'[0] \in {"unwind", "stop", "ready"}
      BY <1>5 DEF SpawnFails, FinishPinning, Move
    <2>2. Status = "building" /\ Status' \in {"idle", "closing"}
      BY <2>1, StatusOf DEF Status, Building, Closing, InCall, InFlight, Working
    <2> QED BY <2>1, <2>2 DEF FJ!Next, FJ!Built
  <1>6. CASE UnwindStopRequest \/ RequestStop
    BY <1>2, <1>6 DEF UnwindStopRequest, RequestStop
  <1>7. CASE SetStopping \/ StopRelease \/ StopReleased
    <2>1. /\ UNCHANGED <<attempts, threw, answer>>
          /\ pc[0] \in {"stop", "stop_release", "at_stop_release"}
          /\ pc'[0] \in {"stop_release", "at_stop_release", "join"}
      BY <1>7 DEF SetStopping, StopRelease, StopReleased, Move, ArriveRelease
    <2>2. Status = "closing" /\ Status' = "closing"
      BY <2>1, StatusOf DEF Status, Building, Closing, InCall, InFlight, Working
    <2> QED BY <2>1, <2>2, Stutter
  <1>8. CASE JoinWorkers \/ UnwindDone
    <2>1. /\ UNCHANGED <<attempts, threw, answer>>
          /\ pc[0] \in {"join", "unwind"} /\ pc'[0] = "gone"
      BY <1>8 DEF JoinWorkers, UnwindDone, Move
    <2>2. Status = "closing" /\ Status' = "gone"
      BY <2>1, StatusOf DEF Status, Building, Closing, InCall, InFlight, Working
    <2> QED BY <2>1, <2>2 DEF FJ!Next, FJ!Closed
  <1>9. CASE OwnerRelease \/ OwnerReleased \/ OwnerShareDone \/ OwnerCollect \/ OwnerCollected
    <2>1. /\ UNCHANGED <<attempts, threw, answer>>
          /\ pc[0] \in {"release", "at_release", "execute", "collect", "at_collect"}
          /\ pc'[0] \in {"at_release", "execute", "rethrow", "collect", "at_collect"}
      BY <1>9
         DEF OwnerRelease, OwnerReleased, OwnerShareDone, ShareDone, OwnerCollect,
             OwnerCollected, Move, ArriveRelease, ArriveCollect
    <2>2. Status = "busy" /\ Status' = "busy"
      BY <2>1, StatusOf DEF Status, Building, Closing, InCall, InFlight, Working
    <2> QED BY <2>1, <2>2, Stutter
  <1>10. CASE Rethrow
    <2>1. /\ UNCHANGED <<attempts, threw>>
          /\ pc[0] = "rethrow" /\ pc'[0] = "ready"
          /\ answer' = IF relay.captured THEN relay.first ELSE NoException
      BY <1>10 DEF Rethrow, Delivered
    <2>2. Status = "busy" /\ Status' = "idle"
      BY <2>1, StatusOf DEF Status, Building, Closing, InCall, InFlight, Working
    <2>3. \A k \in DOMAIN attempts : attempts[k] = 1
      BY <2>1, AllChunksAttempted
    <2>4. /\ relay.captured <=> threw # {}
          /\ relay.captured => relay.first \in threw
      BY <1>1, <2>1, JoinRelay
    <2> QED
      BY <2>1, <2>2, <2>3, <2>4 DEF FJ!Next, FJ!Return, FJ!NoException
  <1>11. ASSUME NEW t \in Threads, Share(t) PROVE [FJ!Next]_FJ!vars
    BY <1>1, <1>11, ShareRefines
  <1>12. CASE Destroy
    <2>1. /\ UNCHANGED <<attempts, threw, answer>>
          /\ pc[0] = "ready" /\ pc'[0] = "stop"
      BY <1>12 DEF Destroy, Move
    <2>2. Status = "idle" /\ Status' = "closing"
      BY <2>1, StatusOf DEF Status, Building, Closing, InCall, InFlight, Working
    <2> QED BY <2>1, <2>2 DEF FJ!Next, FJ!Close
  <1>13. ASSUME NEW kind \in {"for", "reduce"}, NEW n \in Sizes, CallNothing(kind, n)
         PROVE  [FJ!Next]_FJ!vars
    <2>1. /\ UNCHANGED <<attempts, threw>> /\ answer' = NoException
          /\ pc[0] = "ready" /\ pc' = pc
      BY <1>13 DEF CallNothing
    <2>2. Status = "idle" /\ Status' = Status
      BY <2>1, StatusOf DEF Status
    <2> QED BY <2>1, <2>2 DEF FJ!Next, FJ!CallNothing, FJ!NoException
  <1>14. ASSUME NEW kind \in {"for", "reduce"}, NEW n \in Sizes, Call(kind, n)
         PROVE  [FJ!Next]_FJ!vars
    <2>1. /\ Grid(kind, n) \in {Grid(l, m) : l \in {"for", "reduce"}, m \in Sizes} \ {0}
          /\ attempts' = [k \in 0..(Grid(kind, n) - 1) |-> 0]
          /\ threw' = {} /\ answer' = Pending
      BY <1>14 DEF Call, Post, NoAttempts
    <2>2. pc[0] = "ready" /\ pc'[0] \in {"execute", "release"}
      BY <1>14 DEF Call
    <2>3. Status = "idle" /\ Status' = "busy"
      BY <2>2, StatusOf DEF Status, Building, Closing, InCall, InFlight, Working
    <2>4. FJ!Call(Grid(kind, n))
      BY <2>1, <2>3 DEF FJ!Call, FJ!Pending
    <2> QED BY <2>1, <2>4 DEF FJ!Next
  <1>15. ASSUME NEW w \in Spawned,
                PinWorker(w) \/ CountDown(w) \/ WorkerRelease(w) \/ WorkerReleased(w)
                  \/ WorkerCollect(w) \/ WorkerCollected(w)
         PROVE  [FJ!Next]_FJ!vars
    <2>1. UNCHANGED <<attempts, threw, answer>> /\ pc'[0] = pc[0]
      BY <1>15
         DEF PinWorker, CountDown, WorkerRelease, WorkerReleased, WorkerCollect,
             WorkerCollected, Move, ArriveRelease, ArriveCollect
    <2> QED BY <1>2, <2>1
  <1>16. CASE OwnerStep
    BY <1>3, <1>4, <1>5, <1>6, <1>7, <1>8, <1>9, <1>10, <1>11, <1>16 DEF OwnerStep
  <1>17. CASE ClientStep
    BY <1>12, <1>13, <1>14, <1>17 DEF ClientStep
  <1>18. CASE \E w \in Spawned : WorkerStep(w)
    BY <1>11, <1>15, <1>18 DEF WorkerStep
  <1>19. CASE UNCHANGED vars
    BY <1>2, <1>19 DEF vars
  <1> QED
    BY <1>16, <1>17, <1>18, <1>19 DEF Next

\* Every behaviour of the pool of two barriers is a behaviour the fork-join
\* contract allows: each chunk once, the caller back only after the last, with
\* an exception of this very call exactly when one was thrown.
THEOREM JthreadPoolImplementsForkJoin == Spec => ImplementsForkJoin
  BY InitRefines, NextRefines, CallInvariantHolds, PTL
     DEF Spec, ImplementsForkJoin, FJ!Spec

=============================================================================
