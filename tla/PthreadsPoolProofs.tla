-------------------------- MODULE PthreadsPoolProofs --------------------------
(***************************************************************************)
(* Theorems about PthreadsPool, for every number of workers, every set of  *)
(* sizes and every bound on the number of dispatches.                      *)
(***************************************************************************)
EXTENDS PthreadsPool, PartitionProofs, FiniteSetTheorems, TLAPS

USE DEF Threads, Spawned, Pending, NoException

\* A grid is a natural number of chunks, and only an empty range has none.
LEMMA GridShape ==
  ASSUME NEW kind \in {"for", "reduce"}, NEW n \in Int
  PROVE  /\ Grid(kind, n) \in Nat
         /\ Grid(kind, n) > 0 => n > 0
  <1> DEFINE per == Greater(ChunksPerWorker, 1)
  <1>1. per \in Nat /\ per >= 1
    BY ConfigAssumption DEF Greater
  <1> HIDE DEF per
  <1>2. W * per \in Nat
    BY <1>1, WorkersAssumption
  <1>3. Grid(kind, n) =
          IF kind = "for"
          THEN IF n <= 0 \/ W <= 0 THEN 0
               ELSE IF Schedule = "Static" THEN Lesser(W, n) ELSE Lesser(W * per, n)
          ELSE IF n <= 0 THEN 0 ELSE Lesser(ReductionCap, n)
    BY DEF Grid, for_chunk_count, reduction_chunk_count, per
  <1> QED
    BY <1>2, <1>3, WorkersAssumption, ConfigAssumption DEF Lesser

-----------------------------------------------------------------------------
(* Type correctness, one part of the state at a time. *)

\* One thread moves to one of its own states.
LEMMA PcMove ==
  ASSUME PcTypeOK, NEW t \in Threads, NEW here,
         t = 0 => here \in OwnerStates,
         t # 0 => here \in WorkerStates,
         pc' = [pc EXCEPT ![t] = here]
  PROVE  PcTypeOK'
  BY WorkersAssumption DEF PcTypeOK

\* A worker moves and, in the same critical section, signals the owner.
LEMMA PcMoveAndSignal ==
  ASSUME PcTypeOK, NEW w \in Spawned, NEW here \in WorkerStates,
         NEW there \in OwnerStates,
         pc' = [pc EXCEPT ![w] = here, ![0] = there]
  PROVE  PcTypeOK'
  BY WorkersAssumption DEF PcTypeOK

\* The states the actions below name belong to the thread that enters them.
LEMMA StateNames ==
  /\ {"spawn", "stop", "wait_pins", "asleep_pins", "aggregate", "ready", "join",
      "gone", "dispatch", "execute", "caught", "publish", "collect",
      "asleep_collect", "rethrow"} \subseteq OwnerStates
  /\ {"pin", "report", "poll", "asleep", "exited", "execute", "caught",
      "publish"} \subseteq WorkerStates
  BY DEF OwnerStates, WorkerStates, Building, InCall, InFlight, Working

LEMMA PcTypeStep == PcTypeOK /\ PoolTypeOK /\ [Next]_vars => PcTypeOK'
  <1> SUFFICES ASSUME PcTypeOK, PoolTypeOK, [Next]_vars PROVE PcTypeOK'
    OBVIOUS
  <1> USE WorkersAssumption
  <1>0. 0 \in Threads
    OBVIOUS
  <1>1. CASE PinOwner
    <2>1. pc' = [pc EXCEPT ![0] = "spawn"]
      BY <1>1 DEF PinOwner
    <2> QED BY <1>0, <2>1, StateNames, PcMove
  <1>2. CASE SpawnWorker
    <2>1. pc' = [pc EXCEPT ![spawned + 1] = "pin"]
      BY <1>2 DEF SpawnWorker
    <2>2. spawned + 1 \in Threads /\ spawned + 1 # 0
      BY <1>2 DEF SpawnWorker, PoolTypeOK
    <2> QED BY <2>1, <2>2, StateNames, PcMove
  <1>3. CASE SpawnFails
    <2>1. pc' = [pc EXCEPT ![0] = "stop"]
      BY <1>3 DEF SpawnFails
    <2> QED BY <1>0, <2>1, StateNames, PcMove
  <1>4. CASE AllSpawned
    <2>1. pc' = [pc EXCEPT ![0] = "wait_pins"]
      BY <1>4 DEF AllSpawned
    <2> QED BY <1>0, <2>1, StateNames, PcMove
  <1>5. CASE AwaitPins
    <2>1. \E here \in {"asleep_pins", "aggregate"} : pc' = [pc EXCEPT ![0] = here]
      BY <1>5 DEF AwaitPins
    <2> QED BY <1>0, <2>1, StateNames, PcMove
  <1>6. CASE FinishPinning
    <2>1. \E here \in {"stop", "ready"} : pc' = [pc EXCEPT ![0] = here]
      BY <1>6 DEF FinishPinning
    <2> QED BY <1>0, <2>1, StateNames, PcMove
  <1>7. CASE Destroy
    <2>1. pc' = [pc EXCEPT ![0] = "stop"]
      BY <1>7 DEF Destroy
    <2> QED BY <1>0, <2>1, StateNames, PcMove
  <1>8. CASE StopWorkers
    <2>1. "join" \in OwnerStates /\ "poll" \in WorkerStates
      BY StateNames
    <2>2. pc' = [t \in Threads |->
                   IF t = 0 THEN "join"
                   ELSE IF pc[t] = "asleep" THEN "poll" ELSE pc[t]]
      BY <1>8 DEF StopWorkers, WakeWorkers
    <2> QED BY <2>1, <2>2 DEF PcTypeOK
  <1>9. CASE Dispatch
    <2>1. "execute" \in OwnerStates /\ "poll" \in WorkerStates
      BY StateNames
    <2>2. pc' = [t \in Threads |->
                   IF t = 0 THEN "execute"
                   ELSE IF pc[t] = "asleep" THEN "poll" ELSE pc[t]]
      BY <1>9 DEF Dispatch, WakeWorkers
    <2> QED BY <2>1, <2>2 DEF PcTypeOK
  <1>10. CASE JoinWorkers
    <2>1. pc' = [pc EXCEPT ![0] = "gone"]
      BY <1>10 DEF JoinWorkers
    <2> QED BY <1>0, <2>1, StateNames, PcMove
  <1>11. ASSUME NEW kind \in {"for", "reduce"}, NEW n \in Sizes,
                CallNothing(kind, n) \/ Call(kind, n)
         PROVE  PcTypeOK'
    <2>1. CASE CallNothing(kind, n)
      BY <2>1 DEF CallNothing, PcTypeOK
    <2>2. CASE Call(kind, n)
      <3>1. \E here \in {"execute", "dispatch"} : pc' = [pc EXCEPT ![0] = here]
        BY <2>2 DEF Call
      <3> QED BY <1>0, <3>1, StateNames, PcMove
    <2> QED BY <1>11, <2>1, <2>2
  <1>12. CASE OwnerShareDone
    <2>1. \E here \in {"rethrow", "collect"} : pc' = [pc EXCEPT ![0] = here]
      BY <1>12 DEF OwnerShareDone
    <2> QED BY <1>0, <2>1, StateNames, PcMove
  <1>13. CASE Collect
    <2>1. \E here \in {"asleep_collect", "rethrow"} : pc' = [pc EXCEPT ![0] = here]
      BY <1>13 DEF Collect
    <2> QED BY <1>0, <2>1, StateNames, PcMove
  <1>14. CASE Rethrow
    <2>1. pc' = [pc EXCEPT ![0] = "ready"]
      BY <1>14 DEF Rethrow
    <2> QED BY <1>0, <2>1, StateNames, PcMove
  <1>15. ASSUME NEW w \in Spawned, PinWorker(w) PROVE PcTypeOK'
    <2>1. w \in Threads /\ w # 0 /\ pc' = [pc EXCEPT ![w] = "report"]
      BY <1>15 DEF PinWorker
    <2> QED BY <2>1, StateNames, PcMove
  <1>16. ASSUME NEW w \in Spawned, ReportPin(w) PROVE PcTypeOK'
    <2>1. pc[0] \in OwnerStates /\ "wait_pins" \in OwnerStates /\ "poll" \in WorkerStates
      BY StateNames DEF PcTypeOK
    <2>2. \E there \in {pc[0], "wait_pins"} : pc' = [pc EXCEPT ![w] = "poll", ![0] = there]
      <3>1. pc \in [Threads -> OwnerStates \cup WorkerStates] /\ w # 0
        BY DEF PcTypeOK
      <3> QED BY <1>0, <1>16, <3>1 DEF ReportPin
    <2> QED BY <2>1, <2>2, PcMoveAndSignal
  <1>17. ASSUME NEW w \in Spawned, FinishShare(w) PROVE PcTypeOK'
    <2>1. pc[0] \in OwnerStates /\ "collect" \in OwnerStates /\ "poll" \in WorkerStates
      BY StateNames DEF PcTypeOK
    <2>2. \E there \in {pc[0], "collect"} : pc' = [pc EXCEPT ![w] = "poll", ![0] = there]
      <3>1. pc \in [Threads -> OwnerStates \cup WorkerStates] /\ w # 0
        BY DEF PcTypeOK
      <3> QED BY <1>0, <1>17, <3>1 DEF FinishShare
    <2> QED BY <2>1, <2>2, PcMoveAndSignal
  <1>18. ASSUME NEW w \in Spawned, Sleep(w) PROVE PcTypeOK'
    <2>1. w \in Threads /\ w # 0 /\ pc' = [pc EXCEPT ![w] = "asleep"]
      BY <1>18 DEF Sleep
    <2> QED BY <2>1, StateNames, PcMove
  <1>19. ASSUME NEW w \in Spawned, Exit(w) PROVE PcTypeOK'
    <2>1. w \in Threads /\ w # 0 /\ pc' = [pc EXCEPT ![w] = "exited"]
      BY <1>19 DEF Exit
    <2> QED BY <2>1, StateNames, PcMove
  <1>20. ASSUME NEW w \in Spawned, TakeTask(w) PROVE PcTypeOK'
    <2>1. w \in Threads /\ w # 0 /\ pc' = [pc EXCEPT ![w] = "execute"]
      BY <1>20 DEF TakeTask
    <2> QED BY <2>1, StateNames, PcMove
  <1>21. ASSUME NEW t \in Threads, Share(t) PROVE PcTypeOK'
    <2>1. \E here \in {"execute", "caught", "publish"} : pc' = [pc EXCEPT ![t] = here]
      BY <1>21 DEF Share, ShareStep, RunChunk, ClaimRelay, DropException, PublishRelay, Advance
    <2> QED BY <2>1, StateNames, PcMove
  <1>22. ASSUME NEW t \in Threads, SpuriousWakeup(t) PROVE PcTypeOK'
    <2>1. \/ pc[t] = "asleep" /\ pc' = [pc EXCEPT ![t] = "poll"]
          \/ pc[t] = "asleep_pins" /\ pc' = [pc EXCEPT ![t] = "wait_pins"]
          \/ pc[t] = "asleep_collect" /\ pc' = [pc EXCEPT ![t] = "collect"]
      BY <1>22 DEF SpuriousWakeup
    <2>2. t = 0 => pc[t] # "asleep"
      BY DEF PcTypeOK, OwnerStates, Building, InCall, InFlight, Working
    <2>3. t # 0 => pc[t] \notin {"asleep_pins", "asleep_collect"}
      BY DEF PcTypeOK, WorkerStates, Working
    <2> QED BY <2>1, <2>2, <2>3, StateNames, PcMove
  <1>23. CASE UNCHANGED vars
    BY <1>23 DEF vars, PcTypeOK
  <1> QED
    BY <1>1, <1>2, <1>3, <1>4, <1>5, <1>6, <1>7, <1>8, <1>9, <1>10, <1>11,
       <1>12, <1>13, <1>14, <1>15, <1>16, <1>17, <1>18, <1>19, <1>20, <1>21,
       <1>22, <1>23
       DEF Next, OwnerStep, ClientStep, WorkerStep, Gone

\* The steps that leave the variables of ChunkLoop alone.
LEMMA LoopTypeStep ==
  LoopTypeOK /\ PcTypeOK /\ PoolTypeOK /\ [Next]_vars => LoopTypeOK'
  <1> SUFFICES ASSUME LoopTypeOK, PoolTypeOK, [Next]_vars PROVE LoopTypeOK'
    OBVIOUS
  <1> USE WorkersAssumption DEF LoopTypeOK
  <1>1. CASE UNCHANGED loopVars
    BY <1>1 DEF loopVars
  <1>2. ASSUME NEW kind \in {"for", "reduce"}, NEW n \in Sizes, Call(kind, n)
        PROVE  LoopTypeOK'
    <2>1. n \in Int /\ Grid(kind, n) \in Nat
      BY SizesAssumption, GridShape
    <2> QED
      BY <1>2, <2>1 DEF Call, Post, NoAttempts
  <1>3. CASE Rethrow
    BY <1>3 DEF Rethrow, RelayAfterRethrow, EmptyRelay
  <1>4. ASSUME NEW w \in Spawned, TakeTask(w) PROVE LoopTypeOK'
    BY <1>4 DEF TakeTask
  <1>5. ASSUME NEW t \in Threads, Share(t) PROVE LoopTypeOK'
    <2>1. CASE RunChunk(t)
      <3>1. cursor[t] \in 0..(task.chunks - 1)
        BY <2>1 DEF RunChunk
      <3>2. attempts' \in [0..(task.chunks - 1) -> Nat]
        BY <2>1, <3>1 DEF RunChunk
      <3>3. cursor' \in [Threads -> Nat]
        <4>1. cursor[t] \in Nat /\ cursor[t] + W \in Nat
          BY <3>1
        <4>2. cursor' = cursor \/ cursor' = [cursor EXCEPT ![t] = cursor[t] + W]
          BY <2>1 DEF RunChunk, Advance
        <4> QED BY <4>1, <4>2
      <3>4. threw' \subseteq Nat
        <4>1. threw' = threw \/ threw' = threw \cup {cursor[t]}
          BY <2>1 DEF RunChunk
        <4>2. cursor[t] \in Nat
          OBVIOUS
        <4> QED BY <4>1, <4>2
      <3>5. task' = task /\ relay' = relay
        BY <2>1 DEF RunChunk
      <3> QED BY <3>2, <3>3, <3>4, <3>5
    <2>2. CASE ClaimRelay(t)
      BY <2>2 DEF ClaimRelay
    <2>3. CASE DropException(t)
      BY <2>3 DEF DropException, Advance
    <2>4. CASE PublishRelay(t)
      <3>1. cursor' \in [Threads -> Nat]
        BY <2>4 DEF PublishRelay, Advance
      <3>2. /\ relay' = [relay EXCEPT !.first = cursor[t], !.captured = TRUE]
            /\ cursor[t] \in Nat
        BY <2>4 DEF PublishRelay
      <3>3. relay' \in [claimed : BOOLEAN, captured : BOOLEAN,
                        first : Nat \cup {NoException}]
        BY <3>2
      <3>4. UNCHANGED <<task, attempts, threw>>
        BY <2>4 DEF PublishRelay
      <3> QED BY <3>1, <3>3, <3>4
    <2> QED
      BY <1>5, <2>1, <2>2, <2>3, <2>4 DEF Share, ShareStep
  <1>6. ASSUME OwnerStep, ~ Rethrow, ~ Share(0) PROVE UNCHANGED loopVars
    BY <1>6
       DEF OwnerStep, loopVars, PinOwner, SpawnWorker, SpawnFails, AllSpawned,
           AwaitPins, FinishPinning, StopWorkers, JoinWorkers, Dispatch,
           OwnerShareDone, Collect
  <1>7. ASSUME NEW w \in Spawned, WorkerStep(w), ~ TakeTask(w), ~ Share(w)
        PROVE  UNCHANGED loopVars
    BY <1>7 DEF WorkerStep, loopVars, PinWorker, ReportPin, Sleep, Exit, FinishShare
  <1>8. ASSUME Destroy \/ Gone \/ UNCHANGED vars PROVE UNCHANGED loopVars
    BY <1>8 DEF Destroy, Gone, vars, loopVars
  <1>9. ASSUME NEW kind \in {"for", "reduce"}, NEW n \in Sizes, CallNothing(kind, n)
        PROVE  UNCHANGED loopVars
    BY <1>9 DEF CallNothing, loopVars
  <1>10. ASSUME NEW t \in Threads, SpuriousWakeup(t) PROVE UNCHANGED loopVars
    BY <1>10 DEF SpuriousWakeup, loopVars
  <1>11. Spawned \subseteq Threads /\ 0 \in Threads
    OBVIOUS
  <1>12. CASE OwnerStep
    BY <1>1, <1>3, <1>5, <1>6, <1>11, <1>12
  <1>13. CASE ClientStep
    BY <1>1, <1>2, <1>8, <1>9, <1>13 DEF ClientStep
  <1>14. CASE \E w \in Spawned : WorkerStep(w)
    BY <1>1, <1>4, <1>5, <1>7, <1>11, <1>14
  <1> QED
    BY <1>1, <1>8, <1>10, <1>12, <1>13, <1>14 DEF Next

\* The steps that leave the pool's own variables alone, and those that do not.
LEMMA PoolTypeStep ==
  PoolTypeOK /\ LoopTypeOK /\ [Next]_vars => PoolTypeOK'
  <1> SUFFICES ASSUME PoolTypeOK, LoopTypeOK, [Next]_vars PROVE PoolTypeOK'
    OBVIOUS
  <1> USE WorkersAssumption DEF PoolTypeOK, Outcomes, PinResults
  <1>1. CASE UNCHANGED poolVars
    BY <1>1 DEF poolVars
  <1>2. CASE PinOwner
    BY <1>2 DEF PinOwner
  <1>3. CASE SpawnWorker
    BY <1>3 DEF SpawnWorker
  <1>4. CASE StopWorkers
    BY <1>4 DEF StopWorkers
  <1>5. CASE Dispatch
    BY <1>5 DEF Dispatch
  <1>6. CASE Rethrow
    BY <1>6 DEF Rethrow, Delivered, LoopTypeOK
  <1>7. ASSUME NEW kind \in {"for", "reduce"}, NEW n \in Sizes,
               CallNothing(kind, n) \/ Call(kind, n)
        PROVE  PoolTypeOK'
    BY <1>7 DEF CallNothing, Call
  <1>8. ASSUME NEW w \in Spawned, PinWorker(w) PROVE PoolTypeOK'
    BY <1>8 DEF PinWorker
  <1>9. ASSUME NEW w \in Spawned, ReportPin(w) PROVE PoolTypeOK'
    BY <1>9 DEF ReportPin
  <1>10. ASSUME NEW w \in Spawned, TakeTask(w) PROVE PoolTypeOK'
    BY <1>10 DEF TakeTask
  <1>11. ASSUME NEW w \in Spawned, FinishShare(w) PROVE PoolTypeOK'
    BY <1>11 DEF FinishShare
  <1> QED
    BY <1>1, <1>2, <1>3, <1>4, <1>5, <1>6, <1>7, <1>8, <1>9, <1>10, <1>11
       DEF Next, OwnerStep, ClientStep, WorkerStep, Gone, vars, poolVars,
           SpawnFails, AllSpawned, AwaitPins, FinishPinning, Destroy,
           JoinWorkers, OwnerShareDone, Collect, Share, Sleep, Exit,
           SpuriousWakeup

LEMMA InitTypeOK == Init => TypeOK
  <1> SUFFICES ASSUME Init PROVE TypeOK
    OBVIOUS
  <1>1. PcTypeOK
    BY WorkersAssumption
       DEF Init, PcTypeOK, OwnerStates, WorkerStates, Building
  <1>2. LoopTypeOK
    BY WorkersAssumption DEF Init, LoopTypeOK, NoTask, NoAttempts, EmptyRelay
  <1>3. /\ pin_outcomes \in [Threads -> Outcomes]
        /\ seen \in [Spawned -> Nat]
    BY DEF Init, Outcomes
  <1>4. spawned \in 0..(W - 1) /\ answer \in Nat \cup {NoException, Pending}
    BY WorkersAssumption DEF Init
  <1>5. generation \in Nat /\ outstanding \in Int /\ pin_reports \in Nat
    BY DEF Init
  <1>6. PoolTypeOK
    BY <1>3, <1>4, <1>5 DEF Init, PoolTypeOK
  <1> QED BY <1>1, <1>2, <1>6 DEF TypeOK

LEMMA NextTypeOK == TypeOK /\ [Next]_vars => TypeOK'
  BY PcTypeStep, LoopTypeStep, PoolTypeStep DEF TypeOK

\* Every variable keeps its type, whatever the interleaving.
THEOREM TypeCorrect == Spec => []TypeOK
  BY InitTypeOK, NextTypeOK, PTL DEF Spec

-----------------------------------------------------------------------------
(* Where the workers are, and what the two counters count. *)

LEMMA SpawnedFinite ==
  /\ IsFiniteSet(Spawned)
  /\ Cardinality(Spawned) = W - 1
  BY WorkersAssumption, FS_Interval

\* The owner finds outstanding_ at zero only when nobody owes it anything, and
\* pin_reports_ at its target only when everybody has reported.
LEMMA CountersMean ==
  ASSUME TypeOK, CountInv
  PROVE  /\ outstanding \in Nat /\ pin_reports \in Nat
         /\ outstanding = 0 => \A w \in Spawned : ~ Owes(w)
         /\ pin_reports >= W - 1 => \A w \in Spawned : Reported(w)
  <1> DEFINE owing == {w \in Spawned : Owes(w)}
             reported == {w \in Spawned : Reported(w)}
  <1>1. /\ owing \subseteq Spawned /\ reported \subseteq Spawned
        /\ outstanding = Cardinality(owing)
        /\ pin_reports = Cardinality(reported)
    BY DEF CountInv, OutstandingExact
  <1> HIDE DEF owing, reported
  <1>2. IsFiniteSet(owing) /\ IsFiniteSet(reported)
    BY <1>1, SpawnedFinite, FS_Subset
  <1>3. outstanding \in Nat /\ pin_reports \in Nat
    BY <1>1, <1>2, FS_CardinalityType
  <1>4. outstanding = 0 => owing = {}
    BY <1>1, <1>2, FS_EmptySet
  <1>5. pin_reports >= W - 1 => reported = Spawned
    <2>1. Cardinality(reported) <= Cardinality(Spawned)
      BY <1>1, SpawnedFinite, FS_Subset
    <2>2. pin_reports >= W - 1 => Cardinality(reported) = Cardinality(Spawned)
      BY <1>1, <1>3, <2>1, SpawnedFinite, WorkersAssumption
    <2> QED BY <1>1, <2>2, SpawnedFinite, FS_Subset
  <1> QED
    BY <1>3, <1>4, <1>5 DEF owing, reported

LEMMA InitPhase == Init => PhaseInv
  BY WorkersAssumption
     DEF Init, PhaseInv, WorkerPhase, InCall, InFlight, Working, Reported

LEMMA PhaseStep ==
  TypeOK /\ PhaseInv /\ CountInv /\ [Next]_vars => PhaseInv'
  <1> SUFFICES ASSUME TypeOK, PhaseInv, CountInv, [Next]_vars PROVE PhaseInv'
    OBVIOUS
  <1>0. /\ pc \in [Threads -> OwnerStates \cup WorkerStates]
        /\ seen \in [Spawned -> Nat]
        /\ generation \in Nat
        /\ spawned \in 0..(W - 1)
        /\ W \in Nat \ {0}
        /\ shutting_down \in BOOLEAN
        /\ 0 \in Threads
    BY WorkersAssumption DEF TypeOK, PcTypeOK, PoolTypeOK
  <1> USE <1>0 DEF PhaseInv, WorkerPhase, InCall, InFlight, Working, Reported,
                   loopVars, poolVars
  <1>1. CASE PinOwner
    BY <1>1 DEF PinOwner
  <1>2. CASE SpawnWorker
    BY <1>2 DEF SpawnWorker
  <1>3. CASE SpawnFails
    BY <1>3 DEF SpawnFails
  <1>4. CASE AllSpawned
    BY <1>4 DEF AllSpawned
  <1>5. CASE AwaitPins
    BY <1>5, CountersMean DEF AwaitPins
  <1>6. CASE FinishPinning
    BY <1>6 DEF FinishPinning
  <1>7. CASE Destroy
    BY <1>7 DEF Destroy
  <1>8. CASE StopWorkers
    BY <1>8 DEF StopWorkers, WakeWorkers
  <1>9. CASE JoinWorkers
    BY <1>9 DEF JoinWorkers
  <1>10. ASSUME NEW kind \in {"for", "reduce"}, NEW n \in Sizes,
                CallNothing(kind, n) \/ Call(kind, n)
         PROVE  PhaseInv'
    BY <1>10 DEF CallNothing, Call
  <1>11. CASE Dispatch
    BY <1>11 DEF Dispatch, WakeWorkers
  <1>12. CASE OwnerShareDone
    BY <1>12 DEF OwnerShareDone, ShareDone
  <1>13. CASE Collect
    BY <1>13, CountersMean DEF Collect, Owes
  <1>14. CASE Rethrow
    BY <1>14 DEF Rethrow
  <1>15. ASSUME NEW w \in Spawned, PinWorker(w) PROVE PhaseInv'
    BY <1>15 DEF PinWorker
  <1>16. ASSUME NEW w \in Spawned, ReportPin(w) PROVE PhaseInv'
    BY <1>16 DEF ReportPin
  <1>17. ASSUME NEW w \in Spawned, Sleep(w) PROVE PhaseInv'
    BY <1>17 DEF Sleep
  <1>18. ASSUME NEW w \in Spawned, Exit(w) PROVE PhaseInv'
    BY <1>18 DEF Exit
  <1>19. ASSUME NEW w \in Spawned, TakeTask(w) PROVE PhaseInv'
    BY <1>19 DEF TakeTask
  <1>20. ASSUME NEW w \in Spawned, FinishShare(w) PROVE PhaseInv'
    BY <1>20 DEF FinishShare, ShareDone
  <1>21. ASSUME NEW t \in Threads, Share(t) PROVE PhaseInv'
    <2>1. /\ pc[t] \in Working
          /\ \E here \in Working : pc' = [pc EXCEPT ![t] = here]
          /\ UNCHANGED poolVars
      BY <1>21 DEF Share, ShareStep, RunChunk, ClaimRelay, DropException,
                   PublishRelay, Advance
    <2> QED BY <2>1
  <1>22. ASSUME NEW t \in Threads, SpuriousWakeup(t) PROVE PhaseInv'
    BY <1>22 DEF SpuriousWakeup
  <1>23. CASE UNCHANGED vars
    BY <1>23 DEF vars
  <1> QED
    BY <1>1, <1>2, <1>3, <1>4, <1>5, <1>6, <1>7, <1>8, <1>9, <1>10, <1>11,
       <1>12, <1>13, <1>14, <1>15, <1>16, <1>17, <1>18, <1>19, <1>20, <1>21,
       <1>22, <1>23
       DEF Next, OwnerStep, ClientStep, WorkerStep, Gone

LEMMA InitCount == Init => CountInv
  <1> SUFFICES ASSUME Init PROVE CountInv
    OBVIOUS
  <1>1. /\ {w \in Spawned : Owes(w)} = {}
        /\ {w \in Spawned : Reported(w)} = {}
    BY WorkersAssumption DEF Init, Owes, Reported, InFlight, Working
  <1>2. Cardinality({}) = 0
    BY FS_EmptySet
  <1>3. pc[0] = "unbuilt" /\ outstanding = 0 /\ pin_reports = 0
    BY WorkersAssumption DEF Init
  <1> QED
    BY <1>1, <1>2, <1>3 DEF CountInv, OutstandingExact

\* A step after which the same workers owe their share.
LEMMA SameDebt ==
  ASSUME OutstandingExact, outstanding' = outstanding,
         \A w \in Spawned : Owes(w)' <=> Owes(w)
  PROVE  OutstandingExact'
  <1>1. {w \in Spawned : Owes(w)}' = {w \in Spawned : Owes(w)}
    OBVIOUS
  <1> QED
    BY <1>1 DEF OutstandingExact

\* outstanding_ counts the workers that have not handed in their share.
LEMMA DebtStep ==
  TypeOK /\ PhaseInv /\ CountInv /\ [Next]_vars => OutstandingExact'
  <1> SUFFICES ASSUME TypeOK, PhaseInv, CountInv, [Next]_vars
               PROVE  OutstandingExact'
    OBVIOUS
  <1>0. /\ pc \in [Threads -> OwnerStates \cup WorkerStates]
        /\ seen \in [Spawned -> Nat]
        /\ generation \in Nat
        /\ W \in Nat \ {0}
        /\ 0 \in Threads
        /\ OutstandingExact
    BY WorkersAssumption DEF TypeOK, PcTypeOK, PoolTypeOK, CountInv
  <1> USE <1>0 DEF Owes, InFlight, Working, loopVars, poolVars
  <1>1. CASE PinOwner \/ SpawnFails \/ AllSpawned \/ AwaitPins \/ FinishPinning
    BY <1>1, SameDebt DEF PinOwner, SpawnFails, AllSpawned, AwaitPins, FinishPinning
  <1>2. CASE SpawnWorker
    BY <1>2, SameDebt DEF SpawnWorker
  <1>3. CASE Destroy \/ StopWorkers \/ JoinWorkers \/ Rethrow
    BY <1>3, SameDebt DEF Destroy, StopWorkers, JoinWorkers, Rethrow, WakeWorkers
  <1>4. ASSUME NEW kind \in {"for", "reduce"}, NEW n \in Sizes,
               CallNothing(kind, n) \/ Call(kind, n)
        PROVE  OutstandingExact'
    <2>1. CASE CallNothing(kind, n)
      BY <2>1, SameDebt DEF CallNothing
    <2>2. CASE Call(kind, n)
      <3>1. CASE W = 1
        <4>1. \A w \in Spawned : Owes(w)' <=> Owes(w)
          BY <3>1
        <4> QED BY <2>2, <4>1, SameDebt DEF Call
      <3>2. CASE W # 1
        BY <2>2, <3>2, SameDebt DEF Call
      <3> QED BY <3>1, <3>2
    <2> QED BY <1>4, <2>1, <2>2
  <1>5. CASE Dispatch
    <2>1. \A w \in Spawned : Owes(w)'
      <3>1. \A w \in Spawned : seen[w] = generation
        BY <1>5 DEF Dispatch, PhaseInv, WorkerPhase
      <3> QED BY <1>5, <3>1 DEF Dispatch, WakeWorkers
    <2>2. {w \in Spawned : Owes(w)}' = Spawned
      BY <2>1
    <2> QED
      BY <1>5, <2>2, SpawnedFinite DEF Dispatch, OutstandingExact
  <1>6. CASE OwnerShareDone
    <2>1. CASE W = 1
      <3>1. \A w \in Spawned : Owes(w)' <=> Owes(w)
        BY <2>1
      <3> QED BY <1>6, <3>1, SameDebt DEF OwnerShareDone
    <2>2. CASE W # 1
      BY <1>6, <2>2, SameDebt DEF OwnerShareDone, ShareDone
    <2> QED BY <2>1, <2>2
  <1>7. CASE Collect
    BY <1>7, CountersMean, SameDebt DEF Collect
  <1>8. ASSUME NEW w \in Spawned,
               PinWorker(w) \/ ReportPin(w) \/ Sleep(w) \/ Exit(w)
        PROVE  OutstandingExact'
    BY <1>8, SameDebt DEF PinWorker, ReportPin, Sleep, Exit
  <1>9. ASSUME NEW w \in Spawned, TakeTask(w) PROVE OutstandingExact'
    <2>1. pc[0] \in InFlight
      BY <1>9 DEF TakeTask, PhaseInv, WorkerPhase
    <2> QED
      BY <1>9, <2>1, SameDebt DEF TakeTask
  <1>10. ASSUME NEW w \in Spawned, FinishShare(w) PROVE OutstandingExact'
    <2> DEFINE owing == {v \in Spawned : Owes(v)}
    <2>1. Owes(w)
      BY <1>10 DEF FinishShare, ShareDone, PhaseInv, WorkerPhase
    <2>2. owing' = owing \ {w}
      <3>1. ~ Owes(w)'
        BY <1>10 DEF FinishShare, ShareDone, PhaseInv, WorkerPhase
      <3>2. \A v \in Spawned \ {w} : Owes(v)' <=> Owes(v)
        BY <1>10 DEF FinishShare, ShareDone, PhaseInv, WorkerPhase
      <3> QED BY <3>1, <3>2
    <2>3. IsFiniteSet(owing) /\ w \in owing
      BY <2>1, SpawnedFinite, FS_Subset
    <2>4. Cardinality(owing \ {w}) = Cardinality(owing) - 1
      BY <2>3, FS_RemoveElement
    <2>5. outstanding' = outstanding - 1 /\ outstanding = Cardinality(owing)
      BY <1>10 DEF FinishShare, OutstandingExact
    <2> QED
      BY <2>2, <2>4, <2>5 DEF OutstandingExact
  <1>11. ASSUME NEW t \in Threads, Share(t) PROVE OutstandingExact'
    <2>1. /\ pc[t] \in Working
          /\ \E here \in Working : pc' = [pc EXCEPT ![t] = here]
          /\ UNCHANGED poolVars
      BY <1>11 DEF Share, ShareStep, RunChunk, ClaimRelay, DropException,
                   PublishRelay, Advance
    <2> QED BY <2>1, SameDebt
  <1>12. ASSUME NEW t \in Threads, SpuriousWakeup(t) PROVE OutstandingExact'
    BY <1>12, SameDebt DEF SpuriousWakeup
  <1>13. CASE UNCHANGED vars
    BY <1>13, SameDebt DEF vars
  <1> QED
    BY <1>1, <1>2, <1>3, <1>4, <1>5, <1>6, <1>7, <1>8, <1>9, <1>10, <1>11,
       <1>12, <1>13
       DEF Next, OwnerStep, ClientStep, WorkerStep, Gone

\* A step after which the same workers have reported.
LEMMA SameReports ==
  ASSUME pin_reports = Cardinality({w \in Spawned : Reported(w)}),
         pin_reports' = pin_reports,
         \A w \in Spawned : Reported(w)' <=> Reported(w)
  PROVE  pin_reports' = Cardinality({w \in Spawned : Reported(w)})'
  <1>1. {w \in Spawned : Reported(w)}' = {w \in Spawned : Reported(w)}
    OBVIOUS
  <1> QED
    BY <1>1

\* pin_reports_ counts the workers that have reported what their pinning did.
LEMMA ReportStep ==
  TypeOK /\ PhaseInv /\ CountInv /\ [Next]_vars
    => pin_reports' = Cardinality({w \in Spawned : Reported(w)})'
  <1> SUFFICES ASSUME TypeOK, PhaseInv, CountInv, [Next]_vars
               PROVE  pin_reports' = Cardinality({w \in Spawned : Reported(w)})'
    OBVIOUS
  <1>0. /\ pc \in [Threads -> OwnerStates \cup WorkerStates]
        /\ spawned \in 0..(W - 1)
        /\ W \in Nat \ {0}
        /\ 0 \in Threads
        /\ pin_reports = Cardinality({w \in Spawned : Reported(w)})
    BY WorkersAssumption DEF TypeOK, PcTypeOK, PoolTypeOK, CountInv
  <1> USE <1>0 DEF Reported, loopVars, poolVars
  <1>1. ASSUME NEW w \in Spawned, ReportPin(w)
        PROVE  pin_reports' = Cardinality({v \in Spawned : Reported(v)})'
    <2> DEFINE reported == {v \in Spawned : Reported(v)}
    <2>1. reported' = reported \cup {w} /\ w \notin reported
      BY <1>1 DEF ReportPin
    <2>2. IsFiniteSet(reported)
      BY SpawnedFinite, FS_Subset
    <2>3. Cardinality(reported \cup {w}) = Cardinality(reported) + 1
      <3> HIDE DEF reported
      <3> QED BY <2>1, <2>2, FS_AddElement
    <2>4. pin_reports' = pin_reports + 1
      BY <1>1 DEF ReportPin
    <2> QED
      BY <2>1, <2>3, <2>4
  <1>2. CASE OwnerStep /\ ~ SpawnWorker /\ ~ Share(0)
    BY <1>2, SameReports
       DEF OwnerStep, PinOwner, SpawnFails, AllSpawned, AwaitPins,
           FinishPinning, StopWorkers, JoinWorkers, Dispatch, OwnerShareDone,
           Collect, Rethrow, WakeWorkers
  <1>3. CASE SpawnWorker
    <2>1. pc[spawned + 1] = "unborn" /\ spawned + 1 \in Spawned
      BY <1>3 DEF SpawnWorker, PhaseInv, WorkerPhase
    <2> QED
      BY <1>3, <2>1, SameReports DEF SpawnWorker
  <1>4. ASSUME NEW t \in Threads, Share(t)
        PROVE  pin_reports' = Cardinality({v \in Spawned : Reported(v)})'
    <2>1. /\ pc[t] \in Working
          /\ \E here \in Working : pc' = [pc EXCEPT ![t] = here]
          /\ UNCHANGED poolVars
      BY <1>4 DEF Share, ShareStep, RunChunk, ClaimRelay, DropException,
                  PublishRelay, Advance, Working
    <2> QED BY <2>1, SameReports DEF Working
  <1>5. CASE ClientStep
    BY <1>5, SameReports DEF ClientStep, Destroy, CallNothing, Call
  <1>6. ASSUME NEW w \in Spawned, WorkerStep(w), ~ ReportPin(w), ~ Share(w)
        PROVE  pin_reports' = Cardinality({v \in Spawned : Reported(v)})'
    BY <1>6, SameReports
       DEF WorkerStep, PinWorker, Sleep, Exit, TakeTask, FinishShare, ShareDone
  <1>7. ASSUME NEW t \in Threads, SpuriousWakeup(t)
        PROVE  pin_reports' = Cardinality({v \in Spawned : Reported(v)})'
    BY <1>7, SameReports DEF SpuriousWakeup
  <1>8. CASE UNCHANGED vars
    BY <1>8, SameReports DEF vars
  <1>9. Spawned \subseteq Threads
    OBVIOUS
  <1> QED
    BY <1>1, <1>2, <1>3, <1>4, <1>5, <1>6, <1>7, <1>8, <1>9 DEF Next, Gone

\* The owner sleeps on a counter only while a signal is still to come.
LEMMA SleepStep ==
  TypeOK /\ PhaseInv /\ CountInv /\ [Next]_vars
    => /\ (pc[0] = "asleep_collect" => outstanding > 0)'
       /\ (pc[0] = "asleep_pins" => pin_reports < W - 1)'
  <1> SUFFICES ASSUME TypeOK, PhaseInv, CountInv, [Next]_vars
               PROVE  /\ (pc[0] = "asleep_collect" => outstanding > 0)'
                      /\ (pc[0] = "asleep_pins" => pin_reports < W - 1)'
    OBVIOUS
  <1>0. /\ pc \in [Threads -> OwnerStates \cup WorkerStates]
        /\ spawned \in 0..(W - 1)
        /\ W \in Nat \ {0}
        /\ 0 \in Threads
        /\ outstanding \in Nat /\ pin_reports \in Nat
        /\ pc[0] = "asleep_collect" => outstanding > 0
        /\ pc[0] = "asleep_pins" => pin_reports < W - 1
    BY WorkersAssumption, CountersMean DEF TypeOK, PcTypeOK, PoolTypeOK, CountInv
  <1> USE <1>0 DEF loopVars, poolVars
  <1>1. CASE OwnerStep /\ ~ SpawnWorker /\ ~ Share(0)
    BY <1>1
       DEF OwnerStep, PinOwner, SpawnFails, AllSpawned, AwaitPins,
           FinishPinning, StopWorkers, JoinWorkers, Dispatch, OwnerShareDone,
           Collect, Rethrow, WakeWorkers
  <1>2. CASE SpawnWorker
    BY <1>2 DEF SpawnWorker
  <1>3. CASE ClientStep
    BY <1>3 DEF ClientStep, Destroy, CallNothing, Call
  <1>4. ASSUME NEW t \in Threads, Share(t)
        PROVE  /\ (pc[0] = "asleep_collect" => outstanding > 0)'
               /\ (pc[0] = "asleep_pins" => pin_reports < W - 1)'
    <2>1. /\ \E here \in Working : pc' = [pc EXCEPT ![t] = here]
          /\ UNCHANGED poolVars
      BY <1>4 DEF Share, ShareStep, RunChunk, ClaimRelay, DropException,
                  PublishRelay, Advance, Working
    <2> QED BY <2>1 DEF Working
  <1>5. ASSUME NEW w \in Spawned, WorkerStep(w), ~ Share(w)
        PROVE  /\ (pc[0] = "asleep_collect" => outstanding > 0)'
               /\ (pc[0] = "asleep_pins" => pin_reports < W - 1)'
    BY <1>5
       DEF WorkerStep, PinWorker, ReportPin, Sleep, Exit, TakeTask, FinishShare
  <1>6. ASSUME NEW t \in Threads, SpuriousWakeup(t)
        PROVE  /\ (pc[0] = "asleep_collect" => outstanding > 0)'
               /\ (pc[0] = "asleep_pins" => pin_reports < W - 1)'
    BY <1>6 DEF SpuriousWakeup
  <1>7. CASE UNCHANGED vars
    BY <1>7 DEF vars
  <1>8. Spawned \subseteq Threads
    OBVIOUS
  <1> QED
    BY <1>1, <1>2, <1>3, <1>4, <1>5, <1>6, <1>7, <1>8 DEF Next, Gone


LEMMA CountStep ==
  TypeOK /\ PhaseInv /\ CountInv /\ [Next]_vars => CountInv'
  BY DebtStep, ReportStep, SleepStep DEF CountInv

\* The invariant the counting properties rest on.
LEMMA PhaseAndCount == Spec => [](TypeOK /\ PhaseInv /\ CountInv)
  <1>1. Init => TypeOK /\ PhaseInv /\ CountInv
    BY InitTypeOK, InitPhase, InitCount
  <1>2. TypeOK /\ PhaseInv /\ CountInv /\ [Next]_vars
          => (TypeOK /\ PhaseInv /\ CountInv)'
    BY NextTypeOK, PhaseStep, CountStep
  <1> QED
    BY <1>1, <1>2, PTL DEF Spec

\* No worker runs a chunk once the run_task that released it has come back.
THEOREM PoolConfinesWorkers == Spec => []WorkersConfined
  <1>1. PhaseInv => WorkersConfined
    BY DEF PhaseInv, WorkerPhase, WorkersConfined
  <1> QED
    BY <1>1, PhaseAndCount, PTL

\* outstanding_ is the number of workers the owner still waits for.
THEOREM PoolCountsOutstanding == Spec => []OutstandingExact
  <1>1. CountInv => OutstandingExact
    BY DEF CountInv
  <1> QED
    BY <1>1, PhaseAndCount, PTL

\* Nobody ever sleeps on a condition variable whose condition already holds.
THEOREM PoolLosesNoWakeup == Spec => []NoLostWakeup
  <1>1. PhaseInv /\ CountInv => NoLostWakeup
    BY DEF PhaseInv, WorkerPhase, CountInv, NoLostWakeup
  <1> QED
    BY <1>1, PhaseAndCount, PTL

\* A worker takes every generation, one after the other.
THEOREM PoolSkipsNoDispatch == Spec => NoDispatchSkipped
  <1>1. TypeOK /\ PhaseInv /\ [Next]_vars
          => [\A w \in Spawned : seen'[w] # seen[w] => seen'[w] = seen[w] + 1]_vars
    <2> SUFFICES ASSUME TypeOK, PhaseInv, [Next]_vars, NEW w \in Spawned,
                        seen'[w] # seen[w]
                 PROVE  seen'[w] = seen[w] + 1
      OBVIOUS
    <2>1. seen \in [Spawned -> Nat] /\ generation \in Nat
      BY DEF TypeOK, PoolTypeOK
    <2>2. seen' # seen
      OBVIOUS
    <2>3. PICK v \in Spawned : TakeTask(v)
      BY <2>2
         DEF Next, OwnerStep, ClientStep, WorkerStep, Gone, vars, poolVars,
             PinOwner, SpawnWorker, SpawnFails, AllSpawned, AwaitPins,
             FinishPinning, StopWorkers, JoinWorkers, Dispatch, Share,
             OwnerShareDone, Collect, Rethrow, Destroy, CallNothing, Call,
             PinWorker, ReportPin, Sleep, Exit, FinishShare, SpuriousWakeup
    <2>4. seen'[v] = generation /\ seen[v] # generation /\ v = w
      BY <2>1, <2>3 DEF TakeTask
    <2>5. seen[w] \in {generation - 1, generation}
      BY <2>3, <2>4 DEF TakeTask, PhaseInv, WorkerPhase
    <2> QED
      BY <2>1, <2>4, <2>5
  <1> QED
    BY <1>1, PhaseAndCount, PTL DEF Spec, NoDispatchSkipped

-----------------------------------------------------------------------------
(* Pinning. *)

LEMMA PinStep ==
  TypeOK /\ PhaseInv /\ PinnedPoolIsBound /\ [Next]_vars => PinnedPoolIsBound'
  <1> SUFFICES ASSUME TypeOK, PhaseInv, PinnedPoolIsBound, [Next]_vars
               PROVE  PinnedPoolIsBound'
    OBVIOUS
  <1>0. /\ pc \in [Threads -> OwnerStates \cup WorkerStates]
        /\ pc[0] \in OwnerStates
        /\ W \in Nat \ {0}
        /\ 0 \in Threads
    BY WorkersAssumption DEF TypeOK, PcTypeOK
  <1> DEFINE serving == InCall \cup {"ready"}
  <1>1. ASSUME pc'[0] \in serving => pc[0] \in serving,
               UNCHANGED <<pinRequested, pin_outcomes>>
        PROVE  PinnedPoolIsBound'
    BY <1>1 DEF PinnedPoolIsBound
  <1> USE <1>0 DEF InCall, InFlight, Working, loopVars, poolVars
  <1>2. CASE FinishPinning
    BY <1>2 DEF FinishPinning, PinnedPoolIsBound
  <1>3. CASE OwnerStep /\ ~ FinishPinning /\ ~ PinOwner /\ ~ Share(0)
    BY <1>1, <1>3
       DEF OwnerStep, SpawnWorker, SpawnFails, AllSpawned, AwaitPins,
           StopWorkers, JoinWorkers, Dispatch, OwnerShareDone, Collect, Rethrow,
           WakeWorkers, ShareDone
  <1>4. CASE PinOwner
    BY <1>4 DEF PinOwner, PinnedPoolIsBound
  <1>5. CASE ClientStep
    BY <1>1, <1>5 DEF ClientStep, Destroy, CallNothing, Call
  <1>6. ASSUME NEW t \in Threads, Share(t) PROVE PinnedPoolIsBound'
    <2>1. /\ pc[t] \in Working
          /\ \E here \in Working : pc' = [pc EXCEPT ![t] = here]
          /\ UNCHANGED poolVars
      BY <1>6 DEF Share, ShareStep, RunChunk, ClaimRelay, DropException,
                  PublishRelay, Advance
    <2> QED BY <1>1, <2>1
  <1>7. ASSUME NEW w \in Spawned, PinWorker(w) PROVE PinnedPoolIsBound'
    <2>1. pc[0] \notin serving
      BY <1>7 DEF PinWorker, PhaseInv, WorkerPhase, Reported
    <2>2. pc'[0] = pc[0]
      BY <1>7 DEF PinWorker
    <2> QED BY <2>1, <2>2 DEF PinnedPoolIsBound
  <1>8. ASSUME NEW w \in Spawned, WorkerStep(w), ~ PinWorker(w), ~ Share(w)
        PROVE  PinnedPoolIsBound'
    BY <1>1, <1>8 DEF WorkerStep, ReportPin, Sleep, Exit, TakeTask, FinishShare
  <1>9. ASSUME NEW t \in Threads, SpuriousWakeup(t) PROVE PinnedPoolIsBound'
    BY <1>1, <1>9 DEF SpuriousWakeup
  <1>10. CASE UNCHANGED vars
    BY <1>1, <1>10 DEF vars
  <1>11. Spawned \subseteq Threads
    OBVIOUS
  <1> QED
    BY <1>2, <1>3, <1>4, <1>5, <1>6, <1>7, <1>8, <1>9, <1>10, <1>11
       DEF Next, Gone

\* A pool that was asked to pin and exists is bound on every worker.
THEOREM PinnedPoolsAreBound == Spec => []PinnedPoolIsBound
  <1>1. Init => PinnedPoolIsBound
    BY WorkersAssumption DEF Init, PinnedPoolIsBound, InCall, InFlight, Working
  <1> QED
    BY <1>1, PinStep, PhaseAndCount, PTL DEF Spec

-----------------------------------------------------------------------------
(* The grid: a chunk has one attempt from the moment its thread passed it. *)

\* A step that ends outside a call: nobody is in a chunk loop any more, and the
\* invariant asks nothing.
LEMMA NoCallNoGrid ==
  ASSUME PcTypeOK', PhaseInv', pc'[0] \notin InCall
  PROVE  GridInv'
  <1>1. \A t \in Threads : pc'[t] \notin Working
    BY DEF PhaseInv, WorkerPhase, InCall, InFlight
  <1>2. \A t \in Threads : ~ Begun(t)' /\ ~ LoopOver(t)'
    BY DEF Begun, LoopOver, InCall, InFlight
  <1> QED
    BY <1>1, <1>2 DEF GridInv, Working, InCall

\* A step that moves threads but leaves their place in the loop alone.
LEMMA SamePlaces ==
  ASSUME GridInv, W \in Nat \ {0}, UNCHANGED <<task, attempts, cursor>>,
         pc'[0] \in InCall => pc[0] \in InCall,
         pc'[0] # "dispatch",
         \A t \in Threads :
           /\ Begun(t)' <=> Begun(t)
           /\ LoopOver(t)' => LoopOver(t) \/ cursor[t] >= task.chunks
           /\ pc'[t] \in {"caught", "publish"} <=> pc[t] \in {"caught", "publish"},
         task.chunks \in Nat
  PROVE  GridInv'
  <1>1. ASSUME NEW t \in Threads, NEW k \in Nat PROVE Passed(t, k)' <=> Passed(t, k)
    BY DEF Passed
  <1>2. \A k \in 0..(task.chunks - 1) : k % W \in Threads /\ k \in Nat
    BY DivisionFacts
  <1> QED
    BY <1>1, <1>2 DEF GridInv

\* Inside a call, a worker in a chunk loop has begun its share of this task.
LEMMA WorkingHasBegun ==
  ASSUME PhaseInv, NEW t \in Threads, pc[t] \in Working
  PROVE  Begun(t) /\ pc[0] \in InFlight
  BY DEF PhaseInv, WorkerPhase, Begun, InFlight

\* The chunks thread t visits are its own: another thread's are left alone.
LEMMA GridShareStep ==
  ASSUME TypeOK, PhaseInv, GridInv, NEW t \in Threads, Share(t)
  PROVE  GridInv'
  <1> DEFINE c == cursor[t]
  <1>0. /\ pc \in [Threads -> OwnerStates \cup WorkerStates]
        /\ cursor \in [Threads -> Nat]
        /\ task.chunks \in Nat
        /\ attempts \in [0..(task.chunks - 1) -> Nat]
        /\ W \in Nat \ {0}
        /\ 0 \in Threads
    BY WorkersAssumption DEF TypeOK, PcTypeOK, LoopTypeOK
  <1>1. /\ pc[t] \in Working
        /\ UNCHANGED <<task, poolVars>>
        /\ \E here \in Working : pc' = [pc EXCEPT ![t] = here]
    BY DEF Share, ShareStep, RunChunk, ClaimRelay, DropException, PublishRelay,
           Advance, Working
  <1>2. Begun(t) /\ pc[0] \in InFlight /\ pc'[0] \in InFlight
    BY <1>0, <1>1, WorkingHasBegun DEF InFlight
  <1>3. pc[0] \in InCall /\ pc'[0] \in InCall /\ pc'[0] # "dispatch"
    BY <1>2 DEF InCall, InFlight, Working
  <1>4. c \in Nat /\ c % W = t
    BY <1>0, <1>2 DEF GridInv
  <1>5. \A u \in Threads : Begun(u)' <=> Begun(u)
    BY <1>1, <1>2 DEF Begun, poolVars
  <1>6. \A u \in Threads : LoopOver(u)' => LoopOver(u) /\ u # t
    <2>1. ~ LoopOver(t)'
      BY <1>0, <1>1 DEF LoopOver, Working
    <2>2. \A u \in Threads \ {t} : pc'[u] = pc[u]
      BY <1>0, <1>1
    <2> QED BY <1>1, <1>2, <2>1, <2>2 DEF LoopOver, poolVars
  <1>7. \A k \in 0..(task.chunks - 1) : k % W \in Threads /\ k \in Nat
    BY <1>0, DivisionFacts
  <1>8. ASSUME cursor' = cursor, pc'[t] \in {"caught", "publish"}, c < task.chunks,
               \A k \in 0..(task.chunks - 1) :
                 attempts'[k] = IF k = c THEN 1 ELSE attempts[k]
        PROVE  GridInv'
    <2>1. ASSUME NEW k \in 0..(task.chunks - 1)
          PROVE  attempts'[k] = IF Passed(k % W, k)' THEN 1 ELSE 0
      <3>1. CASE k % W = t
        BY <1>0, <1>1, <1>2, <1>3, <1>4, <1>5, <1>7, <1>8, <3>1 DEF GridInv, Passed
      <3>2. CASE k % W # t
        <4>1. k # c /\ pc'[k % W] = pc[k % W]
          BY <1>0, <1>1, <1>4, <1>7, <3>2
        <4>2. Passed(k % W, k)' <=> Passed(k % W, k)
          BY <1>5, <1>7, <1>8, <4>1 DEF Passed
        <4> QED BY <1>3, <1>7, <1>8, <4>1, <4>2 DEF GridInv
      <3> QED BY <3>1, <3>2
    <2>2. ASSUME NEW u \in Threads
          PROVE  /\ Begun(u)' => cursor'[u] % W = u
                 /\ LoopOver(u)' => cursor'[u] >= task'.chunks
                 /\ pc'[u] \in {"caught", "publish"} => cursor'[u] < task'.chunks
      BY <1>0, <1>1, <1>5, <1>6, <1>8 DEF GridInv
    <2> QED
      BY <1>1, <1>3, <2>1, <2>2 DEF GridInv
  <1>9. ASSUME cursor' = [cursor EXCEPT ![t] = @ + W], pc'[t] = "execute",
               \A k \in 0..(task.chunks - 1) :
                 attempts'[k] = IF k = c THEN 1 ELSE attempts[k]
        PROVE  GridInv'
    <2>0. cursor'[t] = c + W /\ (c + W) % W = t
      <3>1. (c + W) % W = c % W
        <4>1. W \in Nat /\ W > 0
          BY <1>0
        <4> HIDE DEF c
        <4> QED BY <1>4, <4>1, StrideKeepsResidue
      <3>2. cursor'[t] = c + W
        BY <1>0, <1>9
      <3> QED BY <1>4, <3>1, <3>2
    <2>1. ASSUME NEW k \in 0..(task.chunks - 1)
          PROVE  attempts'[k] = IF Passed(k % W, k)' THEN 1 ELSE 0
      <3>1. CASE k % W = t
        <4>1. Passed(t, k)' <=> k < c + W
          BY <1>0, <1>1, <1>2, <1>5, <1>9, <2>0 DEF Passed
        <4>2. k < c + W <=> k <= c
          <5>1. c < k => c + W <= k
            <6>1. W \in Nat /\ W > 0
              BY <1>0
            <6>2. k \in Nat
              BY <1>7
            <6> HIDE DEF c
            <6>3. c % W = k % W
              BY <1>4, <3>1
            <6> QED BY <1>4, <6>1, <6>2, <6>3, SameResidueApart
          <5> QED BY <1>0, <1>4, <1>7, <5>1
        <4>3. k < c => Passed(t, k)
          BY <1>2 DEF Passed
        <4>4. k > c => ~ Passed(t, k)
          BY <1>4, <1>7 DEF Passed
        <4>5. attempts[k] = IF Passed(t, k) THEN 1 ELSE 0
          BY <1>3, <3>1 DEF GridInv
        <4>6. CASE k = c
          BY <1>9, <3>1, <4>1, <4>2, <4>6, <1>4
        <4>7. CASE k < c
          BY <1>4, <1>7, <1>9, <3>1, <4>1, <4>2, <4>3, <4>5, <4>7
        <4>8. CASE k > c
          BY <1>4, <1>7, <1>9, <3>1, <4>1, <4>2, <4>4, <4>5, <4>8
        <4> QED BY <1>4, <1>7, <4>6, <4>7, <4>8
      <3>2. CASE k % W # t
        <4>1. /\ k # c
              /\ pc'[k % W] = pc[k % W]
              /\ cursor'[k % W] = cursor[k % W]
          BY <1>0, <1>1, <1>4, <1>7, <1>9, <3>2
        <4>2. Passed(k % W, k)' <=> Passed(k % W, k)
          BY <1>5, <1>7, <4>1 DEF Passed
        <4> QED BY <1>3, <1>7, <1>9, <4>1, <4>2 DEF GridInv
      <3> QED BY <3>1, <3>2
    <2>2. ASSUME NEW u \in Threads
          PROVE  /\ Begun(u)' => cursor'[u] % W = u
                 /\ LoopOver(u)' => cursor'[u] >= task'.chunks
                 /\ pc'[u] \in {"caught", "publish"} => cursor'[u] < task'.chunks
      <3>1. CASE u = t
        BY <1>6, <1>9, <2>0, <3>1
      <3>2. CASE u # t
        <4>1. cursor'[u] = cursor[u] /\ pc'[u] = pc[u] /\ task' = task
          BY <1>0, <1>1, <1>9, <3>2
        <4> QED BY <1>5, <1>6, <4>1 DEF GridInv
      <3> QED BY <3>1, <3>2
    <2> QED
      BY <1>1, <1>3, <2>1, <2>2 DEF GridInv
  <1>10. ASSUME attempts' = attempts, pc[t] \in {"caught", "publish"}
         PROVE  /\ c < task.chunks
                /\ \A k \in 0..(task.chunks - 1) :
                     attempts'[k] = IF k = c THEN 1 ELSE attempts[k]
    <2>1. c < task.chunks
      BY <1>10 DEF GridInv
    <2>2. Passed(t, c)
      BY <1>2, <1>10 DEF Passed
    <2>3. c \in 0..(task.chunks - 1)
      BY <1>0, <1>4, <2>1
    <2>4. attempts[c] = 1
      BY <1>3, <1>4, <2>2, <2>3 DEF GridInv
    <2> QED BY <1>10, <2>1, <2>4
  <1>11. CASE RunChunk(t)
    <2>1. c \in 0..(task.chunks - 1)
      BY <1>0, <1>4, <1>11 DEF RunChunk
    <2>2. ~ Passed(t, c)
      BY <1>4, <1>11 DEF Passed, RunChunk
    <2>3. attempts[c] = 0
      BY <1>3, <1>4, <2>1, <2>2 DEF GridInv
    <2>4. \A k \in 0..(task.chunks - 1) :
            attempts'[k] = IF k = c THEN 1 ELSE attempts[k]
      BY <1>0, <1>11, <2>1, <2>3 DEF RunChunk
    <2>5. \/ cursor' = [cursor EXCEPT ![t] = @ + W] /\ pc'[t] = "execute"
          \/ cursor' = cursor /\ pc'[t] = "caught"
      BY <1>0, <1>11 DEF RunChunk, Advance
    <2> QED
      BY <1>0, <1>8, <1>9, <2>1, <2>4, <2>5
  <1>12. CASE ClaimRelay(t)
    <2>1. /\ pc[t] = "caught" /\ pc'[t] = "publish"
          /\ attempts' = attempts /\ cursor' = cursor
      BY <1>0, <1>12 DEF ClaimRelay
    <2> QED BY <1>8, <1>10, <2>1
  <1>13. CASE DropException(t) \/ PublishRelay(t)
    <2>1. /\ pc[t] \in {"caught", "publish"} /\ pc'[t] = "execute"
          /\ attempts' = attempts /\ cursor' = [cursor EXCEPT ![t] = @ + W]
      BY <1>0, <1>13 DEF DropException, PublishRelay, Advance
    <2> QED BY <1>9, <1>10, <2>1
  <1> QED
    BY <1>11, <1>12, <1>13 DEF Share, ShareStep

LEMMA GridStep ==
  TypeOK /\ PhaseInv /\ CountInv /\ GridInv /\ [Next]_vars => GridInv'
  <1> SUFFICES ASSUME TypeOK, PhaseInv, CountInv, GridInv, [Next]_vars
               PROVE  GridInv'
    OBVIOUS
  <1>0. /\ pc \in [Threads -> OwnerStates \cup WorkerStates]
        /\ pc[0] \in OwnerStates
        /\ seen \in [Spawned -> Nat]
        /\ generation \in Nat
        /\ cursor \in [Threads -> Nat]
        /\ task.chunks \in Nat
        /\ W \in Nat \ {0}
        /\ 0 \in Threads
    BY WorkersAssumption DEF TypeOK, PcTypeOK, LoopTypeOK, PoolTypeOK
  <1>1. PcTypeOK' /\ PhaseInv'
    BY PcTypeStep, PhaseStep DEF TypeOK
  <1>2. ASSUME pc'[0] \notin InCall PROVE GridInv'
    BY <1>1, <1>2, NoCallNoGrid
  <1> USE <1>0 DEF loopVars, poolVars
  <1>3. CASE OwnerStep /\ ~ Dispatch /\ ~ Share(0) /\ ~ OwnerShareDone /\ ~ Collect
    <2>1. pc'[0] \notin InCall
      BY <1>3
         DEF OwnerStep, PinOwner, SpawnWorker, SpawnFails, AllSpawned,
             AwaitPins, FinishPinning, StopWorkers, JoinWorkers, Rethrow,
             WakeWorkers, InCall, InFlight, Working
    <2> QED BY <1>2, <2>1
  <1>4. CASE Dispatch
    <2>1. /\ pc'[0] = "execute" /\ cursor' = cursor /\ cursor[0] = 0
          /\ task' = task /\ attempts' = attempts
          /\ task.n > 0 /\ task.chunks > 0
      BY <1>4 DEF Dispatch, WakeWorkers, GridInv, InCall
    <2>2. \A t \in Threads :
            /\ Begun(t)' => t = 0
            /\ ~ LoopOver(t)'
            /\ pc'[t] \notin {"caught", "publish"}
      <3>1. \A w \in Spawned : seen[w] = generation /\ pc[w] \notin Working
        BY <1>4 DEF Dispatch, PhaseInv, WorkerPhase, InFlight, Working
      <3> QED
        BY <1>4, <3>1 DEF Dispatch, WakeWorkers, Begun, LoopOver, Working
    <2>3. \A k \in 0..(task.chunks - 1) : attempts[k] = 0
      <3>1. \A t \in Threads : ~ Begun(t)
        BY <1>4 DEF Dispatch, Begun, InFlight, Working
      <3> QED BY <1>4, <3>1 DEF Dispatch, GridInv, Passed, InCall
    <2>4. \A k \in 0..(task.chunks - 1) : ~ Passed(k % W, k)'
      <3>1. \A k \in 0..(task.chunks - 1) : k % W \in Threads
        BY DivisionFacts
      <3> QED BY <2>1, <2>2, <3>1 DEF Passed
    <2>5. 0 % W = 0
      BY OwnResidue
    <2> QED
      BY <2>1, <2>2, <2>3, <2>4, <2>5 DEF GridInv
  <1>5. CASE Share(0)
    BY <1>5, GridShareStep
  <1>6. CASE OwnerShareDone
    BY <1>6, SamePlaces
       DEF OwnerShareDone, ShareDone, Begun, LoopOver, InCall, InFlight, Working
  <1>7. CASE Collect
    BY <1>7, SamePlaces
       DEF Collect, Begun, LoopOver, InCall, InFlight, Working
  <1>8. CASE Destroy
    BY <1>2, <1>8 DEF Destroy, InCall, InFlight, Working
  <1>9. ASSUME NEW kind \in {"for", "reduce"}, NEW n \in Sizes, CallNothing(kind, n)
        PROVE  GridInv'
    BY <1>2, <1>9 DEF CallNothing, InCall, InFlight, Working
  <1>10. ASSUME NEW kind \in {"for", "reduce"}, NEW n \in Sizes, Call(kind, n)
         PROVE  GridInv'
    <2>1. /\ n > 0 /\ Grid(kind, n) > 0 /\ Grid(kind, n) \in Nat
          /\ task' = [kind |-> kind, n |-> n, chunks |-> Grid(kind, n)]
          /\ attempts' = [k \in 0..(Grid(kind, n) - 1) |-> 0]
          /\ cursor' = [cursor EXCEPT ![0] = 0]
          /\ pc' = [pc EXCEPT ![0] = IF W = 1 THEN "execute" ELSE "dispatch"]
      BY <1>10, GridShape, SizesAssumption DEF Call, Post, NoAttempts
    <2>2. \A t \in Threads :
            /\ Begun(t)' => t = 0
            /\ ~ LoopOver(t)'
            /\ pc'[t] \notin {"caught", "publish"}
      <3>1. \A w \in Spawned : pc[w] \notin Working
        BY <1>10 DEF Call, PhaseInv, WorkerPhase, InFlight, Working
      <3>2. CASE W = 1
        BY <2>1, <3>2 DEF Begun, LoopOver
      <3>3. CASE W # 1
        BY <2>1, <3>1, <3>3 DEF Begun, LoopOver, InFlight, Working
      <3> QED BY <3>2, <3>3
    <2>3. cursor'[0] = 0 /\ 0 % W = 0
      BY <2>1, OwnResidue
    <2>4. \A k \in 0..(task'.chunks - 1) : attempts'[k] = 0 /\ ~ Passed(k % W, k)'
      <3>1. \A k \in 0..(task'.chunks - 1) : k \in Nat /\ k % W \in Threads
        BY <2>1, DivisionFacts
      <3>2. \A k \in 0..(task'.chunks - 1) : attempts'[k] = 0
        BY <2>1
      <3> QED BY <2>2, <2>3, <3>1, <3>2 DEF Passed
    <2> QED
      BY <2>1, <2>2, <2>3, <2>4 DEF GridInv
  <1>11. ASSUME NEW w \in Spawned, PinWorker(w) \/ ReportPin(w)
         PROVE  GridInv'
    <2>1. pc[0] \notin InCall
      BY <1>11 DEF PinWorker, ReportPin, PhaseInv, WorkerPhase, Reported
    <2> QED
      BY <1>2, <1>11, <2>1 DEF PinWorker, ReportPin, InCall, InFlight, Working
  <1>12. ASSUME NEW w \in Spawned, Exit(w) PROVE GridInv'
    <2>1. pc[0] \notin InCall
      BY <1>12 DEF Exit, PhaseInv, InCall, InFlight, Working
    <2> QED BY <1>2, <1>12, <2>1 DEF Exit
  <1>13. ASSUME NEW w \in Spawned, TakeTask(w) PROVE GridInv'
    <2>1. /\ pc[0] \in InFlight
          /\ seen[w] # generation
          /\ seen' = [seen EXCEPT ![w] = generation]
          /\ cursor' = [cursor EXCEPT ![w] = w]
          /\ pc' = [pc EXCEPT ![w] = "execute"]
          /\ UNCHANGED <<task, attempts, generation>>
      BY <1>13 DEF TakeTask, PhaseInv, WorkerPhase
    <2>2. pc[0] \in InCall /\ pc'[0] = pc[0] /\ pc[0] # "dispatch"
      BY <2>1 DEF InCall, InFlight, Working
    <2>3. ~ Begun(w) /\ w % W = w
      <3>1. W \in Nat /\ W > 0 /\ w \in 0..(W - 1)
        OBVIOUS
      <3>2. w % W = w
        BY <3>1, OwnResidue
      <3> QED BY <2>1, <3>2 DEF Begun
    <2>4. \A t \in Threads \ {w} :
            /\ Begun(t)' <=> Begun(t)
            /\ LoopOver(t)' <=> LoopOver(t)
            /\ pc'[t] = pc[t] /\ cursor'[t] = cursor[t]
      BY <2>1, <2>2 DEF Begun, LoopOver
    <2>5. ~ LoopOver(w)' /\ pc'[w] = "execute" /\ cursor'[w] = w
      BY <2>1 DEF LoopOver, Working
    <2>6. ASSUME NEW k \in 0..(task.chunks - 1)
          PROVE  Passed(k % W, k)' <=> Passed(k % W, k)
      <3>1. k \in Nat /\ k % W \in Threads
        BY DivisionFacts
      <3>2. CASE k % W = w
        <4>1. ~ (k < w)
          <5>1. W \in Nat /\ W > 0
            OBVIOUS
          <5>2. k \in 0..(W - 1) => k % W = k
            BY <5>1, OwnResidue
          <5>3. k < w => k \in 0..(W - 1)
            BY <3>1
          <5> QED BY <3>1, <3>2, <5>2, <5>3
        <4> QED BY <2>3, <2>5, <3>2, <4>1 DEF Passed
      <3>3. CASE k % W # w
        BY <2>4, <3>1, <3>3 DEF Passed
      <3> QED BY <3>2, <3>3
    <2>7. \A t \in Threads :
            /\ Begun(t)' => cursor'[t] % W = t
            /\ LoopOver(t)' => cursor'[t] >= task'.chunks
            /\ pc'[t] \in {"caught", "publish"} => cursor'[t] < task'.chunks
      <3>1. task' = task
        BY <2>1
      <3>2. ASSUME NEW t \in Threads \ {w}
            PROVE  /\ Begun(t)' => cursor'[t] % W = t
                   /\ LoopOver(t)' => cursor'[t] >= task.chunks
                   /\ pc'[t] \in {"caught", "publish"} => cursor'[t] < task.chunks
        BY <2>4 DEF GridInv
      <3>3. /\ cursor'[w] % W = w
            /\ pc'[w] \notin {"caught", "publish"}
        BY <2>3, <2>5
      <3> QED BY <2>5, <3>1, <3>2, <3>3
    <2> QED
      BY <2>1, <2>2, <2>6, <2>7 DEF GridInv
  <1>14. ASSUME NEW w \in Spawned, FinishShare(w) \/ Sleep(w) PROVE GridInv'
    <2>1. /\ UNCHANGED <<task, attempts, cursor, generation, seen>>
          /\ pc[w] \notin {"caught", "publish"}
          /\ pc'[w] \notin {"caught", "publish"}
          /\ pc[w] \in Working => cursor[w] >= task.chunks
          /\ \A t \in Threads \ {0, w} : pc'[t] = pc[t]
          /\ \/ pc'[0] = pc[0]
             \/ pc[0] = "asleep_collect" /\ pc'[0] = "collect"
      BY <1>14 DEF FinishShare, Sleep, ShareDone, Working
    <2>2. CASE pc[0] = "dispatch"
      <3>1. \A t \in Threads : ~ Begun(t) /\ ~ Begun(t)' /\ ~ LoopOver(t)'
        BY <2>1, <2>2 DEF Begun, LoopOver, InFlight, Working
      <3>2. \A k \in 0..(task.chunks - 1) : Passed(k % W, k)' <=> Passed(k % W, k)
        <4>1. \A k \in 0..(task.chunks - 1) : k % W \in Threads
          BY DivisionFacts
        <4> QED BY <3>1, <4>1 DEF Passed
      <3>3. \A t \in Threads : pc'[t] \in {"caught", "publish"} => cursor[t] < task.chunks
        BY <2>1, <2>2 DEF GridInv
      <3> QED
        BY <2>1, <2>2, <3>1, <3>2, <3>3 DEF GridInv, InCall
    <2>3. CASE pc[0] # "dispatch"
      <3>1. /\ pc'[0] \in InCall => pc[0] \in InCall
            /\ pc'[0] # "dispatch"
        BY <2>1, <2>3 DEF InCall, InFlight, Working
      <3>2. ASSUME NEW t \in Threads
            PROVE  /\ Begun(t)' <=> Begun(t)
                   /\ LoopOver(t)' => LoopOver(t) \/ cursor[t] >= task.chunks
                   /\ pc'[t] \in {"caught", "publish"} <=> pc[t] \in {"caught", "publish"}
        BY <2>1 DEF Begun, LoopOver, InFlight, Working
      <3> QED
        BY <2>1, <3>1, <3>2, SamePlaces
    <2> QED BY <2>2, <2>3
  <1>15. ASSUME NEW t \in Threads, Share(t) PROVE GridInv'
    BY <1>15, GridShareStep
  <1>16. ASSUME NEW t \in Threads, SpuriousWakeup(t), pc[0] \in InCall PROVE GridInv'
    <2>1. CASE pc[0] = "dispatch"
      <3>1. /\ UNCHANGED <<task, attempts, cursor, generation, seen>>
            /\ pc'[0] = pc[0]
            /\ \A u \in Threads : pc'[u] \in Working <=> pc[u] \in Working
            /\ \A u \in Threads : pc'[u] \in {"caught", "publish"} <=> pc[u] \in {"caught", "publish"}
        BY <1>16, <2>1 DEF SpuriousWakeup, Working
      <3>2. \A u \in Threads : ~ Begun(u) /\ ~ Begun(u)' /\ ~ LoopOver(u)'
        BY <2>1, <3>1 DEF Begun, LoopOver, InFlight, Working
      <3>3. \A k \in 0..(task.chunks - 1) : Passed(k % W, k)' <=> Passed(k % W, k)
        <4>1. \A k \in 0..(task.chunks - 1) : k % W \in Threads
          BY DivisionFacts
        <4> QED BY <3>2, <4>1 DEF Passed
      <3> QED
        BY <2>1, <3>1, <3>2, <3>3 DEF GridInv, InCall
    <2>2. CASE pc[0] # "dispatch"
      BY <1>16, <2>2, SamePlaces
         DEF SpuriousWakeup, Begun, LoopOver, InCall, InFlight, Working
    <2> QED BY <2>1, <2>2
  <1>17. ASSUME NEW t \in Threads, SpuriousWakeup(t), pc[0] \notin InCall PROVE GridInv'
    BY <1>2, <1>17 DEF SpuriousWakeup, InCall, InFlight, Working
  <1>18. CASE UNCHANGED vars
    BY <1>18 DEF vars, GridInv, Begun, LoopOver, Passed
  <1>19. Spawned \subseteq Threads
    OBVIOUS
  <1>20. CASE ClientStep
    BY <1>8, <1>9, <1>10, <1>20 DEF ClientStep
  <1>21. CASE \E w \in Spawned : WorkerStep(w)
    BY <1>11, <1>12, <1>13, <1>14, <1>15, <1>19, <1>21 DEF WorkerStep
  <1> QED
    BY <1>3, <1>4, <1>5, <1>6, <1>7, <1>16, <1>17, <1>18, <1>20, <1>21
       DEF Next, Gone

-----------------------------------------------------------------------------
(* The exception relay. *)

\* A step that leaves the relay alone, and every thread in or out of its catch.
LEMMA SameRelay ==
  ASSUME RelayInv, UNCHANGED <<relay, threw, cursor>>,
         \A t \in Threads : /\ pc'[t] = "caught" <=> pc[t] = "caught"
                            /\ pc'[t] = "publish" <=> pc[t] = "publish",
         pc'[0] \in InCall => pc[0] \in InCall,
         pc'[0] \in InFlight \cup {"rethrow"} \/ ~ relay.claimed,
         pc'[0] # "dispatch" \/ pc[0] = "dispatch"
  PROVE  RelayInv'
  BY DEF RelayInv

LEMMA RelayShareStep ==
  ASSUME TypeOK, PhaseInv, RelayInv, NEW t \in Threads, Share(t)
  PROVE  RelayInv'
  <1>0. /\ pc \in [Threads -> OwnerStates \cup WorkerStates]
        /\ cursor \in [Threads -> Nat]
        /\ relay \in [claimed : BOOLEAN, captured : BOOLEAN,
                      first : Nat \cup {NoException}]
        /\ W \in Nat \ {0}
        /\ 0 \in Threads
    BY WorkersAssumption DEF TypeOK, PcTypeOK, LoopTypeOK
  <1>1. /\ pc[t] \in Working
        /\ \E here \in Working : pc' = [pc EXCEPT ![t] = here]
    BY DEF Share, ShareStep, RunChunk, ClaimRelay, DropException, PublishRelay,
           Advance, Working
  <1>2. pc[0] \in InFlight /\ pc'[0] \in InFlight
    BY <1>0, <1>1, WorkingHasBegun DEF InFlight
  <1>3. pc[0] \in InCall /\ pc'[0] \in InCall /\ pc'[0] # "dispatch"
    BY <1>2 DEF InCall, InFlight, Working
  <1> USE <1>0
  <1>4. CASE RunChunk(t)
    <2>1. \/ /\ threw' = threw /\ relay' = relay
             /\ cursor' = [cursor EXCEPT ![t] = @ + W]
             /\ pc' = [pc EXCEPT ![t] = "execute"]
          \/ /\ threw' = threw \cup {cursor[t]} /\ relay' = relay
             /\ cursor' = cursor
             /\ pc' = [pc EXCEPT ![t] = "caught"]
      BY <1>4 DEF RunChunk, Advance
    <2>2. pc[t] = "execute"
      BY <1>4 DEF RunChunk
    <2> QED
      BY <1>2, <1>3, <2>1, <2>2 DEF RelayInv
  <1>5. CASE ClaimRelay(t)
    <2>1. /\ pc[t] = "caught" /\ ~ relay.claimed
          /\ relay' = [relay EXCEPT !.claimed = TRUE]
          /\ pc' = [pc EXCEPT ![t] = "publish"]
          /\ UNCHANGED <<cursor, threw>>
      BY <1>5 DEF ClaimRelay
    <2>2. relay'.claimed /\ relay'.captured = relay.captured /\ relay'.first = relay.first
      BY <2>1
    <2> QED
      BY <1>2, <1>3, <2>1, <2>2 DEF RelayInv
  <1>6. CASE DropException(t)
    <2>1. /\ pc[t] = "caught" /\ relay.claimed
          /\ cursor' = [cursor EXCEPT ![t] = @ + W]
          /\ pc' = [pc EXCEPT ![t] = "execute"]
          /\ UNCHANGED <<threw, relay>>
      BY <1>6 DEF DropException, Advance
    <2> QED
      BY <1>2, <1>3, <2>1 DEF RelayInv
  <1>7. CASE PublishRelay(t)
    <2>1. /\ pc[t] = "publish"
          /\ relay' = [relay EXCEPT !.first = cursor[t], !.captured = TRUE]
          /\ cursor' = [cursor EXCEPT ![t] = @ + W]
          /\ pc' = [pc EXCEPT ![t] = "execute"]
          /\ UNCHANGED threw
      BY <1>7 DEF PublishRelay, Advance
    <2>2. relay'.captured /\ relay'.claimed = relay.claimed /\ relay'.first = cursor[t]
      BY <2>1
    <2>3. relay.claimed /\ ~ relay.captured /\ cursor[t] \in threw
      BY <2>1 DEF RelayInv
    <2> QED
      BY <1>2, <1>3, <2>1, <2>2, <2>3 DEF RelayInv
  <1> QED
    BY <1>4, <1>5, <1>6, <1>7 DEF Share, ShareStep

\* At the join point nobody is still inside a chunk.
LEMMA NobodyWorksAtJoin ==
  ASSUME PhaseInv, pc[0] = "rethrow"
  PROVE  \A t \in Threads : pc[t] \notin Working
  BY DEF PhaseInv, WorkerPhase, InFlight, Working

LEMMA RelayStep ==
  TypeOK /\ PhaseInv /\ RelayInv /\ [Next]_vars => RelayInv'
  <1> SUFFICES ASSUME TypeOK, PhaseInv, RelayInv, [Next]_vars
               PROVE  RelayInv'
    OBVIOUS
  <1>0. /\ pc \in [Threads -> OwnerStates \cup WorkerStates]
        /\ pc[0] \in OwnerStates
        /\ relay \in [claimed : BOOLEAN, captured : BOOLEAN,
                      first : Nat \cup {NoException}]
        /\ W \in Nat \ {0}
        /\ 0 \in Threads
    BY WorkersAssumption DEF TypeOK, PcTypeOK, LoopTypeOK
  <1>1. pc[0] \notin InFlight \cup {"rethrow"} => ~ relay.claimed
    BY DEF RelayInv
  <1> USE <1>0 DEF loopVars, poolVars, InCall, InFlight, Working
  <1>2. CASE OwnerStep /\ ~ Rethrow /\ ~ Share(0) /\ ~ SpawnWorker
    BY <1>1, <1>2, SameRelay
       DEF OwnerStep, PinOwner, SpawnFails, AllSpawned, AwaitPins,
           FinishPinning, StopWorkers, JoinWorkers, Dispatch, OwnerShareDone,
           ShareDone, Collect, WakeWorkers
  <1>3. CASE SpawnWorker
    <2>1. pc[spawned + 1] = "unborn" /\ spawned + 1 \in Spawned
      <3>1. spawned \in 0..(W - 1)
        BY DEF TypeOK, PoolTypeOK
      <3> QED BY <1>3, <3>1 DEF SpawnWorker, PhaseInv, WorkerPhase
    <2> QED
      BY <1>1, <1>3, <2>1, SameRelay DEF SpawnWorker
  <1>4. CASE Rethrow
    <2>1. \A t \in Threads : pc[t] \notin {"caught", "publish"} /\ pc'[t] \notin {"caught", "publish"}
      BY <1>4, NobodyWorksAtJoin DEF Rethrow
    <2>2. /\ pc'[0] = "ready" /\ threw' = threw
          /\ relay' = IF relay.captured THEN EmptyRelay ELSE relay
      BY <1>4 DEF Rethrow, RelayAfterRethrow
    <2>3. relay.claimed => relay.captured
      BY <2>1 DEF RelayInv
    <2>4. ~ relay'.claimed /\ ~ relay'.captured /\ relay'.first = NoException
      BY <2>2, <2>3 DEF EmptyRelay, RelayInv
    <2> QED
      BY <2>1, <2>2, <2>4 DEF RelayInv
  <1>5. CASE Destroy
    BY <1>1, <1>5, SameRelay DEF Destroy
  <1>6. ASSUME NEW kind \in {"for", "reduce"}, NEW n \in Sizes, CallNothing(kind, n)
        PROVE  RelayInv'
    BY <1>1, <1>6, SameRelay DEF CallNothing
  <1>7. ASSUME NEW kind \in {"for", "reduce"}, NEW n \in Sizes, Call(kind, n)
        PROVE  RelayInv'
    <2>1. /\ pc[0] = "ready" /\ threw' = {} /\ relay' = relay
          /\ pc' = [pc EXCEPT ![0] = IF W = 1 THEN "execute" ELSE "dispatch"]
      BY <1>7 DEF Call, Post
    <2>2. \A t \in Threads : pc'[t] \notin {"caught", "publish"}
      BY <2>1 DEF PhaseInv, WorkerPhase
    <2> QED
      BY <1>1, <2>1, <2>2 DEF RelayInv
  <1>8. ASSUME NEW t \in Threads, Share(t) PROVE RelayInv'
    BY <1>8, RelayShareStep
  <1>9. ASSUME NEW w \in Spawned, TakeTask(w) PROVE RelayInv'
    <2>1. /\ UNCHANGED <<relay, threw>>
          /\ cursor' = [cursor EXCEPT ![w] = w]
          /\ pc' = [pc EXCEPT ![w] = "execute"] /\ pc[w] = "poll"
      BY <1>9 DEF TakeTask
    <2> QED
      BY <2>1 DEF RelayInv
  <1>10. ASSUME NEW w \in Spawned, WorkerStep(w), ~ Share(w), ~ TakeTask(w)
         PROVE  RelayInv'
    BY <1>1, <1>10, SameRelay
       DEF WorkerStep, PinWorker, ReportPin, Sleep, Exit, FinishShare, ShareDone
  <1>11. ASSUME NEW t \in Threads, SpuriousWakeup(t) PROVE RelayInv'
    BY <1>1, <1>11, SameRelay DEF SpuriousWakeup
  <1>12. CASE UNCHANGED vars
    BY <1>1, <1>12, SameRelay DEF vars
  <1>13. Spawned \subseteq Threads
    OBVIOUS
  <1> QED
    BY <1>2, <1>3, <1>4, <1>5, <1>6, <1>7, <1>8, <1>9, <1>10, <1>11, <1>12, <1>13
       DEF Next, OwnerStep, ClientStep, Gone

-----------------------------------------------------------------------------
(* The whole inductive invariant, and what it says at the join point. *)

LEMMA InitInv == Init => IInv
  <1> SUFFICES ASSUME Init PROVE IInv
    OBVIOUS
  <1>1. TypeOK /\ PhaseInv /\ CountInv
    BY InitTypeOK, InitPhase, InitCount
  <1>2. \A t \in Threads : pc[t] \in {"unbuilt", "unborn"}
    BY DEF Init
  <1>3. pc[0] = "unbuilt"
    BY WorkersAssumption DEF Init
  <1>4. PinnedPoolIsBound
    BY <1>3 DEF PinnedPoolIsBound, InCall, InFlight, Working
  <1>5. GridInv
    <2>1. \A t \in Threads : ~ Begun(t) /\ ~ LoopOver(t)
      BY <1>3 DEF Begun, LoopOver, InFlight, Working
    <2> QED
      BY <1>2, <1>3, <2>1 DEF GridInv, InCall, InFlight, Working
  <1>6. RelayInv
    BY <1>2, <1>3 DEF Init, RelayInv, EmptyRelay, InCall, InFlight, Working
  <1> QED
    BY <1>1, <1>4, <1>5, <1>6 DEF IInv

\* IInv is inductive: it holds in every state the pool can reach.
THEOREM PoolInvariant == Spec => []IInv
  <1>1. IInv /\ [Next]_vars => IInv'
    BY NextTypeOK, PhaseStep, CountStep, GridStep, RelayStep, PinStep DEF IInv
  <1> QED
    BY <1>1, InitInv, PTL DEF Spec

\* At the join point every chunk of the grid has had exactly one attempt.
LEMMA AllChunksAttempted ==
  ASSUME IInv, pc[0] = "rethrow"
  PROVE  /\ task.n \in Nat /\ task.n > 0
         /\ task.chunks \in Nat /\ task.chunks > 0
         /\ DOMAIN attempts = 0..(task.chunks - 1)
         /\ \A k \in DOMAIN attempts : attempts[k] = 1
  <1>1. /\ task.n \in Int /\ task.chunks \in Nat
        /\ DOMAIN attempts = 0..(task.chunks - 1)
        /\ cursor \in [Threads -> Nat]
        /\ W \in Nat \ {0}
    BY WorkersAssumption DEF IInv, TypeOK, LoopTypeOK
  <1>2. pc[0] \in InCall
    BY DEF InCall
  <1>3. task.n > 0 /\ task.chunks > 0
    BY <1>2 DEF IInv, GridInv
  <1>4. \A t \in Threads : LoopOver(t) /\ Begun(t)
    <2>1. \A w \in Spawned : seen[w] = generation /\ pc[w] \notin Working
      BY DEF IInv, PhaseInv, WorkerPhase, InFlight, Working
    <2> QED BY <2>1 DEF LoopOver, Begun
  <1>5. ASSUME NEW k \in 0..(task.chunks - 1) PROVE attempts[k] = 1
    <2>1. k \in Nat /\ k % W \in Threads
      BY <1>1, DivisionFacts
    <2>2. cursor[k % W] >= task.chunks
      BY <1>4, <2>1 DEF IInv, GridInv
    <2>3. Passed(k % W, k)
      BY <1>1, <1>4, <2>1, <2>2 DEF Passed
    <2> QED BY <1>2, <2>3 DEF IInv, GridInv
  <1> QED
    BY <1>1, <1>3, <1>5

\* A call that comes back has handed every element to the body exactly once,
\* for every n, every worker count and every schedule.
THEOREM PoolCoversEveryElement == Spec => []EveryElementOnce
  <1>1. ASSUME IInv PROVE EveryElementOnce
    <2> SUFFICES ASSUME pc[0] = "rethrow", NEW i \in 0..(task.n - 1)
                 PROVE  \E k \in DOMAIN attempts :
                          /\ attempts[k] = 1
                          /\ InRange(i, TaskChunk(k))
                          /\ \A l \in DOMAIN attempts \ {k} : ~ InRange(i, TaskChunk(l))
      BY DEF EveryElementOnce
    <2> DEFINE n == task.n
               p == task.chunks
               k == BlockOf(n, p, i)
    <2>1. /\ n \in Nat /\ p \in Nat /\ p > 0
          /\ DOMAIN attempts = 0..(p - 1)
          /\ \A l \in DOMAIN attempts : attempts[l] = 1
      BY <1>1, AllChunksAttempted
    <2>2. i \in 0..(n - 1) /\ i \in Int
      BY <2>1
    <2>3. \A l : TaskChunk(l) = block_partition(n, p, l)
      BY DEF TaskChunk
    <2> HIDE DEF n, p
    <2>4. k \in 0..(p - 1) /\ InRange(i, block_partition(n, p, k))
      BY <2>1, <2>2, BlocksCover
    <2> HIDE DEF k
    <2>5. \A l \in 0..(p - 1) : l # k => ~ InRange(i, block_partition(n, p, l))
      BY <2>1, <2>2, <2>4, BlocksDisjoint
    <2> QED
      BY <2>1, <2>3, <2>4, <2>5
  <1>2. IInv => EveryElementOnce
    BY <1>1
  <1> QED
    BY <1>2, PoolInvariant, PTL

\* At the join point the relay says whether a body threw, and names one that did.
LEMMA JoinRelay ==
  ASSUME IInv, pc[0] = "rethrow"
  PROVE  /\ relay.captured <=> threw # {}
         /\ relay.captured => relay.first \in threw
  <1>1. \A t \in Threads : pc[t] \notin {"caught", "publish"}
    BY NobodyWorksAtJoin DEF IInv, Working
  <1>2. relay.captured <=> threw # {}
    BY <1>1 DEF IInv, RelayInv, InCall
  <1>3. relay.captured => relay.first \in threw
    BY DEF IInv, RelayInv
  <1> QED
    BY <1>2, <1>3

\* The relay is empty between dispatches, and at the join point it holds one of
\* the exceptions of this dispatch exactly when there was one.
THEOREM PoolRelaysFaithfully == Spec => []RelayFaithful
  <1>1. ASSUME IInv PROVE RelayFaithful
    <2>0. relay \in [claimed : BOOLEAN, captured : BOOLEAN,
                     first : Nat \cup {NoException}]
      BY <1>1 DEF IInv, TypeOK, LoopTypeOK
    <2>1. CASE pc[0] \in {"ready", "dispatch"}
      <3>1. ~ relay.claimed /\ ~ relay.captured /\ relay.first = NoException
        BY <1>1, <2>1 DEF IInv, RelayInv, InFlight, Working
      <3>2. relay = EmptyRelay
        BY <2>0, <3>1 DEF EmptyRelay
      <3> QED BY <2>1, <3>2 DEF RelayFaithful
    <2>2. CASE pc[0] = "rethrow"
      BY <1>1, <2>2, JoinRelay DEF RelayFaithful
    <2> QED BY <2>1, <2>2 DEF RelayFaithful
  <1>2. IInv => RelayFaithful
    BY <1>1
  <1> QED
    BY <1>2, PoolInvariant, PTL

-----------------------------------------------------------------------------
(* Refinement: the pool is a fork-join backend. *)

\* The status of a pool whose owner is at a given place.
LEMMA StatusOf ==
  /\ pc[0] \in {"unbuilt", "spawn", "wait_pins", "asleep_pins", "aggregate"}
       => Status = "building"
  /\ pc[0] = "ready" => Status = "idle"
  /\ pc[0] \in {"dispatch", "execute", "caught", "publish", "collect",
                "asleep_collect", "rethrow"} => Status = "busy"
  /\ pc[0] \in {"stop", "join"} => Status = "closing"
  /\ pc[0] = "gone" => Status = "gone"
  BY DEF Status, Building, InCall, InFlight, Working

\* A step that stays in one phase of the pool's life and touches nothing the
\* contract talks about.
LEMMA Stutter ==
  ASSUME UNCHANGED <<attempts, threw, answer>>, Status' = Status
  PROVE  UNCHANGED FJ!vars
  BY DEF FJ!vars

LEMMA InitRefines == Init => FJ!Init
  <1> SUFFICES ASSUME Init PROVE FJ!Init
    OBVIOUS
  <1>1. pc[0] = "unbuilt"
    BY WorkersAssumption DEF Init
  <1>2. attempts = [k \in {} |-> 0]
    <2>1. 0..(0 - 1) = {}
      OBVIOUS
    <2> QED BY <2>1 DEF Init, NoAttempts
  <1> QED
    BY <1>1, <1>2, StatusOf DEF Init, FJ!Init, FJ!NoException

LEMMA ShareRefines ==
  ASSUME IInv, NEW t \in Threads, Share(t)
  PROVE  [FJ!Next]_FJ!vars
  <1>0. /\ pc \in [Threads -> OwnerStates \cup WorkerStates]
        /\ cursor \in [Threads -> Nat]
        /\ task.chunks \in Nat
        /\ attempts \in [0..(task.chunks - 1) -> Nat]
        /\ W \in Nat \ {0}
        /\ 0 \in Threads
    BY WorkersAssumption DEF IInv, TypeOK, PcTypeOK, LoopTypeOK
  <1>1. /\ pc[t] \in Working
        /\ \E here \in Working : pc' = [pc EXCEPT ![t] = here]
    BY DEF Share, ShareStep, RunChunk, ClaimRelay, DropException, PublishRelay,
           Advance, Working
  <1>2. Begun(t) /\ pc[0] \in InFlight /\ pc'[0] \in InFlight
    BY <1>0, <1>1, WorkingHasBegun DEF IInv, InFlight
  <1>3. Status = "busy" /\ Status' = "busy"
    BY <1>2, StatusOf DEF Status, Building, InCall, InFlight, Working
  <1>4. answer' = answer
    BY DEF Share, poolVars
  <1>5. CASE RunChunk(t)
    <2> DEFINE c == cursor[t]
    <2>1. c \in 0..(task.chunks - 1) /\ c % W = t
      BY <1>0, <1>2, <1>5 DEF RunChunk, IInv, GridInv
    <2>2. attempts[c] = 0
      <3>1. ~ Passed(t, c)
        BY <1>0, <1>5 DEF Passed, RunChunk
      <3>2. pc[0] \in InCall
        BY <1>2 DEF InCall
      <3> QED BY <2>1, <3>1, <3>2 DEF IInv, GridInv
    <2>3. attempts' = [attempts EXCEPT ![c] = 1] /\ c \in DOMAIN attempts
      <3>1. attempts' = [attempts EXCEPT ![c] = attempts[c] + 1]
        BY <1>5 DEF RunChunk
      <3>2. attempts[c] + 1 = 1
        BY <2>2
      <3> QED BY <1>0, <2>1, <3>1, <3>2
    <2>4. threw' \in {threw, threw \cup {c}}
      BY <1>5 DEF RunChunk
    <2>5. FJ!Attempt(c)
      BY <1>3, <1>4, <2>2, <2>3, <2>4 DEF FJ!Attempt
    <2> QED
      BY <2>3, <2>5 DEF FJ!Next, FJ!AttemptSome
  <1>6. CASE ClaimRelay(t) \/ DropException(t) \/ PublishRelay(t)
    <2>1. UNCHANGED <<attempts, threw>>
      BY <1>6 DEF ClaimRelay, DropException, PublishRelay
    <2> QED
      BY <1>3, <1>4, <2>1, Stutter
  <1> QED
    BY <1>5, <1>6 DEF Share, ShareStep

LEMMA NextRefines == IInv /\ [Next]_vars => [FJ!Next]_FJ!vars
  <1> SUFFICES ASSUME IInv, [Next]_vars PROVE [FJ!Next]_FJ!vars
    OBVIOUS
  <1>0. /\ pc \in [Threads -> OwnerStates \cup WorkerStates]
        /\ pc[0] \in OwnerStates
        /\ spawned \in 0..(W - 1)
        /\ W \in Nat \ {0}
        /\ 0 \in Threads
    BY WorkersAssumption DEF IInv, TypeOK, PcTypeOK, PoolTypeOK
  <1>1. ASSUME UNCHANGED <<attempts, threw, answer>>, pc'[0] = pc[0]
        PROVE  [FJ!Next]_FJ!vars
    <2>1. Status' = Status
      BY <1>1 DEF Status
    <2> QED BY <1>1, <2>1, Stutter
  <1> USE <1>0 DEF loopVars, poolVars
  <1>2. CASE PinOwner \/ AllSpawned \/ AwaitPins
    <2>1. /\ UNCHANGED <<attempts, threw, answer>>
          /\ pc[0] \in {"unbuilt", "spawn", "wait_pins"}
          /\ pc'[0] \in {"spawn", "wait_pins", "asleep_pins", "aggregate"}
      BY <1>2 DEF PinOwner, AllSpawned, AwaitPins
    <2>2. Status = "building" /\ Status' = "building"
      BY <2>1, StatusOf DEF Status, Building, InCall, InFlight, Working
    <2> QED BY <2>1, <2>2, Stutter
  <1>3. CASE SpawnWorker
    BY <1>1, <1>3 DEF SpawnWorker
  <1>4. CASE SpawnFails \/ FinishPinning
    <2>1. /\ UNCHANGED <<attempts, threw, answer>>
          /\ pc[0] \in {"spawn", "aggregate"}
          /\ pc'[0] \in {"stop", "ready"}
      BY <1>4 DEF SpawnFails, FinishPinning
    <2>2. Status = "building" /\ Status' \in {"idle", "closing"}
      BY <2>1, StatusOf DEF Status, Building, InCall, InFlight, Working
    <2> QED BY <2>1, <2>2 DEF FJ!Next, FJ!Built
  <1>5. CASE StopWorkers
    <2>1. /\ UNCHANGED <<attempts, threw, answer>>
          /\ pc[0] = "stop" /\ pc'[0] = "join"
      BY <1>5 DEF StopWorkers, WakeWorkers
    <2>2. Status = "closing" /\ Status' = "closing"
      BY <2>1, StatusOf DEF Status, Building, InCall, InFlight, Working
    <2> QED BY <2>1, <2>2, Stutter
  <1>6. CASE JoinWorkers
    <2>1. /\ UNCHANGED <<attempts, threw, answer>>
          /\ pc[0] = "join" /\ pc'[0] = "gone"
      BY <1>6 DEF JoinWorkers
    <2>2. Status = "closing" /\ Status' = "gone"
      BY <2>1, StatusOf DEF Status, Building, InCall, InFlight, Working
    <2> QED BY <2>1, <2>2 DEF FJ!Next, FJ!Closed
  <1>7. CASE Dispatch \/ OwnerShareDone \/ Collect
    <2>1. /\ UNCHANGED <<attempts, threw, answer>>
          /\ pc[0] \in {"dispatch", "execute", "collect"}
          /\ pc'[0] \in {"execute", "rethrow", "collect", "asleep_collect"}
      BY <1>7 DEF Dispatch, OwnerShareDone, ShareDone, Collect, WakeWorkers
    <2>2. Status = "busy" /\ Status' = "busy"
      BY <2>1, StatusOf DEF Status, Building, InCall, InFlight, Working
    <2> QED BY <2>1, <2>2, Stutter
  <1>8. CASE Rethrow
    <2>1. /\ UNCHANGED <<attempts, threw>>
          /\ pc[0] = "rethrow" /\ pc'[0] = "ready"
          /\ answer' = IF relay.captured THEN relay.first ELSE NoException
      BY <1>8 DEF Rethrow, Delivered
    <2>2. Status = "busy" /\ Status' = "idle"
      BY <2>1, StatusOf DEF Status, Building, InCall, InFlight, Working
    <2>3. \A k \in DOMAIN attempts : attempts[k] = 1
      BY <2>1, AllChunksAttempted
    <2>4. /\ relay.captured <=> threw # {}
          /\ relay.captured => relay.first \in threw
      BY <2>1, JoinRelay
    <2> QED
      BY <2>1, <2>2, <2>3, <2>4 DEF FJ!Next, FJ!Return, FJ!NoException
  <1>9. ASSUME NEW t \in Threads, Share(t) PROVE [FJ!Next]_FJ!vars
    BY <1>9, ShareRefines
  <1>10. CASE Destroy
    <2>1. /\ UNCHANGED <<attempts, threw, answer>>
          /\ pc[0] = "ready" /\ pc'[0] = "stop"
      BY <1>10 DEF Destroy
    <2>2. Status = "idle" /\ Status' = "closing"
      BY <2>1, StatusOf DEF Status, Building, InCall, InFlight, Working
    <2> QED BY <2>1, <2>2 DEF FJ!Next, FJ!Close
  <1>11. ASSUME NEW kind \in {"for", "reduce"}, NEW n \in Sizes, CallNothing(kind, n)
         PROVE  [FJ!Next]_FJ!vars
    <2>1. /\ UNCHANGED <<attempts, threw>> /\ answer' = NoException
          /\ pc[0] = "ready" /\ pc' = pc
      BY <1>11 DEF CallNothing
    <2>2. Status = "idle" /\ Status' = Status
      BY <2>1, StatusOf DEF Status
    <2> QED BY <2>1, <2>2 DEF FJ!Next, FJ!CallNothing, FJ!NoException
  <1>12. ASSUME NEW kind \in {"for", "reduce"}, NEW n \in Sizes, Call(kind, n)
         PROVE  [FJ!Next]_FJ!vars
    <2>1. /\ Grid(kind, n) \in {Grid(l, m) : l \in {"for", "reduce"}, m \in Sizes} \ {0}
          /\ attempts' = [k \in 0..(Grid(kind, n) - 1) |-> 0]
          /\ threw' = {} /\ answer' = Pending
      BY <1>12 DEF Call, Post, NoAttempts
    <2>2. pc[0] = "ready" /\ pc'[0] \in {"execute", "dispatch"}
      BY <1>12 DEF Call
    <2>3. Status = "idle" /\ Status' = "busy"
      BY <2>2, StatusOf DEF Status, Building, InCall, InFlight, Working
    <2>4. FJ!Call(Grid(kind, n))
      BY <2>1, <2>3 DEF FJ!Call, FJ!Pending
    <2> QED BY <2>1, <2>4 DEF FJ!Next
  <1>13. ASSUME NEW w \in Spawned, WorkerStep(w), ~ Share(w)
         PROVE  [FJ!Next]_FJ!vars
    <2>1. UNCHANGED <<attempts, threw, answer>>
      BY <1>13 DEF WorkerStep, PinWorker, ReportPin, Sleep, Exit, TakeTask, FinishShare
    <2>2. CASE pc'[0] = pc[0]
      BY <1>1, <2>1, <2>2
    <2>3. CASE pc'[0] # pc[0]
      <3>1. \/ pc[0] = "asleep_pins" /\ pc'[0] = "wait_pins"
            \/ pc[0] = "asleep_collect" /\ pc'[0] = "collect"
        BY <1>13, <2>3
           DEF WorkerStep, PinWorker, ReportPin, Sleep, Exit, TakeTask, FinishShare
      <3>2. Status' = Status
        BY <3>1, StatusOf DEF Status, Building, InCall, InFlight, Working
      <3> QED BY <2>1, <3>2, Stutter
    <2> QED BY <2>2, <2>3
  <1>14. ASSUME NEW t \in Threads, SpuriousWakeup(t) PROVE [FJ!Next]_FJ!vars
    <2>1. /\ UNCHANGED <<attempts, threw, answer>>
          /\ \/ pc'[0] = pc[0]
             \/ pc[0] = "asleep" /\ pc'[0] = "poll"
             \/ pc[0] = "asleep_pins" /\ pc'[0] = "wait_pins"
             \/ pc[0] = "asleep_collect" /\ pc'[0] = "collect"
      BY <1>14 DEF SpuriousWakeup
    <2>2. Status' = Status
      BY <2>1, StatusOf
         DEF Status, OwnerStates, Building, InCall, InFlight, Working
    <2> QED BY <2>1, <2>2, Stutter
  <1>15. CASE UNCHANGED vars
    BY <1>1, <1>15 DEF vars
  <1>16. Spawned \subseteq Threads
    OBVIOUS
  <1> QED
    BY <1>2, <1>3, <1>4, <1>5, <1>6, <1>7, <1>8, <1>9, <1>10, <1>11, <1>12,
       <1>13, <1>14, <1>15, <1>16
       DEF Next, OwnerStep, ClientStep, Gone

\* Every behaviour of the pool is a behaviour the fork-join contract allows.
THEOREM PoolImplementsForkJoin == Spec => FJ!Spec
  BY InitRefines, NextRefines, PoolInvariant, PTL DEF Spec, FJ!Spec

=============================================================================
