------------------------------ MODULE ChunkLoop ------------------------------
(***************************************************************************)
(* The part the two hand written pools share: execute_chunks, which deals  *)
(* the chunk grid out round robin (worker t takes t, t + W, t + 2W, ...),  *)
(* and the ExceptionRelay every chunk body runs under.                     *)
(*                                                                         *)
(* One step is one chunk body.  A body that throws is caught; then the     *)
(* atomic exchange on claimed_ picks the winner, and in a further step the *)
(* winner alone writes first_ and sets captured_: other workers run        *)
(* between the two.  The write and the store are one step because nothing  *)
(* reads either before the join.                                           *)
(***************************************************************************)
EXTENDS Partition

CONSTANT W   \* workers_, the owning thread included

ASSUME WorkersAssumption == W \in Nat \ {0}

VARIABLES
  pc,         \* pc[t]: where thread t is; thread 0 is the owning thread
  cursor,     \* cursor[t]: the k of t's loop in execute_chunks
  task,       \* task_n_, task_chunks_ and which of task_body_ / task_reducer_
  attempts,   \* attempts[k]: times chunk k of the current task was tried
  threw,      \* chunks of the current task whose body threw
  relay       \* the ExceptionRelay: claimed_, captured_, first_

loopVars == <<cursor, task, attempts, threw, relay>>

Threads == 0..(W - 1)
Spawned == 1..(W - 1)

Pending == -2
NoException == -1

EmptyRelay == [claimed |-> FALSE, captured |-> FALSE, first |-> NoException]

NoTask == [kind |-> "none", n |-> 0, chunks |-> 0]

\* The program counters of a thread that is inside execute_chunks.
Working == {"execute", "caught", "publish"}

-----------------------------------------------------------------------------
NoAttempts(chunks) == [k \in 0..(chunks - 1) |-> 0]

\* task_n_, task_chunks_, task_body_ and task_reducer_ as run_task writes them.
Post(kind, n, chunks) ==
  /\ task' = [kind |-> kind, n |-> n, chunks |-> chunks]
  /\ attempts' = NoAttempts(chunks)
  /\ threw' = {}

\* Fault: the stride leaves out the owner, k += workers - 1.
AdvanceShort(t) ==
  /\ cursor' = [cursor EXCEPT ![t] = @ + W - 1]
  /\ pc' = [pc EXCEPT ![t] = "execute"]

\* The loop increment, k += workers.
Advance(t) ==
  /\ cursor' = [cursor EXCEPT ![t] = @ + W]
  /\ pc' = [pc EXCEPT ![t] = "execute"]

\* One chunk body inside ExceptionRelay::capture.
RunChunk(t) ==
  /\ pc[t] = "execute"
  /\ cursor[t] < task.chunks
  /\ attempts' = [attempts EXCEPT ![cursor[t]] = @ + 1]
  /\ \/ /\ Advance(t)
        /\ UNCHANGED threw
     \/ /\ threw' = threw \cup {cursor[t]}
        /\ pc' = [pc EXCEPT ![t] = "caught"]
        /\ UNCHANGED cursor
  /\ UNCHANGED <<task, relay>>

\* claimed_.exchange(true): the first exception to arrive wins.
ClaimRelay(t) ==
  /\ pc[t] = "caught"
  /\ ~ relay.claimed
  /\ relay' = [relay EXCEPT !.claimed = TRUE]
  /\ pc' = [pc EXCEPT ![t] = "publish"]
  /\ UNCHANGED <<cursor, task, attempts, threw>>

\* claimed_ was already set: this exception is dropped.
DropException(t) ==
  /\ pc[t] = "caught"
  /\ relay.claimed
  /\ Advance(t)
  /\ UNCHANGED <<task, attempts, threw, relay>>

\* Fault: the exception leaves the chunk loop instead of the chunk.
PublishRelayAndLeave(t) ==
  /\ pc[t] = "publish"
  /\ relay' = [relay EXCEPT !.first = cursor[t], !.captured = TRUE]
  /\ cursor' = [cursor EXCEPT ![t] = task.chunks]
  /\ pc' = [pc EXCEPT ![t] = "execute"]
  /\ UNCHANGED <<task, attempts, threw>>

\* The winner writes first_ and then captured_, which nobody reads before the join.
PublishRelay(t) ==
  /\ pc[t] = "publish"
  /\ relay' = [relay EXCEPT !.first = cursor[t], !.captured = TRUE]
  /\ Advance(t)
  /\ UNCHANGED <<task, attempts, threw>>

ShareStep(t) ==
  \/ RunChunk(t)
  \/ ClaimRelay(t)
  \/ DropException(t)
  \/ PublishRelay(t)

\* The loop condition of execute_chunks has become false.
ShareDone(t) ==
  /\ pc[t] = "execute"
  /\ cursor[t] >= task.chunks

\* What ExceptionRelay::rethrow delivers.
Delivered == IF relay.captured THEN relay.first ELSE NoException

\* Fault: rethrow clears captured_ and first_ but not claimed_.
RelayStaysClaimed ==
  IF relay.captured THEN [EmptyRelay EXCEPT !.claimed = TRUE] ELSE relay

\* What it leaves behind.
RelayAfterRethrow == IF relay.captured THEN EmptyRelay ELSE relay

=============================================================================
