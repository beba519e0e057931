------------------------------- MODULE ForkJoin -------------------------------
(***************************************************************************)
(* What a thread backend promises the one thread that owns it              *)
(* (backend.hpp, Backend::parallel_for, Backend::reduce, ExceptionRelay):  *)
(*                                                                         *)
(*   - a dispatch attempts every chunk of its grid exactly once, and no    *)
(*     chunk is touched outside the dispatch it belongs to;                *)
(*   - the call comes back only after the last chunk was attempted;        *)
(*   - it comes back with an exception if and only if some chunk of this   *)
(*     very call threw, and the exception is one that was thrown in it;    *)
(*   - afterwards the backend is usable again, until it is destroyed.      *)
(*                                                                         *)
(* The module knows nothing of threads, locks or barriers; PthreadsPool    *)
(* and JthreadPool are shown to implement it.                              *)
(***************************************************************************)
EXTENDS Integers

CONSTANT ChunkCounts   \* the grid sizes a dispatch may have, all positive

VARIABLES
  status,     \* life of the backend object
  attempts,   \* attempts[k]: how often chunk k of the last dispatch was tried
  threw,      \* the chunks of the last dispatch whose body threw
  answer      \* how the last call came back

vars == <<status, attempts, threw, answer>>

Pending == -2       \* the call has not come back
NoException == -1   \* it came back normally; otherwise a chunk number

-----------------------------------------------------------------------------
Init ==
  /\ status = "building"
  /\ attempts = [k \in {} |-> 0]
  /\ threw = {}
  /\ answer = NoException

\* The constructor returns, or throws after taking down what it started.
Built ==
  /\ status = "building"
  /\ status' \in {"idle", "closing"}
  /\ UNCHANGED <<attempts, threw, answer>>

Call(chunks) ==
  /\ status = "idle"
  /\ status' = "busy"
  /\ attempts' = [k \in 0..(chunks - 1) |-> 0]
  /\ threw' = {}
  /\ answer' = Pending

\* A call over no elements returns at once and touches nothing.
CallNothing ==
  /\ status = "idle"
  /\ answer' = NoException
  /\ UNCHANGED <<status, attempts, threw>>

Attempt(k) ==
  /\ status = "busy"
  /\ attempts[k] = 0
  /\ attempts' = [attempts EXCEPT ![k] = 1]
  /\ threw' \in {threw, threw \cup {k}}
  /\ UNCHANGED <<status, answer>>

Return ==
  /\ status = "busy"
  /\ \A k \in DOMAIN attempts : attempts[k] = 1
  /\ status' = "idle"
  /\ IF threw = {} THEN answer' = NoException ELSE answer' \in threw
  /\ UNCHANGED <<attempts, threw>>

Close ==
  /\ status = "idle"
  /\ status' = "closing"
  /\ UNCHANGED <<attempts, threw, answer>>

Closed ==
  /\ status = "closing"
  /\ status' = "gone"
  /\ UNCHANGED <<attempts, threw, answer>>

AttemptSome == \E k \in DOMAIN attempts : Attempt(k)

Next ==
  \/ Built
  \/ \E chunks \in ChunkCounts : Call(chunks)
  \/ CallNothing
  \/ AttemptSome
  \/ Return
  \/ Close
  \/ Closed

\* The backend makes progress on its own; calling and destroying is up to the
\* client.
Fairness ==
  /\ WF_vars(Built)
  /\ WF_vars(AttemptSome)
  /\ WF_vars(Return)
  /\ WF_vars(Closed)

Spec == Init /\ [][Next]_vars

FairSpec == Spec /\ Fairness

=============================================================================
