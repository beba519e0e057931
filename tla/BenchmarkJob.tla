---------------------------- MODULE BenchmarkJob ----------------------------
(***************************************************************************)
(* One `pnl` command started under mpirun: the same main() on every rank   *)
(* (src/main.cpp, from MPI_Init_thread to the return), with the timed      *)
(* repetitions of bench/timed_solve.hpp inside it.  The question is what   *)
(* the job as a whole does: whether it ends, with which status, and        *)
(* whether the one row it may print on the way stands for a measurement    *)
(* every rank took part in.                                                *)
(*                                                                         *)
(* A solve is abstracted to one collective exchange between two stretches  *)
(* of local work; DistributedSweep has the exchanges in full.  A rank may  *)
(* fail at any moment (an allocation, a body that throws, an MPI call that *)
(* returns an error and is turned into BackendFailure), and nothing        *)
(* tells the others.                                                       *)
(***************************************************************************)
EXTENDS Integers, FiniteSets

CONSTANTS
    RankCount,      \* MPI_Comm_size
    Repetitions,    \* options.repetitions, the warm up not counted
    Pinned          \* whether config.pinning is another policy than None

ASSUME JobAssumption ==
    /\ RankCount \in Nat \ {0}
    /\ Repetitions \in Nat \ {0}
    /\ Pinned \in BOOLEAN

Ranks == 0 .. RankCount - 1

Root == 0

VARIABLES
    solver,     \* whether applicable_to(*problem), the same on each rank
    pc,         \* where each rank is in main()
    pinning,    \* MpiBackend::pinning_, what this rank's own binding came to
    status,     \* the local `status` of main()
    rep,        \* repetitions this rank has finished, the warm up included
    entered,    \* collective calls this rank has entered, in program order
    rows,       \* result rows on the job's standard output
    aborted     \* the status given to MPI_Abort first, 0 before any

vars == <<solver, pc, pinning, status, rep, entered, rows, aborted>>

\* Inside the try block, on its own and inside a collective call.
Local   == {"make_backend", "reset", "solve", "finish", "report"}
Waiting == {"barrier_in", "exchange", "barrier_out"}
Working == Local \cup Waiting

\* A process of the job that is gone: returned from main() or taken down.
Ended == {"returned", "killed"}

TypeOK ==
    /\ solver \in {"applicable", "inapplicable"}
    /\ pc \in [Ranks -> Working \cup Ended \cup
                        {"init", "caught", "finalize", "finalizing"}]
    /\ pinning \in [Ranks -> {"not_requested", "bound", "refused"}]
    /\ status \in [Ranks -> {0, 1, 3}]
    /\ rep \in [Ranks -> 0 .. Repetitions + 1]
    /\ entered \in [Ranks -> Nat]
    /\ rows \in Nat
    /\ aborted \in {0, 1, 3}

Init ==
    /\ solver \in {"applicable", "inapplicable"}
    /\ pc = [r \in Ranks |-> "init"]
    /\ pinning = [r \in Ranks |-> "not_requested"]
    /\ status = [r \in Ranks |-> 0]
    /\ rep = [r \in Ranks |-> 0]
    /\ entered = [r \in Ranks |-> 0]
    /\ rows = 0
    /\ aborted = 0

-----------------------------------------------------------------------------

Goto(r, label) == pc' = [pc EXCEPT ![r] = label]

\* MPI_Abort: the caller is gone at once, the others when the launcher
\* reaches them, and the job's status is the first one given.
Abort(r, code) ==
    /\ aborted' = IF aborted = 0 THEN code ELSE aborted
    /\ Goto(r, "killed")

\* MPI_Init_thread gave the thread level this build needs, or a lower one.
StartMpi(r) ==
    /\ pc[r] = "init"
    /\ \/ Goto(r, "make_backend") /\ UNCHANGED aborted
       \/ Abort(r, 1)
    /\ UNCHANGED <<pinning, status, rep, entered, rows>>

\* Fault: the handler forgets the status.
CaughtQuietly(code) == code

\* Fault: the handler overwrites the status.
CaughtOver(code) == 1

\* What the handler leaves in `status` when an Error is thrown: the 3 a
\* solver that does not apply has set already, or 1.
Caught(code) == IF code = 0 THEN 1 ELSE code

\* make_problem, make_backend and make_solver, then the check that the
\* method applies.  The MPI backend keeps a refused binding to itself.
MakeBackend(r) ==
    /\ pc[r] = "make_backend"
    /\ \E outcome \in IF Pinned THEN {"bound", "refused"}
                                ELSE {"not_requested"} :
          pinning' = [pinning EXCEPT ![r] = outcome]
    /\ IF solver = "applicable"
         THEN Goto(r, "reset") /\ UNCHANGED status
         ELSE Goto(r, "caught") /\ status' = [status EXCEPT ![r] = Caught(3)]
    /\ UNCHANGED <<rep, entered, rows, aborted>>

\* Entering the next collective call.
Enter(r, from, to) ==
    /\ pc[r] = from
    /\ Goto(r, to)
    /\ entered' = [entered EXCEPT ![r] = @ + 1]
    /\ UNCHANGED <<pinning, status, rep, rows, aborted>>

\* Leaving it, which no rank does before every rank has entered it.
Leave(r, from, to) ==
    /\ pc[r] = from
    /\ \A q \in Ranks : entered[q] >= entered[r]
    /\ Goto(r, to)

\* timed_repetition: reset the workspace, a barrier, the solve, a barrier.
ResetWorkspace(r) == Enter(r, "reset", "barrier_in")

StartClock(r) ==
    /\ Leave(r, "barrier_in", "solve")
    /\ UNCHANGED <<pinning, status, rep, entered, rows, aborted>>

Exchange(r) == Enter(r, "solve", "exchange")

Exchanged(r) ==
    /\ Leave(r, "exchange", "finish")
    /\ UNCHANGED <<pinning, status, rep, entered, rows, aborted>>

\* The solve returns and the closing barrier is entered.
FinishSolve(r) ==
    /\ pc[r] = "finish"
    /\ Goto(r, "barrier_out")
    /\ rep' = [rep EXCEPT ![r] = @ + 1]
    /\ entered' = [entered EXCEPT ![r] = @ + 1]
    /\ UNCHANGED <<pinning, status, rows, aborted>>

\* Fault: no closing barrier.
StopClockAtOnce(r) ==
    /\ pc[r] = "barrier_out"
    /\ Goto(r, IF rep[r] <= Repetitions THEN "reset" ELSE "report")
    /\ UNCHANGED <<pinning, status, rep, entered, rows, aborted>>

StopClock(r) ==
    /\ Leave(r, "barrier_out",
             IF rep[r] <= Repetitions THEN "reset" ELSE "report")
    /\ UNCHANGED <<pinning, status, rep, entered, rows, aborted>>

\* The root writes the row, unless its own binding was refused.
Report(r) ==
    /\ pc[r] = "report"
    /\ IF r = Root /\ Pinned /\ pinning[r] # "bound"
         THEN /\ Goto(r, "caught")
              /\ status' = [status EXCEPT ![r] = Caught(@)]
              /\ UNCHANGED rows
         ELSE /\ Goto(r, "finalize")
              /\ rows' = IF r = Root THEN rows + 1 ELSE rows
              /\ UNCHANGED status
    /\ UNCHANGED <<pinning, rep, entered, aborted>>

\* Anything inside the try block throws on this rank alone.
Throw(r) ==
    /\ pc[r] \in Working
    /\ Goto(r, "caught")
    /\ status' = [status EXCEPT ![r] = Caught(@)]
    /\ UNCHANGED <<solver, pinning, rep, entered, rows, aborted>>

\* Fault: a failing rank finalises as the others would.
FailAlone(r) ==
    /\ pc[r] = "caught"
    /\ Goto(r, "finalize")
    /\ UNCHANGED <<pinning, status, rep, entered, rows, aborted>>

\* After the handlers: a failure on one rank is made the job's failure.
FailJob(r) ==
    /\ pc[r] = "caught"
    /\ IF status[r] # 0 THEN Abort(r, status[r])
                        ELSE Goto(r, "finalize") /\ UNCHANGED aborted
    /\ UNCHANGED <<pinning, status, rep, entered, rows>>

\* MPI_Finalize, which may hold each rank until all have called it.
Finalize(r) ==
    /\ pc[r] = "finalize"
    /\ Goto(r, "finalizing")
    /\ UNCHANGED <<pinning, status, rep, entered, rows, aborted>>

Return(r) ==
    /\ pc[r] = "finalizing"
    /\ \A q \in Ranks : pc[q] \in {"finalizing", "returned"}
    /\ Goto(r, "returned")
    /\ UNCHANGED <<pinning, status, rep, entered, rows, aborted>>

\* The launcher takes down the rest of an aborted job, at its own pace.
Kill(r) ==
    /\ aborted # 0
    /\ pc[r] \notin Ended
    /\ Goto(r, "killed")
    /\ UNCHANGED <<pinning, status, rep, entered, rows, aborted>>

Step(r) ==
    /\ UNCHANGED solver
    /\ \/ StartMpi(r) \/ MakeBackend(r)
       \/ ResetWorkspace(r) \/ StartClock(r)
       \/ Exchange(r) \/ Exchanged(r)
       \/ FinishSolve(r) \/ StopClock(r)
       \/ Report(r) \/ FailJob(r) \/ Finalize(r) \/ Return(r) \/ Kill(r)

Next == \E r \in Ranks : Step(r) \/ Throw(r)

Spec == Init /\ [][Next]_vars /\ \A r \in Ranks : WF_vars(Step(r))

-----------------------------------------------------------------------------

JobOver == \A r \in Ranks : pc[r] \in Ended

\* What mpirun returns, and what run_sweep.py reads as the exit code.
JobStatus == aborted

(***************************************************************************)
(* A job that ends with status 0 has written exactly one row, and every    *)
(* rank has finished the warm up and every repetition behind it.  This is  *)
(* what run_sweep.py relies on when it takes the output of a zero exit     *)
(* (src/main.cpp 961-1026; run_sweep.py 1198-1222).                        *)
(***************************************************************************)
CleanExitIsOneWholeRow ==
    JobOver /\ JobStatus = 0 =>
        rows = 1 /\ \A r \in Ranks : rep[r] = Repetitions + 1

(***************************************************************************)
(* Whatever the job's status turns out to be, no row is written while some *)
(* rank is still inside a measured solve, and never a second one: the      *)
(* closing barrier of timed_repetition and is_root() (timed_solve.hpp      *)
(* 75-77, main.cpp 924).                                                   *)
(***************************************************************************)
RowFollowsEverySolve ==
    /\ rows <= 1
    /\ rows = 1 => \A r \in Ranks : rep[r] = Repetitions + 1

(***************************************************************************)
(* A method that does not apply is reported as 3, never as 1, unless some  *)
(* rank failed otherwise, and it never gets as far as a row: run_sweep.py  *)
(* tells an inapplicable combination from a failure by that status alone   *)
(* (main.cpp 873-882, 1000-1003).                                          *)
(***************************************************************************)
InapplicableIsThree ==
    solver = "inapplicable" =>
        /\ rows = 0
        /\ \A r \in Ranks : pinning[r] # "not_requested" => status[r] = 3

(***************************************************************************)
(* No two ranks are ever in collective calls more than one apart, however  *)
(* the repetitions interleave, so a barrier of one repetition can never be *)
(* matched with one of the next (timed_solve.hpp 75-77).                   *)
(***************************************************************************)
CollectivesAligned ==
    \A r, q \in Ranks : entered[r] <= entered[q] + 1

(***************************************************************************)
(* The job always ends, on every rank, however many ranks fail and         *)
(* wherever the others are waiting at that moment: MPI_Abort, and the      *)
(* comment above it (main.cpp 1009-1024).                                  *)
(***************************************************************************)
JobEnds == <>JobOver

(***************************************************************************)
(* "A row that says it pinned must have pinned" (main.cpp 947): the row's  *)
(* `pinning` names a policy only when every worker the row counts was      *)
(* bound.                                                                  *)
(***************************************************************************)
PinnedRowIsPinned ==
    Pinned /\ rows = 1 => \A r \in Ranks : pinning[r] = "bound"
=============================================================================
