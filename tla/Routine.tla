-------------------------------- MODULE Routine --------------------------------
(***************************************************************************)
(* One call of a sequential numerical routine and the evidence it hands    *)
(* back with its value (core/diagnostics.hpp).  The modules of the         *)
(* routines extend this one and add the locals of their loops.             *)
(***************************************************************************)
EXTENDS Integers

VARIABLES
    call,          \* the routine that was called, and its arguments
    status,        \* "called", "running", "returned", "thrown"
    iteration,     \* the counter of its loop
    evaluations,   \* operator applications, or calls of the caller's function
    estimate,      \* error_estimate; its meaning is documented per routine
    diagnostics    \* the rest of the Diagnostics it returned

Abs(n) == IF n < 0 THEN -n ELSE n

routineVars == <<call, status, iteration, evaluations, estimate, diagnostics>>

Reasons ==
    {"converged", "iteration_cap", "stagnated", "breakdown", "diverged", "step_floor"}

Evidence == [iterations : Nat, converged : BOOLEAN, reason : Reasons]

\* What a Diagnostics holds before anything has been said.
NoEvidence == [iterations |-> 0, converged |-> FALSE, reason |-> "iteration_cap"]

CallOf(calls) ==
    /\ call \in calls
    /\ status = "called"
    /\ iteration = 0
    /\ evaluations = 0
    /\ estimate = 0
    /\ diagnostics = NoEvidence

Called(routines) == status = "called" /\ call.routine \in routines
Running(routine) == status = "running" /\ call.routine = routine

Continue == status' = "running" /\ UNCHANGED <<call, diagnostics>>

Return(n, reason) ==
    /\ status' = "returned"
    /\ diagnostics' =
         [iterations |-> n, converged |-> reason = "converged", reason |-> reason]
    /\ UNCHANGED call

\* An exception: the caller sees no Diagnostics.
Throw ==
    /\ status' = "thrown"
    /\ UNCHANGED <<call, iteration, evaluations, estimate, diagnostics>>

Returned(routines) == status = "returned" /\ call.routine \in routines

RoutineTypeOK ==
    /\ status \in {"called", "running", "returned", "thrown"}
    /\ iteration \in Nat
    /\ evaluations \in Nat
    /\ diagnostics \in Evidence
=============================================================================
