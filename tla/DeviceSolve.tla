------------------------------ MODULE DeviceSolve ------------------------------
(***************************************************************************)
(* The device path of the driver (main.cpp, run_cuda) and the host side of *)
(* a device solve (cuda/jacobi_sweep.cu, pnl_cuda_poisson_solve).  An      *)
(* array is the number of the iterate in its interior and whether its      *)
(* boundary ring holds the Dirichlet values; what a reduction returns is   *)
(* any of Norms.  Every call of the CUDA runtime may fail.                 *)
(***************************************************************************)
EXTENDS Routine

CONSTANTS
    Norms,          \* relative residuals a reduction can return
    Target,         \* the tolerance
    Unordered,      \* the member of Norms that is not a number
    SweepCaps,      \* max_iterations
    CheckIntervals, \* check_interval as given, 0 included
    Repetitions     \* timed solves after the warm up

ASSUME DeviceAssumption ==
    /\ SweepCaps \subseteq Nat
    /\ CheckIntervals \subseteq Nat
    /\ Repetitions \in Nat

VARIABLES
    stage,         \* of pnl_cuda_poisson_solve, "idle" outside it
    rep,           \* the repetition, the warm up being -1
    buffers,       \* device arrays allocated and not freed
    events,        \* CUDA events created and not destroyed
    d_x, d_work,   \* device arrays
    host,          \* x in run_cuda
    measured_at,   \* the iterate whose residual `estimate` is
    last_error,    \* what pnl_cuda_last_error describes
    exit           \* the status run_cuda returns

solveLocals == <<d_x, d_work, measured_at>>
deviceVars == <<stage, rep, buffers, events, solveLocals, host, last_error, exit>>

\* An answer that is not a number is under no tolerance.
Under(norm) == norm # Unordered /\ norm <= Target

make_state == [iterate |-> 0, ring |-> TRUE]
Nowhere == [iterate |-> -1, ring |-> FALSE]

Wrongs == {"size", "device", "problem", "solver"}

DeviceCalls ==
    [routine : {"run_cuda"}, wrong : (SUBSET Wrongs) \ {{}}]
    \cup [routine : {"run_cuda"}, wrong : {{}}, method : {"jacobi", "coloured", "cg"},
          max : SweepCaps, interval : CheckIntervals, to_tolerance : BOOLEAN]

DeviceRest ==
    /\ stage = "idle" /\ rep = -1
    /\ buffers = {} /\ events = 0
    /\ d_x = Nowhere /\ d_work = Nowhere /\ host = Nowhere
    /\ measured_at = -1
    /\ last_error = "empty" /\ exit = 0

InStage(s) == Running("run_cuda") /\ stage = s

-----------------------------------------------------------------------------
(* run_cuda *)

\* The size before the device, the device before what it implements.
RunCuda ==
    /\ Called({"run_cuda"})
    /\ IF call.wrong # {}
         THEN /\ exit' = IF "size" \notin call.wrong /\ "device" \in call.wrong THEN 4 ELSE 3
              /\ status' = "thrown"
              /\ UNCHANGED <<stage, host>>
         ELSE /\ status' = "running"
              /\ stage' = "events"
              /\ host' = make_state
              /\ UNCHANGED exit
    /\ UNCHANGED <<call, iteration, evaluations, estimate, diagnostics,
                   rep, buffers, events, solveLocals, last_error>>

\* fail(code): everything allocated is freed, the four events are destroyed,
\* and run_cuda gives up whatever the repetition.
Fail(error) ==
    /\ status' = "thrown"
    /\ exit' = 1
    /\ last_error' = error
    /\ buffers' = {}
    /\ events' = events - 4
    /\ stage' = "idle"
    /\ UNCHANGED <<call, iteration, evaluations, estimate, diagnostics, rep, solveLocals, host>>

\* A call wrapped in PNL_CUDA_OR_FAIL is recorded; a failing reduction inside
\* the iteration is not, and what was recorded before, if anything, stays.
CheckedCallFails == Fail("call")
ReductionFails == Fail(last_error)

-----------------------------------------------------------------------------
(* pnl_cuda_poisson_solve *)

check_interval == IF call.interval < 1 THEN 1 ELSE call.interval

\* A creation that fails leaves the events before it behind.
CreateEvents ==
    /\ InStage("events")
    /\ \/ /\ stage' = "allocate"
          /\ events' = events + 4
          /\ UNCHANGED <<routineVars, exit, last_error>>
       \/ /\ \E created \in 0 .. 3 : events' = events + created
          /\ status' = "thrown" /\ exit' = 1 /\ last_error' = "call"
          /\ stage' = "idle"
          /\ UNCHANGED <<call, iteration, evaluations, estimate, diagnostics>>
    /\ UNCHANGED <<rep, buffers, solveLocals, host>>

Allocate ==
    /\ InStage("allocate")
    /\ \/ /\ buffers' = {"d_x", "d_b", "d_work", "d_r", "d_partials"}
                          \cup (IF call.method = "cg" THEN {"d_p", "d_ap"} ELSE {})
          /\ stage' = "upload"
          /\ UNCHANGED <<routineVars, rep, events, solveLocals, host, last_error, exit>>
       \/ CheckedCallFails

\* Fault: the work array is zeroed instead of copied.
WorkZeroed == [iterate |-> 0, ring |-> FALSE]

\* The work array is a copy of the device's iterate, ring and all.
Work == d_x'

Upload ==
    /\ InStage("upload")
    /\ \/ /\ d_x' = host
          /\ d_work' = Work
          /\ stage' = "norms"
          /\ UNCHANGED <<routineVars, rep, buffers, events, host, measured_at, last_error, exit>>
       \/ CheckedCallFails

\* The norm of the right hand side and the residual of the start.
MeasureStart ==
    /\ InStage("norms")
    /\ \/ /\ \E norm \in Norms : estimate' = norm
          /\ measured_at' = d_x.iterate
          /\ iteration' = 0
          /\ evaluations' = 1
          /\ stage' = "iterate"
          /\ UNCHANGED <<call, status, diagnostics, rep, buffers, events, d_x, d_work, host,
                         last_error, exit>>
       \/ CheckedCallFails
       \/ ReductionFails

\* The loop is left with the number of iterations made.
Leave(n) == iteration' = n /\ stage' = "copy_back"

Capped ==
    /\ InStage("iterate") /\ iteration = call.max
    /\ Leave(iteration)
    /\ UNCHANGED <<call, status, evaluations, estimate, diagnostics, rep, buffers, events,
                   solveLocals, host, last_error, exit>>

\* One iteration further, in the interior; the ring is not written.
Advanced(array) == [iterate |-> array.iterate + 1, ring |-> array.ring]

\* Jacobi reads d_x and writes d_work, then the two are exchanged; a sweep
\* over a ring that is not there computes nothing a solve would compute.
Swept ==
    IF call.method # "jacobi" THEN Advanced(d_x)
    ELSE [iterate |-> IF d_x.ring THEN d_x.iterate + 1 ELSE -1, ring |-> d_work.ring]

Due(n) == n % check_interval = 0 \/ n = call.max

\* One sweep, and the residual when it is due.
StationarySweep ==
    /\ InStage("iterate") /\ iteration < call.max /\ call.method # "cg"
    /\ \/ /\ d_x' = Swept
          /\ d_work' = IF call.method = "jacobi" THEN d_x ELSE d_work
          /\ IF Due(iteration + 1)
               THEN /\ \E norm \in Norms : estimate' = norm
                    /\ measured_at' = d_x'.iterate
                    /\ evaluations' = evaluations + 1
                    /\ IF call.to_tolerance /\ Under(estimate') THEN Leave(iteration + 1)
                       ELSE iteration' = iteration + 1 /\ UNCHANGED stage
               ELSE /\ iteration' = iteration + 1
                    /\ UNCHANGED <<estimate, measured_at, evaluations, stage>>
          /\ UNCHANGED <<call, status, diagnostics, rep, buffers, events, host, last_error, exit>>
       \/ CheckedCallFails
       \/ Due(iteration + 1) /\ ReductionFails

\* The test is at the head of the loop; the curvature of no residual, and of
\* one that is not a number, is not positive and the solve fails.
ConjugateSweep ==
    /\ InStage("iterate") /\ iteration < call.max /\ call.method = "cg"
    /\ IF call.to_tolerance /\ Under(estimate)
         THEN /\ Leave(iteration)
              /\ UNCHANGED <<call, status, evaluations, estimate, diagnostics, rep, buffers,
                             events, solveLocals, host, last_error, exit>>
         ELSE \/ CheckedCallFails
              \/ ReductionFails
              \/ estimate \in {0, Unordered} /\ Fail("curvature")
              \/ /\ estimate \notin {0, Unordered}
                 /\ d_x' = Advanced(d_x)
                 /\ \E norm \in Norms : estimate' = norm
                 /\ measured_at' = d_x'.iterate
                 /\ evaluations' = evaluations + 1
                 /\ iteration' = iteration + 1
                 /\ UNCHANGED <<call, status, diagnostics, stage, rep, buffers, events, d_work,
                                host, last_error, exit>>

\* Of a stationary method only a residual measured after a sweep counts.
converged ==
    /\ call.to_tolerance /\ Under(estimate)
    /\ call.method = "cg" \/ iteration > 0

\* The answer crosses back, the result is filled in and everything is given
\* back; after the last repetition the row is printed.  A failure in between
\* may leave one or both of the two further events behind, and the host's
\* array as it was, written, or written in part.
CopyBack ==
    /\ InStage("copy_back")
    /\ \/ /\ diagnostics' = [iterations |-> iteration, converged |-> converged,
                             reason |-> IF converged THEN "converged" ELSE "iteration_cap"]
          /\ buffers' = {}
          /\ events' = events - 4
          /\ IF rep + 1 = Repetitions
               THEN /\ status' = "returned"
                    /\ stage' = "idle"
                    /\ host' = d_x
                    /\ UNCHANGED rep
               ELSE /\ rep' = rep + 1
                    /\ stage' = "events"
                    /\ host' = make_state
                    /\ UNCHANGED status
          /\ UNCHANGED <<call, iteration, evaluations, estimate, solveLocals, last_error, exit>>
       \/ /\ \E back \in 0 .. 2 : events' = events - 4 + back
          /\ status' = "thrown" /\ exit' = 1 /\ last_error' = "call"
          /\ buffers' = {} /\ stage' = "idle"
          /\ host' \in {host, d_x, Nowhere}
          /\ UNCHANGED <<call, iteration, evaluations, estimate, diagnostics, rep, solveLocals>>

DeviceNext ==
    \/ RunCuda \/ CreateEvents \/ Allocate \/ Upload \/ MeasureStart
    \/ StationarySweep \/ ConjugateSweep \/ Capped \/ CopyBack

DeviceSpec ==
    CallOf(DeviceCalls) /\ DeviceRest /\ [][DeviceNext]_<<routineVars, deviceVars>>

-----------------------------------------------------------------------------
(* Properties *)

Ended == status \in {"returned", "thrown"} /\ call.routine = "run_cuda"

(* The row is printed of what the host was given: the iterate of the number  *)
(* in the row, its ring intact although the arrays were exchanged at every   *)
(* Jacobi sweep, and the residual in the row was measured of it and not of   *)
(* an earlier one; a row that says converged meets the tolerance, and any    *)
(* other made all its iterations.  However the path ends, no array is left   *)
(* on the device.                                                            *)
RowIsTheIterate ==
    /\ Returned({"run_cuda"}) =>
         /\ host = [iterate |-> diagnostics.iterations, ring |-> TRUE]
         /\ measured_at = host.iterate
         /\ diagnostics.converged => call.to_tolerance /\ Under(estimate)
         /\ ~diagnostics.converged => diagnostics.iterations = call.max
    /\ Ended => buffers = {}

(* "non zero to run exactly max_iterations sweeps with no convergence test"  *)
(* (backend/cuda.hpp:122): a fixed run is not stopped by its residual.       *)
FixedRunsThemAll ==
    Ended /\ call.wrong = {} /\ ~call.to_tolerance => last_error # "curvature"

(* "0 on success, non zero on failure; call pnl_cuda_last_error"             *)
(* (backend/cuda.hpp:125): a solve that failed says why.                     *)
FailureIsDescribed == Ended /\ exit = 1 => last_error # "empty"
=============================================================================
