----------------------------- MODULE SolverLoops -----------------------------
(***************************************************************************)
(* When each of the three iteration loops of the solvers stops and what it *)
(* then reports: the shared driver detail::run_stationary, Richardson's    *)
(* own loop, which carries its residual from one iteration to the next,    *)
(* and conjugate gradient's.  The arithmetic is one chosen stream: the     *)
(* size of the residual at each iterate, "zero", "met" (within the         *)
(* tolerance), "large", or "unbounded" (not a finite number).              *)
(***************************************************************************)
EXTENDS Routine, FiniteSetsExt

CONSTANTS
    Methods,        \* of "stationary", "richardson", "cg"
    MaxIterations,  \* bound on options.max_iterations
    Intervals       \* values of options.check_interval

ASSUME LoopAssumption ==
    /\ Methods \in SUBSET {"stationary", "richardson", "cg"}
    /\ MaxIterations \in Nat
    /\ Intervals \in SUBSET (Nat \ {0})

Sizes == {"zero", "met", "large", "unbounded"}

options == call.options
sizes == call.sizes

Options ==
    [max_iterations : 0 .. MaxIterations, check_interval : Intervals,
     to_tolerance : BOOLEAN, sweeps : {1, 2}, definite : BOOLEAN]

\* A sweep stands for one operator application, or two.  The initial state is
\* zero and the right hand side finite, so the first residual is finite.
Solve(method, opts) ==
    {[routine |-> method, options |-> opts, sizes |-> s] :
        s \in {s \in [0 .. opts.max_iterations -> Sizes] : s[0] # "unbounded"}}

\* Only conjugate gradient minds a direction without curvature, and only a
\* stationary method has more than one sweep.
SolverInit ==
    \E method \in Methods, opts \in Options :
        /\ method # "stationary" => opts.sweeps = 1
        /\ method # "cg" => opts.definite
        /\ CallOf(Solve(method, opts))

\* The iterate error_estimate, the relative residual, was taken at.
measured == estimate

-----------------------------------------------------------------------------

Met(n) == sizes[n] \in {"zero", "met"}

\* Fault: the last iteration is checked only when the interval says so.
check_due_by_interval(n) == (n + 1) % options.check_interval = 0

\* check_due, asked in the iteration that makes iterate n + 1.
check_due(n) ==
    \/ (n + 1) % options.check_interval = 0
    \/ n + 1 = options.max_iterations

\* Fault: a fixed run stops on its tolerance too.
TestAlways(n) ==
    IF sizes[n] = "unbounded" THEN "diverged"
    ELSE IF Met(n) THEN "converged"
    ELSE "continue"

\* apply_check at iterate n, and the same two tests in conjugate gradient.
Test(n) ==
    IF sizes[n] = "unbounded" THEN "diverged"
    ELSE IF options.to_tolerance /\ Met(n) THEN "converged"
    ELSE "continue"

\* The loop is left with this counter, and finalise_reason.
Finish(n, outcome) ==
    /\ iteration' = n
    /\ Return(n, IF options.to_tolerance THEN outcome ELSE "iteration_cap")

\* The residual at the initial state, and its test under a tolerance.
Start ==
    /\ Called(Methods)
    /\ evaluations' = 1
    /\ IF options.to_tolerance /\ Met(0)
         THEN Finish(0, "converged")
         ELSE Continue /\ UNCHANGED iteration
    /\ UNCHANGED estimate

\* The loop's bound: max_iterations have been done.
Exhausted ==
    /\ status = "running" /\ call.routine \in Methods
    /\ iteration = options.max_iterations
    /\ Finish(iteration, "iteration_cap")
    /\ UNCHANGED <<evaluations, estimate>>

Turn(method) == Running(method) /\ iteration < options.max_iterations

\* The turn ends with the residual at iterate n tested: on to the next turn,
\* or out of the loop.
Tested(n) ==
    /\ estimate' = n
    /\ IF Test(n) = "continue"
         THEN iteration' = iteration + 1 /\ Continue
         ELSE Finish(iteration + 1, Test(n))

Untested ==
    /\ iteration' = iteration + 1
    /\ Continue
    /\ UNCHANGED estimate

\* One turn of run_stationary: a sweep, and a residual when one is due.
Sweep ==
    /\ Turn("stationary")
    /\ IF check_due(iteration)
         THEN Tested(iteration + 1) /\ evaluations' = evaluations + options.sweeps + 1
         ELSE Untested /\ evaluations' = evaluations + options.sweeps

\* One turn of Richardson: the residual is evaluated at every iterate, and
\* tested when the driver would have tested it.
Richardson ==
    /\ Turn("richardson")
    /\ IF check_due(iteration) THEN Tested(iteration + 1) ELSE Untested
    /\ evaluations' = evaluations + 1

\* Fault: the zero residual is not looked for.
LooksForNothing(n) == FALSE

\* The zero residual conjugate gradient looks for before anything else.
LooksExact(n) == sizes[n] = "zero"

Exact ==
    /\ Turn("cg")
    /\ LooksExact(iteration)
    /\ Finish(iteration, "converged")
    /\ UNCHANGED <<evaluations, estimate>>

\* The curvature is positive: of a direction that is not zero, under an
\* operator that is definite.  One that is not may still show none here.
Curved(n) == sizes[n] # "zero"

Breakdown ==
    /\ Turn("cg")
    /\ ~LooksExact(iteration)
    /\ Curved(iteration) => ~options.definite
    /\ Throw

\* One turn of conjugate gradient, tested at every iterate.
ConjugateGradient ==
    /\ Turn("cg")
    /\ ~LooksExact(iteration)
    /\ Curved(iteration)
    /\ Tested(iteration + 1)
    /\ evaluations' = evaluations + 1

SolverNext ==
    \/ Start \/ Exhausted \/ Sweep \/ Richardson
    \/ Exact \/ Breakdown \/ ConjugateGradient

SolverSpec == SolverInit /\ [][SolverNext]_routineVars

-----------------------------------------------------------------------------
(* Properties *)

\* A run never reports a residual it did not measure at the iterate it
\* returns, at whatever interval it was told to check.
\* (splitting.hpp check_due, richardson.hpp and cg.hpp)
ResidualIsOfTheIterate ==
    Returned(Methods) => measured = diagnostics.iterations

\* The iterates a method is to be tested at, and the first that stops it.
DueAt(n) == n % options.check_interval = 0 \/ n = options.max_iterations

Stops(n) ==
    \/ sizes[n] = "unbounded"
    \/ options.to_tolerance /\ Met(n)

Stopping ==
    {n \in 0 .. options.max_iterations :
        IF n = 0 THEN options.to_tolerance /\ Met(0) ELSE DueAt(n) /\ Stops(n)}

\* The driver and Richardson's own loop stop on the same criterion applied to
\* the same quantity: at the first due iterate that is not finite or meets the
\* tolerance asked for, or after every iteration, and only a run to tolerance
\* says why.  (splitting.hpp apply_check, richardson.hpp solve)
SameStop ==
    Returned(Methods \ {"cg"}) =>
        /\ diagnostics.iterations =
             IF Stopping = {} THEN options.max_iterations ELSE Min(Stopping)
        /\ diagnostics.reason =
             IF Stopping = {} \/ ~options.to_tolerance THEN "iteration_cap"
             ELSE IF sizes[diagnostics.iterations] = "unbounded" THEN "diverged"
             ELSE "converged"

\* The reported cost is every operator application made: the initial residual,
\* those of the sweeps, and one for each residual that fell due; one per
\* iteration for the other two methods.  (diagnostics.hpp Diagnostics::evaluations)
EvaluationsCounted ==
    Returned(Methods) =>
        evaluations =
            IF call.routine # "stationary" THEN 1 + iteration
            ELSE LET due == iteration \div options.check_interval
                     last == IF /\ iteration > 0
                                /\ iteration = options.max_iterations
                                /\ iteration % options.check_interval # 0
                             THEN 1 ELSE 0
                 IN  1 + options.sweeps * iteration + due + last

\* A run's place to stop and its reported cost are both those of the method and
\* the interval alone.
StopsAndCosts == SameStop /\ EvaluationsCounted

\* An exactly solved system is not reported as an operator that is not
\* positive definite.  (cg.hpp solve, the check at the head of the loop)
ExactIsNotBreakdown ==
    status = "thrown" /\ call.routine \in Methods => ~options.definite

\* check_interval is the iterations between residual evaluations, an option
\* common to every solver: a solve converges at an iterate that was due one.
\* (splitting.hpp SolverOptions::check_interval)
ConvergesWhenDue ==
    Returned(Methods) /\ diagnostics.converged => DueAt(diagnostics.iterations)
=============================================================================
