----------------------------- MODULE InitialValue -----------------------------
(***************************************************************************)
(* The step control of the initial value problem integrators               *)
(* (numerics/ode.hpp): classical RK4 with its fixed step, and Dormand      *)
(* Prince with its controller.  Time is counted in whole ticks; the stages *)
(* of a step are one evaluation of the error, which is "exact" (zero),     *)
(* "met" (at most one), "missed" or "nan".                                 *)
(***************************************************************************)
EXTENDS Routine, FiniteSetsExt

CONSTANTS
    Spans,       \* lengths of the interval, in ticks, in either direction
    MinSteps,    \* values of min_step
    StepCaps     \* values of max_steps, and the step counts of RK4

\* Lengths and counts are not negative.
ASSUME IvpAssumption ==
    /\ Spans \subseteq Nat
    /\ MinSteps \subseteq Nat
    /\ StepCaps \subseteq Nat

VARIABLES
    t,           \* the time reached
    h,           \* the step the controller asks for
    k1,          \* the time whose slope the next step starts from
    steps,       \* accepted and rejected steps, as the result reports them
    floored,     \* accepted_at_floor
    worst        \* the errors of the accepted steps

ivpVars == <<t, h, k1, steps, floored, worst>>

Errors == {"exact", "met", "missed", "nan"}

Size(x) == IF x < 0 THEN -x ELSE x

\* A max_step of zero means the whole interval.  A min_step above the largest
\* step is left out: nothing refuses it, and the std::clamp of the controller,
\* whose low bound is then above its high one, is undefined for it.
IvpCalls ==
    {o \in [routine : {"dormand_prince"}, t1 : Spans \cup {-s : s \in Spans},
            min_step : MinSteps, max_step : {0} \cup Spans,
            initial_step : {0} \cup Spans, max_steps : StepCaps] :
        LET largest == IF o.max_step > 0 THEN o.max_step ELSE Size(o.t1)
        IN  o.t1 = 0 \/ o.min_step <= largest}
    \cup {o \in [routine : {"rk4"}, t1 : Spans \cup {-s : s \in Spans}, steps : StepCaps] :
            o.steps = 0 \/ Size(o.t1) % o.steps = 0}

IvpRest ==
    /\ t = 0 /\ h = 0 /\ k1 = 0
    /\ steps = [accepted |-> 0, rejected |-> 0]
    /\ floored = FALSE
    /\ worst = {}

direction == IF call.t1 >= 0 THEN 1 ELSE -1
max_step == IF call.max_step > 0 THEN call.max_step ELSE Size(call.t1)
Clamped(x, low, high) == Max({low, Min({x, high})})

-----------------------------------------------------------------------------

\* The slope at t0, and the first step: the caller's, or a hundredth of the
\* interval.
DormandPrince ==
    /\ Called({"dormand_prince"})
    /\ Continue
    /\ evaluations' = 1
    /\ h' = LET first == IF call.initial_step > 0 THEN call.initial_step
                         ELSE Size(call.t1) \div 100
            IN  Max({Min({first, max_step}), call.min_step})
    /\ UNCHANGED <<iteration, estimate, t, k1, steps, floored, worst>>

\* The endpoint is looked for at the top of the loop.  A run that got there
\* over a step accepted at the floor is not reported as converged.
Arrived ==
    /\ Running("dormand_prince")
    /\ iteration < call.max_steps
    /\ t = call.t1
    /\ Return(steps.accepted, IF floored THEN "step_floor" ELSE "converged")
    /\ UNCHANGED <<iteration, evaluations, estimate, ivpVars>>

OutOfSteps ==
    /\ Running("dormand_prince")
    /\ iteration = call.max_steps
    /\ Return(steps.accepted, "iteration_cap")
    /\ UNCHANGED <<iteration, evaluations, estimate, ivpVars>>

\* The step that is tried does not overshoot the endpoint.
Tried == IF direction * (t + direction * h - call.t1) > 0 THEN Size(call.t1 - t) ELSE h

\* What 0.9 (1/error)^(1/5), held between 0.2 and 5, may make of a step.  An
\* error that is not above zero, a NaN too, asks for the largest growth.
Scaled(x, error) ==
    CASE error = "met"    -> (9 * x) \div 10 .. 5 * x
      [] error = "missed" -> x \div 5 .. (9 * x) \div 10
      [] OTHER            -> {5 * x}

Within(error) == error \in {"exact", "met"}

\* Fault: the slope at the far end replaces the one at t even if the step to
\* it was rejected.
SlopeAfterAnyStep(x, accepts) == t + direction * x

\* First same as last: the slope at the far end of an accepted step.
SlopeAfter(x, accepts) == IF accepts THEN t + direction * x ELSE k1

\* Fault: only the last step is remembered.
FlooredLast(error) == error = "missed"

\* A step above the tolerance was taken because there was none smaller.
Floored(error) == floored \/ error = "missed"

\* One turn: the six stages, the error, the step accepted or not, and the
\* controller.
Attempt ==
    /\ Running("dormand_prince")
    /\ iteration < call.max_steps
    /\ t # call.t1
    /\ Continue
    /\ iteration' = iteration + 1
    /\ evaluations' = evaluations + 6
    /\ \E error \in Errors :
         LET x == Tried
             accepts == Within(error) \/ x <= call.min_step
         IN  /\ k1' = SlopeAfter(x, accepts)
             /\ \E y \in Scaled(x, error) : h' = Clamped(y, call.min_step, max_step)
             /\ IF accepts
                  THEN /\ t' = t + direction * x
                       /\ steps' = [steps EXCEPT !.accepted = @ + 1]
                       /\ floored' = Floored(error)
                       /\ worst' = worst \cup {error}
                  ELSE /\ steps' = [steps EXCEPT !.rejected = @ + 1]
                       /\ UNCHANGED <<t, floored, worst>>
    /\ UNCHANGED estimate

\* RK4: a step count that is not positive is refused.
RungeKutta ==
    /\ Called({"rk4"})
    /\ IF call.steps > 0
         THEN Continue /\ UNCHANGED <<iteration, evaluations, estimate>>
         ELSE Throw
    /\ UNCHANGED ivpVars

\* One step of RK4, its time counted from t0.
Rk4Step ==
    /\ Running("rk4")
    /\ iteration < call.steps
    /\ Continue
    /\ iteration' = iteration + 1
    /\ LET step == direction * (Size(call.t1) \div call.steps)
       IN  t' = iteration * step + step
    /\ evaluations' = evaluations + 4
    /\ steps' = [steps EXCEPT !.accepted = @ + 1]
    /\ UNCHANGED <<estimate, h, k1, floored, worst>>

Rk4Done ==
    /\ Running("rk4")
    /\ iteration = call.steps
    /\ Return(call.steps, "converged")
    /\ UNCHANGED <<iteration, evaluations, estimate, ivpVars>>

IvpNext ==
    \/ DormandPrince \/ Arrived \/ OutOfSteps \/ Attempt
    \/ RungeKutta \/ Rk4Step \/ Rk4Done

IvpSpec == CallOf(IvpCalls) /\ IvpRest /\ [][IvpNext]_<<routineVars, ivpVars>>

-----------------------------------------------------------------------------
(* Properties *)

Integrators == {"dormand_prince", "rk4"}

\* The slope a step starts from is that of the time reached, however many
\* steps were rejected there, and no step ever leaves the interval: the
\* shortened last step included.  (ode.hpp dormand_prince, k1 = k7)
StepsFollowTheSolution ==
    call.routine = "dormand_prince" =>
        /\ k1 = t
        /\ direction * t >= 0
        /\ direction * (call.t1 - t) >= 0

\* An integration is reported converged only if it reached the endpoint and no
\* step of it was measured above the tolerance, and step_floor only if it got
\* there over one that was.  That a run which got there is always reported so is
\* not promised: see CapMeansNotThere.  (ode.hpp dormand_prince, its comment)
ToleranceLabelled ==
    Returned(Integrators) =>
        /\ diagnostics.converged => t = call.t1 /\ "missed" \notin worst
        /\ diagnostics.reason = "step_floor" => t = call.t1 /\ "missed" \in worst

\* A step that does not meet the tolerance and is accepted anyway leaves the
\* result not converged.  (ode.hpp dormand_prince, its comment)
EveryStepMetTolerance ==
    Returned({"dormand_prince"}) /\ diagnostics.converged => worst \subseteq {"exact", "met"}

\* Hitting the cap is told apart from meeting the tolerance.
\* (diagnostics.hpp StopReason)
CapMeansNotThere ==
    Returned({"dormand_prince"}) /\ diagnostics.reason = "iteration_cap" => t # call.t1
=============================================================================
