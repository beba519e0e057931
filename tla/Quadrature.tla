------------------------------ MODULE Quadrature ------------------------------
(***************************************************************************)
(* Adaptive Simpson and Romberg (numerics/quadrature.hpp).  A panel is an  *)
(* interval between grid points at a depth of the recursion, with what it  *)
(* was handed from the panel above: three ordinates, each the point where  *)
(* it was taken, and Simpson's estimate of the whole, the ordinates and    *)
(* the width it is made of.  What its two halves add to that estimate, in  *)
(* units of 15 times the tolerance, is chosen when it is visited, and may  *)
(* not be a number.                                                        *)
(***************************************************************************)
EXTENDS Routine, Sequences, FiniteSets, FiniteSetsExt

CONSTANTS
    Depths,        \* values of max_depth
    Tolerance,     \* the tolerance asked for: a power of two
    Differences    \* sizes of the correction a panel may turn out to have

\* The grid is as fine as the ordinates of the deepest panels.
Grid == 2 ^ (Max(Depths) + 1)

\* The grid has points; tolerances and corrections have a size.
ASSUME QuadratureAssumption ==
    /\ Grid \in Nat \ {0}
    /\ Tolerance \in Nat
    /\ Differences \subseteq Nat

NotANumber == -1

VARIABLES
    pending,       \* the panels still to be visited, the next one first
    finished,      \* the panels that are leaves, with their corrections
    deepest,       \* the deepest recursion so far
    hit_depth_limit

quadratureVars == <<pending, finished, deepest, hit_depth_limit>>

QuadratureCalls ==
    [routine : {"adaptive_simpson"}, ends : {<<0, Grid>>, <<0, 0>>, <<Grid, 0>>},
     max_depth : Depths]
    \cup [routine : {"romberg"}, max_depth : 0 .. Max(Depths) + 2]

QuadratureRest ==
    /\ pending = <<>>
    /\ finished = {}
    /\ deepest = 0
    /\ hit_depth_limit = FALSE

\* simpson_rule, by what it is computed from.
simpson_rule(ordinates, h) == [of |-> ordinates, width |-> h]

PanelOf(low, high, ordinates, whole, tolerance, depth) ==
    [low |-> low, high |-> high, ordinates |-> ordinates, whole |-> whole,
     tolerance |-> tolerance, depth |-> depth]

Midpoint(low, high) == (low + high) \div 2

-----------------------------------------------------------------------------

\* The interval is refused if it runs backwards, is nothing if it is empty,
\* and otherwise the first panel, after three evaluations.
AdaptiveSimpson ==
    /\ Called({"adaptive_simpson"})
    /\ LET low == call.ends[1]  high == call.ends[2]
           ordinates == <<low, Midpoint(low, high), high>>
       IN  \/ high < low /\ Throw /\ UNCHANGED pending
           \/ /\ high = low
              /\ Return(0, "converged")
              /\ UNCHANGED <<iteration, evaluations, estimate, pending>>
           \/ /\ high > low
              /\ Continue
              /\ evaluations' = 3
              /\ pending' = <<PanelOf(low, high, ordinates,
                                      simpson_rule(ordinates, high - low),
                                      Tolerance, 1)>>
              /\ UNCHANGED <<iteration, estimate>>
    /\ UNCHANGED <<finished, deepest, hit_depth_limit>>

\* A recursive call on one half: its ends, its ordinates, and its tolerance.
HalfOf(p, low, high, ordinates, tolerance) ==
    PanelOf(low, high, ordinates, simpson_rule(ordinates, high - low),
            tolerance, p.depth + 1)

\* Fault: each half is held to the tolerance of the whole.
HalvesAtFullTolerance(p) ==
    LET m == Midpoint(p.low, p.high)
        fa == p.ordinates[1]  fm == p.ordinates[2]  fb == p.ordinates[3]
        flm == Midpoint(p.low, m)  frm == Midpoint(m, p.high)
    IN  <<HalfOf(p, p.low, m, <<fa, flm, fm>>, p.tolerance),
          HalfOf(p, m, p.high, <<fm, frm, fb>>, p.tolerance)>>

\* Fault: the second call is given flm where it needs frm.
MiddleOfTheOtherHalf(p) ==
    LET m == Midpoint(p.low, p.high)
        fa == p.ordinates[1]  fm == p.ordinates[2]  fb == p.ordinates[3]
        flm == Midpoint(p.low, m)
    IN  <<HalfOf(p, p.low, m, <<fa, flm, fm>>, p.tolerance \div 2),
          HalfOf(p, m, p.high, <<fm, flm, fb>>, p.tolerance \div 2)>>

\* The two recursive calls, each with half the tolerance.  Of its ordinates
\* only the one in its middle is new; the others were handed down.
Halves(p) ==
    LET m == Midpoint(p.low, p.high)
        fa == p.ordinates[1]  fm == p.ordinates[2]  fb == p.ordinates[3]
        flm == Midpoint(p.low, m)  frm == Midpoint(m, p.high)
    IN  <<HalfOf(p, p.low, m, <<fa, flm, fm>>, p.tolerance \div 2),
          HalfOf(p, m, p.high, <<fm, frm, fb>>, p.tolerance \div 2)>>

\* The criterion; it never holds of something that is not a number.
SmallEnough(difference, p) == difference # NotANumber /\ difference <= p.tolerance

\* adaptive_simpson_step: two evaluations, and a leaf at the depth limit or
\* where the halves agree with the whole.  The operands of the sum of the two
\* calls may be evaluated in either order.
Visit ==
    /\ Running("adaptive_simpson")
    /\ pending # <<>>
    /\ Continue
    /\ evaluations' = evaluations + 2
    /\ LET p == Head(pending)
       IN  /\ deepest' = Max({deepest, p.depth})
           /\ \E difference \in Differences \cup {NotANumber} :
                IF p.depth >= call.max_depth \/ SmallEnough(difference, p)
                  THEN /\ finished' = finished \cup {[panel |-> p, correction |-> difference]}
                       /\ hit_depth_limit' = (hit_depth_limit \/ p.depth >= call.max_depth)
                       /\ pending' = Tail(pending)
                  ELSE /\ \E first \in {1, 2} :
                            pending' = <<Halves(p)[first], Halves(p)[3 - first]>> \o Tail(pending)
                       /\ UNCHANGED <<finished, hit_depth_limit>>
    /\ UNCHANGED <<iteration, estimate>>

Integrated ==
    /\ Running("adaptive_simpson")
    /\ pending = <<>>
    /\ Return(deepest, IF hit_depth_limit THEN "iteration_cap" ELSE "converged")
    /\ UNCHANGED <<iteration, evaluations, estimate, quadratureVars>>

\* At most 25 rows, and at least two.
max_rows == Min({call.max_depth, 25})

Romberg ==
    /\ Called({"romberg"})
    /\ IF max_rows >= 2
         THEN /\ Continue
              /\ evaluations' = 2
              /\ iteration' = 1
              /\ UNCHANGED estimate
         ELSE Throw
    /\ UNCHANGED quadratureVars

\* One row: the new midpoints, and a test against the diagonal entry before.
RombergRow ==
    /\ Running("romberg")
    /\ iteration < max_rows
    /\ evaluations' = evaluations + 2 ^ (iteration - 1)
    /\ \/ iteration >= 2 /\ Return(iteration, "converged") /\ UNCHANGED iteration
       \/ Continue /\ iteration' = iteration + 1
    /\ UNCHANGED <<estimate, quadratureVars>>

RombergOut ==
    /\ Running("romberg")
    /\ iteration = max_rows
    /\ Return(iteration, "iteration_cap")
    /\ UNCHANGED <<iteration, evaluations, estimate, quadratureVars>>

QuadratureNext ==
    \/ AdaptiveSimpson \/ Visit \/ Integrated
    \/ Romberg \/ RombergRow \/ RombergOut

QuadratureSpec ==
    CallOf(QuadratureCalls) /\ QuadratureRest
    /\ [][QuadratureNext]_<<routineVars, quadratureVars>>

-----------------------------------------------------------------------------
(* Properties *)

Panels == {leaf.panel : leaf \in finished} \cup {pending[i] : i \in 1 .. Len(pending)}

\* The ordinates a panel was handed were taken at its ends and its middle, and
\* the estimate it is compared with is made of them, over its own width.
WellSampled(p) ==
    /\ p.ordinates = <<p.low, Midpoint(p.low, p.high), p.high>>
    /\ p.whole = simpson_rule(p.ordinates, p.high - p.low)

\* At every moment of the recursion, in whatever order its calls are made, each
\* piece of the interval belongs to exactly one panel that is finished or still
\* to be visited, and that panel is sampled where it lies: the value is the
\* integral of the whole interval once, however deep the ordinates were handed.
\* (quadrature.hpp adaptive_simpson_step, the two recursive calls)
EachPieceOnce ==
    Running("adaptive_simpson") =>
        /\ \A piece \in 0 .. Grid - 1 :
              Cardinality({p \in Panels : p.low <= piece /\ piece < p.high}) = 1
        /\ \A p \in Panels : WellSampled(p)

\* A result reported converged is within the tolerance asked for as a whole:
\* the corrections of all its leaves together, however unevenly the interval
\* was divided.  (quadrature.hpp adaptive_simpson, its error estimate)
ErrorsWithinTolerance ==
    Returned({"adaptive_simpson"}) /\ diagnostics.converged =>
        MapThenSumSet(LAMBDA leaf : leaf.correction, finished) <= Tolerance

\* Iterations are the subdivisions actually performed: each doubles the points.
\* (diagnostics.hpp Diagnostics::iterations)
RowsPerformed ==
    Returned({"romberg"}) => evaluations = 1 + 2 ^ diagnostics.iterations
=============================================================================
