----------------------------- MODULE RootFinding -----------------------------
(***************************************************************************)
(* Bisection, Newton and Brent (numerics/roots.hpp).  Abscissae are points *)
(* of a grid and the function is whatever its values turn out to be: an    *)
(* ordinate is chosen when it is first asked for, and may not be a number. *)
(* Which interpolation Brent attempts is arithmetic; the model tries every *)
(* step the acceptance test of the code lets through.                      *)
(***************************************************************************)
EXTENDS Routine

CONSTANTS
    Width,         \* the bracket is [0, Width], either way round
    Largest,       \* bound on the size of an ordinate
    Tolerances,    \* half the smallest bracket asked for, in grid points
    RootCaps       \* values of max_iterations

\* The bracket can be halved until it is two grid points wide, so that the
\* midpoints of bisection are points of the grid.
ASSUME RootAssumption ==
    /\ Width \in Nat \ {0}
    /\ \E halvings \in SUBSET (1 .. Width) :
          /\ Width \in halvings
          /\ \A w \in halvings : w % 2 = 0 /\ (w > 2 => w \div 2 \in halvings)
    /\ Largest \in Nat
    /\ Tolerances \subseteq Nat \ {0}
    /\ RootCaps \subseteq Nat

\* Larger than every ordinate that is a number.
NaN == Largest + 1
Ordinates == -Largest .. Largest \cup {NaN}

VARIABLES
    a, b, c,       \* abscissae: the bracket of bisection, the three of Brent
    d, e,          \* Brent: the step just made and the one before
    root,          \* the value to be returned
    known          \* the ordinates evaluated so far

rootVars == <<a, b, c, d, e, root, known>>

Points == 0 .. Width

\* A comparison with a NaN is false.
Less(x, y) == x # NaN /\ y # NaN /\ x < y
Smaller(x, y) == x # NaN /\ y # NaN /\ Abs(x) < Abs(y)

brackets_root(x, y) ==
    /\ x # NaN /\ y # NaN
    /\ x = 0 \/ y = 0 \/ (x < 0) # (y < 0)

same_side(x, y) ==
    /\ x # NaN /\ y # NaN
    /\ x # 0 /\ y # 0 /\ (x < 0) = (y < 0)

RootCalls ==
    [routine : {"bisection", "brent"}, ends : {<<0, Width>>, <<Width, 0>>},
     tolerance : Tolerances, max_iterations : RootCaps]
    \cup [routine : {"newton"}, max_iterations : RootCaps]

RootRest ==
    /\ a = 0 /\ b = 0 /\ c = 0 /\ d = 0 /\ e = 0
    /\ root = 0
    /\ known = <<>>

f(x) == known[x]

\* The caller's function at x, the same value whenever it is asked for.
At(x) == IF x \in DOMAIN known THEN {known[x]} ELSE Ordinates
Learn(x, y) ==
    known' = [p \in DOMAIN known \cup {x} |-> IF p = x THEN y ELSE known[p]]

-----------------------------------------------------------------------------

\* Both ends are evaluated; an end that is a root is the answer.  Brent calls
\* the better end b.
Enclose ==
    /\ Called({"bisection", "brent"})
    /\ \E fa, fb \in Ordinates :
         LET low == call.ends[1]  high == call.ends[2]
             swapped == call.routine = "brent" /\ Smaller(fa, fb)
         IN  /\ known' = [x \in {low, high} |-> IF x = low THEN fa ELSE fb]
             /\ IF ~brackets_root(fa, fb)
                  THEN Throw /\ UNCHANGED <<a, b, c, d, e, root>>
                  ELSE /\ evaluations' = 2
                       /\ a' = IF swapped THEN high ELSE low
                       /\ b' = IF swapped THEN low ELSE high
                       /\ c' = a'
                       /\ d' = b' - a'
                       /\ e' = d'
                       /\ root' = IF fa = 0 THEN low ELSE IF fb = 0 THEN high ELSE a'
                       /\ UNCHANGED <<iteration, estimate>>
                       /\ IF 0 \in {fa, fb} THEN Return(0, "converged") ELSE Continue

OutOfTurns ==
    /\ status = "running" /\ call.routine \in {"bisection", "brent", "newton"}
    /\ iteration = call.max_iterations
    /\ Return(iteration, "iteration_cap")
    /\ root' = IF call.routine = "brent" THEN b ELSE root
    /\ UNCHANGED <<iteration, evaluations, estimate, a, b, c, d, e, known>>

Turning(routine) == Running(routine) /\ iteration < call.max_iterations

\* The sign at the midpoint is that of a, so the root is in the other half.
KeepsRight(x, fm) == (f(x) < 0) = (fm < 0)

\* One turn of bisection; error_estimate in half grid points.
Bisect ==
    /\ Turning("bisection")
    /\ LET middle == (a + b) \div 2
       IN  /\ root' = middle
           /\ IF Abs(b - a) <= 2 * call.tolerance
                THEN /\ Return(iteration, "converged")
                     /\ estimate' = Abs(b - a)
                     /\ UNCHANGED <<iteration, evaluations, a, b, known>>
                ELSE /\ evaluations' = evaluations + 1
                     /\ \E fm \in At(middle) :
                          /\ Learn(middle, fm)
                          /\ IF fm = 0
                               THEN /\ Return(iteration, "converged")
                                    /\ estimate' = 0
                                    /\ UNCHANGED <<iteration, a, b>>
                               ELSE /\ Continue
                                    /\ iteration' = iteration + 1
                                    /\ IF KeepsRight(a, fm)
                                         THEN a' = middle /\ b' = b
                                         ELSE a' = a /\ b' = middle
                                    /\ estimate' = Abs(b' - a')
    /\ UNCHANGED <<c, d, e>>

\* Newton's first turn starts where the caller said.
NewtonStarts ==
    /\ Called({"newton"})
    /\ Continue
    /\ UNCHANGED <<iteration, evaluations, estimate, rootVars>>

\* One turn of Newton: a value or slope that is not finite ends it, a slope of
\* zero throws, a step within the tolerance converges.
NewtonTurn ==
    /\ Turning("newton")
    /\ \/ /\ Return(iteration, "diverged")
          /\ evaluations' = evaluations + 2
          /\ UNCHANGED <<iteration, estimate>>
       \/ Throw
       \/ \E step \in {1, 2} :
            /\ evaluations' = evaluations + 2
            /\ estimate' = step
            /\ iteration' = iteration + 1
            /\ IF step = 1 THEN Return(iteration + 1, "converged") ELSE Continue
    /\ UNCHANGED rootVars

\* Fault: b and c are taken to enclose the root whatever their signs are.
SidesAsTheyAre(x) == [x EXCEPT !.c = x.c]

\* If b and c lie on the same side, the root is between b and a.
Sides(x) ==
    IF same_side(f(x.b), f(x.c))
    THEN [x EXCEPT !.c = x.a, !.d = x.b - x.a, !.e = x.b - x.a]
    ELSE x

\* b is the best of the two ends.
Best(x) ==
    IF Smaller(f(x.c), f(x.b))
    THEN [x EXCEPT !.a = x.b, !.b = x.c, !.c = x.b]
    ELSE x

\* The steps of an interpolation that the two limits let through: towards c,
\* short of three quarters of the way, and less than half the step before.
Interpolations(x) ==
    IF Abs(x.e) >= call.tolerance /\ Smaller(f(x.b), f(x.a))
    THEN {s \in -Width .. Width :
            /\ s * (x.c - x.b) >= 0
            /\ 4 * Abs(s) < 3 * Abs(x.c - x.b) - 2 * call.tolerance
            /\ 2 * Abs(s) < Abs(x.e)}
    ELSE {}

\* A midpoint between two grid points is rounded one way or the other.
Midpoints(x) == {(x.c - x.b) \div 2, -((x.b - x.c) \div 2)}

\* One turn of Brent: the three abscissae put in order, the test, a step by
\* interpolation or bisection but never shorter than the tolerance, and the
\* ordinate there.
Brent ==
    /\ Turning("brent")
    /\ LET x == Best(Sides([a |-> a, b |-> b, c |-> c, d |-> d, e |-> e]))
           width == x.c - x.b
       IN  IF Abs(width) <= 2 * call.tolerance \/ f(x.b) = 0
             THEN /\ Return(iteration, "converged")
                  /\ estimate' = IF f(x.b) = 0 THEN 0 ELSE Abs(width)
                  /\ root' = x.b /\ a' = x.a /\ b' = x.b /\ c' = x.c /\ d' = x.d /\ e' = x.e
                  /\ UNCHANGED <<iteration, evaluations, known>>
             ELSE /\ Continue
                  /\ estimate' = Abs(width)
                  /\ iteration' = iteration + 1
                  /\ evaluations' = evaluations + 1
                  /\ \/ \E s \in Interpolations(x) : d' = s /\ e' = x.d
                     \/ \E m \in Midpoints(x) : d' = m /\ e' = m
                  /\ a' = x.b
                  /\ c' = x.c
                  /\ b' = x.b + (IF Abs(d') > call.tolerance THEN d'
                                 ELSE IF width > 0 THEN call.tolerance
                                 ELSE -call.tolerance)
                  /\ \E y \in At(b') : Learn(b', y)
                  /\ UNCHANGED root

RootNext ==
    \/ Enclose \/ OutOfTurns \/ Bisect \/ NewtonStarts \/ NewtonTurn \/ Brent

RootSpec ==
    CallOf(RootCalls) /\ RootRest /\ [][RootNext]_<<routineVars, rootVars>>

-----------------------------------------------------------------------------
(* Properties *)

Enclosers == {"bisection", "brent"}

\* Two evaluated points within r of x, in half grid points, that enclose a root.
RootWithin(r, x) ==
    \E u, v \in DOMAIN known :
        /\ 2 * Abs(u - x) <= r /\ 2 * Abs(v - x) <= r
        /\ brackets_root(f(u), f(v))

\* A root finder that reports convergence has a sign change, or a zero, within
\* what it reports: half the bracket about bisection's midpoint, all of it on
\* one side of the end that Brent returns.  After any sequence of accepted and
\* refused interpolations, for a function that is a number where it was asked.
\* (roots.hpp bisection, brent)
BracketHeld ==
    Returned(Enclosers) /\ diagnostics.converged /\ (\A x \in DOMAIN known : f(x) # NaN) =>
        RootWithin(IF call.routine = "brent" THEN 2 * estimate ELSE estimate, root)

\* The half width is a genuine bound on the distance to the root, however
\* bisection ended.  (roots.hpp bisection, its comment)
BoundIsGenuine ==
    Returned({"bisection"}) /\ (\A x \in DOMAIN known : f(x) # NaN) =>
        RootWithin(estimate, root)

\* What Brent reports as converged encloses a root even when the function was
\* no number on the way.  (roots.hpp brent, "the bracket is maintained at every step")
BracketHeldThroughNaN ==
    Returned({"brent"}) /\ diagnostics.converged => RootWithin(2 * estimate, root)
=============================================================================
