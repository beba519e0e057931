-------------------------------- MODULE DenseLU --------------------------------
(***************************************************************************)
(* Direct solution of linear systems (numerics/lu.hpp): LU with partial    *)
(* pivoting, and the Thomas algorithm.  A number is a fraction in lowest   *)
(* terms and arithmetic is exact: rounding is not modelled.                *)
(***************************************************************************)
EXTENDS Routine, FiniteSets, FiniteSetsExt, Functions

CONSTANTS
    Order,         \* of the dense matrices and the tridiagonal ones
    Entries,       \* whole numbers: entries of the dense matrices
    Diagonals,     \* entries on the diagonal of the tridiagonal ones
    OffDiagonals,  \* and beside it
    RightSides     \* right hand sides

VARIABLES
    phase,         \* "factorise", "forward", "back", for Thomas too
    lu,            \* the matrix, overwritten by its factors
    pivots, sign,
    x,             \* the right hand side, overwritten by the solution
    c_prime,       \* Thomas: the modified super diagonal
    finite         \* nothing was divided by zero

luVars == <<phase, lu, pivots, sign, x, c_prime, finite>>

Rows == 1 .. Order

LuCalled ==
    \/ CallOf([routine : {"lu_solve"}, matrix : [Rows -> [Rows -> Entries]], b : RightSides])
    \/ \E lower, upper \in [Rows -> OffDiagonals] :
         /\ lower[1] = 0 /\ upper[Order] = 0
         /\ CallOf([routine : {"thomas_solve"}, lower : {lower}, upper : {upper},
                    diagonal : [Rows -> Diagonals], b : RightSides])

LuRest ==
    /\ phase = "factorise"
    /\ lu = <<>> /\ pivots = <<>> /\ sign = 1
    /\ x = <<>> /\ c_prime = <<>>
    /\ finite = TRUE

-----------------------------------------------------------------------------
(* Fractions *)

Gcd[m, n \in Nat] == IF n = 0 THEN m ELSE Gcd[n, m % n]

Fraction(n, d) ==
    LET g == IF d < 0 THEN -Gcd[Abs(n), Abs(d)] ELSE Gcd[Abs(n), Abs(d)]
    IN  IF g < 0 THEN <<(-n) \div (-g), (-d) \div (-g)>> ELSE <<n \div g, d \div g>>

Whole(n) == <<n, 1>>
Zero == Whole(0)
Minus(u, v) == Fraction(u[1] * v[2] - v[1] * u[2], u[2] * v[2])
Times(u, v) == Fraction(u[1] * v[1], u[2] * v[2])
Larger(u, v) == Abs(u[1]) * v[2] > Abs(v[1]) * u[2]

\* The quotient; that something was divided by zero is in `finite`.
Over(u, v) == IF v = Zero THEN Zero ELSE Fraction(u[1] * v[2], u[2] * v[1])

\* What is left of value when the products of row and y over S are taken off.
Reduced(value, row, y, S) ==
    MapThenFoldSet(LAMBDA v, rest : Minus(rest, v), value,
                   LAMBDA j : Times(row[j], y[j]), LAMBDA T : CHOOSE j \in T : TRUE, S)

ProductOf(first, f) == FoldFunction(Times, first, f)

-----------------------------------------------------------------------------
(* LU *)

LuSolve ==
    /\ Called({"lu_solve"})
    /\ Continue
    /\ lu' = [i \in Rows |-> [j \in Rows |-> Whole(call.matrix[i][j])]]
    /\ pivots' = [k \in Rows |-> k]
    /\ x' = [i \in Rows |-> Whole(call.b[i])]
    /\ UNCHANGED <<iteration, evaluations, estimate, phase, sign, c_prime, finite>>

\* The first of the rows from k on with the largest entry in column k.
Pivot(k) ==
    Min({i \in k .. Order : \A j \in k .. Order : ~Larger(lu[j][k], lu[i][k])})

Swapped(s, i, j) == [s EXCEPT ![i] = s[j], ![j] = s[i]]

\* One column: whole rows are exchanged, multipliers and all, and the
\* multipliers of this column take the place of the zeros below the pivot.
Factorise ==
    /\ Running("lu_solve") /\ phase = "factorise"
    /\ LET k == iteration + 1
           pivot == Pivot(k)
           m == Swapped(lu, k, pivot)
           multiplier(i) == Over(m[i][k], m[k][k])
       IN  IF m[k][k] = Zero
             THEN Throw /\ UNCHANGED luVars
             ELSE /\ Continue
                  /\ pivots' = [pivots EXCEPT ![k] = pivot]
                  /\ sign' = IF pivot = k THEN sign ELSE -sign
                  /\ lu' = [i \in Rows |-> [j \in Rows |->
                              IF i <= k \/ j < k THEN m[i][j]
                              ELSE IF j = k THEN multiplier(i)
                              ELSE Minus(m[i][j], Times(multiplier(i), m[k][j]))]]
                  /\ iteration' = k % Order
                  /\ phase' = IF k = Order THEN "forward" ELSE phase
                  /\ UNCHANGED <<evaluations, estimate, x, c_prime, finite>>

\* Fault: the right hand side is not exchanged.
NotExchanged(k) == x

Exchanged(k) == Swapped(x, k, pivots[k])

\* One row of the forward substitution, its exchange just before it.
Forward ==
    /\ Running("lu_solve") /\ phase = "forward"
    /\ LET k == iteration + 1
           y == Exchanged(k)
       IN  /\ x' = [y EXCEPT ![k] = Reduced(y[k], lu[k], y, 1 .. k - 1)]
           /\ iteration' = k
           /\ phase' = IF k = Order THEN "back" ELSE phase
    /\ Continue
    /\ UNCHANGED <<evaluations, estimate, lu, pivots, sign, c_prime, finite>>

\* One row of the back substitution through U.
Back ==
    /\ Running("lu_solve") /\ phase = "back" /\ iteration > 0
    /\ LET k == iteration
       IN  x' = [x EXCEPT ![k] = Over(Reduced(x[k], lu[k], x, k + 1 .. Order), lu[k][k])]
    /\ iteration' = iteration - 1
    /\ Continue
    /\ UNCHANGED <<evaluations, estimate, phase, lu, pivots, sign, c_prime, finite>>

determinant == ProductOf(Whole(sign), [k \in Rows |-> lu[k][k]])

-----------------------------------------------------------------------------
(* The matrix of the call *)

Coefficient(i, j) ==
    Whole(IF call.routine = "lu_solve" THEN call.matrix[i][j]
          ELSE CASE j = i     -> call.diagonal[i]
                 [] j = i - 1 -> call.lower[i]
                 [] j = i + 1 -> call.upper[i]
                 [] OTHER     -> 0)

ResidualAt(i) ==
    Reduced(Whole(call.b[i]), [j \in Rows |-> Coefficient(i, j)], x, Rows)

\* The residual is measured, and it alone decides what is reported.
MeasureLu ==
    /\ Running("lu_solve") /\ phase = "back" /\ iteration = 0
    /\ evaluations' = Order
    /\ Return(1, IF \A i \in Rows : ResidualAt(i) = Zero THEN "converged" ELSE "stagnated")
    /\ UNCHANGED <<iteration, estimate, luVars>>

-----------------------------------------------------------------------------
(* Thomas *)

off(i) == (IF i > 1 THEN Abs(call.lower[i]) ELSE 0)
          + (IF i < Order THEN Abs(call.upper[i]) ELSE 0)

\* Every row is to be dominant; then the first row of the forward sweep.
ThomasSolve ==
    /\ Called({"thomas_solve"})
    /\ IF \E i \in Rows : Abs(call.diagonal[i]) < off(i)
         THEN Throw /\ UNCHANGED luVars
         ELSE /\ Continue
              /\ LET first == Whole(call.diagonal[1])
                 IN  /\ c_prime' = [i \in Rows |-> IF i = 1 THEN Over(Whole(call.upper[1]), first)
                                                   ELSE Zero]
                     /\ x' = [i \in Rows |-> IF i = 1 THEN Over(Whole(call.b[1]), first)
                                             ELSE Whole(call.b[i])]
                     /\ finite' = (first # Zero)
              /\ iteration' = 1
              /\ phase' = IF Order = 1 THEN "back" ELSE "forward"
              /\ UNCHANGED <<evaluations, estimate, lu, pivots, sign>>

Denominator(i) == Minus(Whole(call.diagonal[i]), Times(Whole(call.lower[i]), c_prime[i - 1]))

ThomasForward ==
    /\ Running("thomas_solve") /\ phase = "forward"
    /\ LET i == iteration + 1
       IN  /\ c_prime' = [c_prime EXCEPT ![i] = Over(Whole(call.upper[i]), Denominator(i))]
           /\ x' = [x EXCEPT ![i] =
                      Over(Minus(x[i], Times(Whole(call.lower[i]), x[i - 1])), Denominator(i))]
           /\ finite' = (finite /\ Denominator(i) # Zero)
           /\ iteration' = i
           /\ phase' = IF i = Order THEN "back" ELSE phase
    /\ Continue
    /\ UNCHANGED <<evaluations, estimate, lu, pivots, sign>>

\* The rows above the last, upwards.
ThomasBack ==
    /\ Running("thomas_solve") /\ phase = "back" /\ iteration > 1
    /\ LET i == iteration - 1
       IN  x' = [x EXCEPT ![i] = Minus(x[i], Times(c_prime[i], x[i + 1]))]
    /\ iteration' = iteration - 1
    /\ Continue
    /\ UNCHANGED <<evaluations, estimate, phase, lu, pivots, sign, c_prime, finite>>

ThomasReturn ==
    /\ Running("thomas_solve") /\ phase = "back" /\ iteration = 1
    /\ Return(0, "converged")
    /\ UNCHANGED <<iteration, evaluations, estimate, luVars>>

LuNext ==
    \/ LuSolve \/ Factorise \/ Forward \/ Back \/ MeasureLu
    \/ ThomasSolve \/ ThomasForward \/ ThomasBack \/ ThomasReturn

LuSpec == LuCalled /\ LuRest /\ [][LuNext]_<<routineVars, luVars>>

-----------------------------------------------------------------------------
(* Properties *)

Bijections == {p \in [Rows -> Rows] : \A i, j \in Rows : p[i] = p[j] => i = j}
Inversions(p) == Cardinality({r \in Rows \X Rows : r[1] < r[2] /\ p[r[1]] > p[r[2]]})

\* The determinant of the matrix of the call as the sum over permutations.
Leibniz ==
    MapThenFoldSet(
        LAMBDA term, rest : Minus(rest, term), Zero,
        LAMBDA p : ProductOf(Whole(IF Inversions(p) % 2 = 0 THEN -1 ELSE 1),
                             [i \in Rows |-> Coefficient(i, p[i])]),
        LAMBDA T : CHOOSE p \in T : TRUE, Bijections)

(* What is returned solves the system, whatever rows were exchanged on the   *)
(* way and although the exchanges reach the right hand side one at a time,   *)
(* in the middle of the substitution: LU refuses exactly the matrices whose  *)
(* determinant, taken over all permutations, is zero, and its own            *)
(* determinant is that one; Thomas, which exchanges nothing, solves each     *)
(* dominant system in which no denominator vanished.                         *)
SolvesTheSystem ==
    /\ Returned({"lu_solve"}) => determinant = Leibniz
    /\ Returned({"lu_solve"}) \/ (Returned({"thomas_solve"}) /\ finite) =>
         \A i \in Rows : ResidualAt(i) = Zero
    /\ call.routine = "lu_solve" /\ status = "thrown" => Leibniz = Zero

(* "No pivoting, which is safe precisely when the matrix is diagonally       *)
(* dominant; that is checked" (lu.hpp:239): a system that passed the check   *)
(* is solved without a division by zero.                                     *)
DominantIsSafe == Returned({"thomas_solve"}) => finite
=============================================================================
