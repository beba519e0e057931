--------------------------- MODULE SequentialProofs ---------------------------
(***************************************************************************)
(* The routines that return a Diagnostics, for every argument: the solver  *)
(* loops, the device path of the driver, the integrators, the root finders *)
(* and adaptive quadrature, each under its own specification.              *)
(***************************************************************************)
EXTENDS SolverLoops, DeviceSolve, InitialValue, RootFinding, Quadrature,
        FiniteSetTheorems, SequenceTheorems, TLAPS

-----------------------------------------------------------------------------
(***************************************************************************)
(* The solver loops.  For every iteration cap, check interval and stream   *)
(* of residuals they report the residual of the iterate they return, stop  *)
(* where the criterion first holds, and count what they spent.             *)
(***************************************************************************)

\* A solve that was called: of these methods, with a residual for every
\* iterate it may reach, the first of them finite.
SolveCalled ==
    /\ call.routine \in Methods
    /\ options \in Options
    /\ sizes \in [0 .. options.max_iterations -> Sizes]
    /\ sizes[0] # "unbounded"
    /\ call.routine # "stationary" => options.sweeps = 1
    /\ call.routine # "cg" => options.definite

LoopTypeOK ==
    /\ SolveCalled
    /\ RoutineTypeOK
    /\ iteration \in 0 .. options.max_iterations

\* Every residual of this far has been looked at where it was due, and none
\* of them stopped the loop.
Unstopped(n) == \A k \in 0 .. n : k \notin Stopping

\* What the loops know at the head of a turn.
AtTheHead ==
    status = "running" =>
        /\ call.routine = "cg" \/ iteration = options.max_iterations
             => measured = iteration
        /\ call.routine # "cg" => Unstopped(iteration)

\* What they know when they have returned.
AtTheEnd ==
    status = "returned" =>
        /\ diagnostics.iterations = iteration
        /\ measured = iteration
        /\ call.routine # "cg" =>
             \/ /\ Unstopped(options.max_iterations)
                /\ iteration = options.max_iterations
                /\ diagnostics.reason = "iteration_cap"
             \/ /\ iteration \in Stopping
                /\ \A k \in Stopping : iteration <= k
                /\ diagnostics.reason =
                     IF ~options.to_tolerance THEN "iteration_cap"
                     ELSE IF sizes[iteration] = "unbounded" THEN "diverged"
                     ELSE "converged"

\* Residuals evaluated besides the first after n iterations of the driver.
Checks(n) ==
    n \div options.check_interval
      + (IF /\ n > 0 /\ n = options.max_iterations
            /\ n % options.check_interval # 0 THEN 1 ELSE 0)

Spent ==
    IF call.routine = "stationary"
      THEN evaluations = 1 + options.sweeps * iteration + Checks(iteration)
      ELSE evaluations = 1 + iteration

Resting == status = "called" => iteration = 0 /\ measured = 0

\* A loop throws for an operator that is not definite and for nothing else.
OnlyIndefinite == status = "thrown" => ~options.definite

LoopInvariant ==
    /\ LoopTypeOK
    /\ Resting
    /\ AtTheHead
    /\ AtTheEnd
    /\ status \in {"running", "returned"} => Spent
    /\ OnlyIndefinite

-----------------------------------------------------------------------------
\* Division with remainder, and that it has one result.
LEMMA Division ==
    ASSUME NEW n \in Nat, NEW m \in Nat \ {0}
    PROVE  /\ n \div m \in Nat
           /\ (n % m) \in 0 .. m - 1
           /\ n = m * (n \div m) + (n % m)
<1>1. n \div m \in Nat
  BY SMT
<1>2. (n % m) \in 0 .. m - 1
  BY SMT
<1>3. n = m * (n \div m) + (n % m)
  BY SMT
<1> QED BY <1>1, <1>2, <1>3

LEMMA DivisionIsUnique ==
    ASSUME NEW n \in Nat, NEW m \in Nat \ {0}, NEW q \in Nat, NEW r \in 0 .. m - 1,
           n = m * q + r
    PROVE  n \div m = q /\ (n % m) = r
<1>1. n \div m = q
  BY SMT
<1>2. (n % m) = r
  BY SMTT(60)
<1> QED BY <1>1, <1>2

\* The number of multiples of m up to n grows by one at a multiple of m.
LEMMA NextMultiple ==
    ASSUME NEW n \in Nat, NEW m \in Nat \ {0}
    PROVE  (n + 1) \div m = (n \div m) + (IF (n + 1) % m = 0 THEN 1 ELSE 0)
<1> DEFINE q == n \div m
           r == n % m
<1>1. /\ n = m * q + r
      /\ r \in 0 .. m - 1
      /\ q \in Nat
  BY Division
<1> HIDE DEF q, r
<1>2. CASE r + 1 < m
  <2>1. (n + 1) = m * q + (r + 1) /\ r + 1 \in 0 .. m - 1
    BY <1>1, <1>2
  <2>2. (n + 1) \div m = q /\ (n + 1) % m = r + 1
    BY <1>1, <2>1, DivisionIsUnique
  <2> QED BY <1>1, <2>2 DEF q
<1>3. CASE r + 1 = m
  <2>1. n + 1 = m * (q + 1) + 0 /\ 0 \in 0 .. m - 1 /\ q + 1 \in Nat
    BY <1>1, <1>3
  <2>2. (n + 1) \div m = q + 1 /\ (n + 1) % m = 0
    BY <2>1, DivisionIsUnique
  <2> QED BY <2>2 DEF q
<1> QED BY <1>1, <1>2, <1>3

\* The options of a call, one by one.
LEMMA OptionTypes ==
    ASSUME SolveCalled
    PROVE  /\ options.max_iterations \in Nat
           /\ options.check_interval \in Nat \ {0}
           /\ options.to_tolerance \in BOOLEAN
           /\ options.sweeps \in {1, 2}
           /\ options.definite \in BOOLEAN
<1>1. options \in Options
  BY DEF SolveCalled
<1>2. /\ options.max_iterations \in 0 .. MaxIterations
      /\ options.check_interval \in Intervals
      /\ options.to_tolerance \in BOOLEAN
      /\ options.sweeps \in {1, 2}
      /\ options.definite \in BOOLEAN
  BY <1>1 DEF Options
<1>3. options.check_interval \in Nat \ {0}
  BY <1>2, LoopAssumption
<1>4. options.max_iterations \in Nat
  BY <1>2, LoopAssumption
<1> QED BY <1>2, <1>3, <1>4

\* The residuals evaluated in the turn that makes iterate n + 1.
LEMMA CheckCounted ==
    ASSUME LoopTypeOK, iteration < options.max_iterations
    PROVE  Checks(iteration + 1) =
             Checks(iteration) + (IF check_due(iteration) THEN 1 ELSE 0)
<1> DEFINE n == iteration
           every == options.check_interval
<1>1. /\ n \in Nat
      /\ every \in Nat \ {0}
      /\ options.max_iterations \in Nat
      /\ n + 1 <= options.max_iterations
  BY OptionTypes DEF LoopTypeOK
<1>2. (n + 1) \div every = (n \div every) + (IF (n + 1) % every = 0 THEN 1 ELSE 0)
  BY <1>1, NextMultiple
<1>3. n # options.max_iterations
  BY <1>1
<1>4. n \div every \in Int /\ (n + 1) % every \in Int
  BY <1>1
<1>5. Checks(n) = n \div every
  BY <1>3, <1>4 DEF Checks
<1>6. check_due(n) <=> (n + 1) % every = 0 \/ n + 1 = options.max_iterations
  BY DEF check_due
<1>7. Checks(n + 1) =
        (n + 1) \div every
          + (IF /\ n + 1 > 0 /\ n + 1 = options.max_iterations
                /\ (n + 1) % every # 0 THEN 1 ELSE 0)
  BY DEF Checks
<1> HIDE DEF n, every
<1>8. Checks(n + 1) = Checks(n) + (IF check_due(n) THEN 1 ELSE 0)
  BY <1>1, <1>2, <1>4, <1>5, <1>6, <1>7
<1> QED BY <1>8 DEF n

\* The iterate a turn of the driver or of Richardson makes is due a test by
\* the loop's own counter exactly when it is due one by its number.
LEMMA DueIsCheckDue ==
    ASSUME LoopTypeOK, iteration < options.max_iterations
    PROVE  DueAt(iteration + 1) <=> check_due(iteration)
BY DEF DueAt, check_due

-----------------------------------------------------------------------------
(* Types *)

LEMMA InitialTypes == SolverInit => LoopInvariant
<1> SUFFICES ASSUME SolverInit PROVE LoopInvariant
  OBVIOUS
<1>1. PICK method \in Methods, opts \in Options :
        /\ method # "stationary" => opts.sweeps = 1
        /\ method # "cg" => opts.definite
        /\ CallOf(Solve(method, opts))
  BY DEF SolverInit
<1>2. PICK s \in [0 .. opts.max_iterations -> Sizes] :
        /\ s[0] # "unbounded"
        /\ call = [routine |-> method, options |-> opts, sizes |-> s]
  BY <1>1 DEF CallOf, Solve
<1>6. call.routine = method /\ options = opts /\ sizes = s
  BY <1>2 DEF options, sizes
<1>7. SolveCalled
  BY <1>1, <1>2, <1>6 DEF SolveCalled
<1>3. /\ status = "called" /\ iteration = 0 /\ evaluations = 0 /\ estimate = 0
      /\ diagnostics = NoEvidence
  BY <1>1 DEF CallOf
<1>4. options.max_iterations \in Nat
  BY <1>7, OptionTypes
<1>5. LoopTypeOK
  BY <1>7, <1>3, <1>4 DEF LoopTypeOK, RoutineTypeOK, Evidence, Reasons, NoEvidence
<1> QED
  BY <1>3, <1>5
  DEF LoopInvariant, Resting, AtTheHead, AtTheEnd, OnlyIndefinite, measured

\* The caller's arguments do not change under it.
LEMMA CallKept == SolverNext => call' = call
BY DEF SolverNext, Start, Exhausted, Sweep, Richardson, Exact, Breakdown, ConjugateGradient,
       Tested, Untested, Finish, Continue, Return, Throw

LEMMA TypesKept ==
    ASSUME LoopTypeOK, SolverNext
    PROVE  LoopTypeOK'
<1>1. SolveCalled'
  BY CallKept DEF LoopTypeOK, SolveCalled, options, sizes
<1>2. /\ options' = options /\ sizes' = sizes
      /\ options.max_iterations \in Nat
      /\ options.to_tolerance \in BOOLEAN
      /\ options.sweeps \in {1, 2}
      /\ iteration \in Nat /\ iteration <= options.max_iterations
  BY CallKept, OptionTypes DEF LoopTypeOK, options, sizes
<1>3. /\ evaluations \in Nat
      /\ diagnostics \in Evidence
      /\ status \in {"called", "running", "returned", "thrown"}
  BY DEF LoopTypeOK, RoutineTypeOK
<1>4. \A n \in Nat, outcome \in {"converged", "diverged", "iteration_cap"} :
        Finish(n, outcome) =>
          iteration' = n /\ status' = "returned" /\ diagnostics' \in Evidence
  BY DEF Finish, Return, Evidence, Reasons
<1>5. \A n \in Nat : Test(n) \in {"converged", "diverged", "continue"}
  BY DEF Test
<1>6. \A n \in Nat : n = iteration + 1 /\ Tested(n) =>
        /\ iteration' = n
        /\ status' \in {"running", "returned"}
        /\ diagnostics' \in Evidence
  BY <1>2, <1>3, <1>4, <1>5 DEF Tested, Continue
<1> DEFINE Kept == /\ iteration' \in 0 .. options.max_iterations
                   /\ evaluations' \in Nat
                   /\ diagnostics' \in Evidence
                   /\ status' \in {"called", "running", "returned", "thrown"}
<1> SUFFICES Kept
  BY <1>1, <1>2 DEF LoopTypeOK, RoutineTypeOK
<1>7. CASE Start
  BY <1>2, <1>3, <1>4, <1>7 DEF Start, Continue
<1>8. CASE Exhausted
  BY <1>2, <1>3, <1>4, <1>8 DEF Exhausted
<1>9. CASE Sweep
  BY <1>2, <1>3, <1>6, <1>9 DEF Sweep, Turn, Untested, Continue
<1>10. CASE Richardson
  BY <1>2, <1>3, <1>6, <1>10 DEF Richardson, Turn, Untested, Continue
<1>11. CASE Exact
  BY <1>2, <1>3, <1>4, <1>11 DEF Exact
<1>12. CASE Breakdown
  BY <1>2, <1>3, <1>12 DEF Breakdown, Throw
<1>13. CASE ConjugateGradient
  BY <1>2, <1>3, <1>6, <1>13 DEF ConjugateGradient, Turn
<1> QED BY <1>7, <1>8, <1>9, <1>10, <1>11, <1>12, <1>13 DEF SolverNext

-----------------------------------------------------------------------------
(* Stopping *)

\* What stops a loop at an iterate it is due a test at.
LEMMA TestStops ==
    ASSUME LoopTypeOK, NEW n \in 1 .. options.max_iterations
    PROVE  /\ n \in Stopping <=> DueAt(n) /\ Test(n) # "continue"
           /\ options.to_tolerance /\ Test(n) # "continue" =>
                Test(n) = IF sizes[n] = "unbounded" THEN "diverged" ELSE "converged"
<1>1. options.max_iterations \in Nat /\ n \in 0 .. options.max_iterations /\ n # 0
  BY OptionTypes DEF LoopTypeOK
<1>2. Stops(n) <=> Test(n) # "continue"
  BY DEF Stops, Test
<1>3. n \in Stopping <=> DueAt(n) /\ Stops(n)
  BY <1>1 DEF Stopping
<1>4. Test(n) = IF sizes[n] = "unbounded" THEN "diverged"
                ELSE IF options.to_tolerance /\ Met(n) THEN "converged" ELSE "continue"
  BY DEF Test
<1> QED BY <1>2, <1>3, <1>4

\* A residual that stops the loop after none before it did is the first.
LEMMA FirstToStop ==
    ASSUME LoopTypeOK, Unstopped(iteration), iteration + 1 \in Stopping
    PROVE  \A k \in Stopping : iteration + 1 <= k
<1>1. Stopping \subseteq Nat /\ iteration \in Nat
  BY OptionTypes DEF LoopTypeOK, Stopping
<1> SUFFICES ASSUME NEW k \in Stopping, k < iteration + 1 PROVE FALSE
  BY <1>1
<1>2. k \in 0 .. iteration
  BY <1>1
<1> QED BY <1>2 DEF Unstopped

\* What a step leaves alone when the call does not change.
LEMMA ArgumentsKept ==
    ASSUME call' = call
    PROVE  /\ options' = options
           /\ sizes' = sizes
           /\ Stopping' = Stopping
<1>1. options' = options /\ sizes' = sizes
  BY DEF options, sizes
<1>2. Stopping' = Stopping
  BY <1>1 DEF Stopping, Stops, DueAt, Met
<1> QED BY <1>1, <1>2

\* The loop is left with the residual of iterate n tested.
LEMMA LeftWith ==
    ASSUME LoopTypeOK, call' = call, status = "running", call.routine # "cg",
           iteration < options.max_iterations, Unstopped(iteration),
           check_due(iteration), Tested(iteration + 1)
    PROVE  AtTheHead' /\ AtTheEnd'
<1> DEFINE n == iteration + 1
<1>1. /\ n \in 1 .. options.max_iterations
      /\ options.to_tolerance \in BOOLEAN
      /\ iteration \in Nat
  BY OptionTypes DEF LoopTypeOK
<1>2. n \in Stopping <=> Test(n) # "continue"
  BY <1>1, TestStops, DueIsCheckDue
<1>3. options' = options /\ sizes' = sizes /\ Stopping' = Stopping
  BY ArgumentsKept
<1>4. CASE Test(n) = "continue"
  <2>1. iteration' = n /\ estimate' = n /\ status' = "running"
    BY <1>4 DEF Tested, Continue
  <2>2. Unstopped(n)
    BY <1>1, <1>2, <1>4 DEF Unstopped
  <2>3. Unstopped(iteration)'
    BY <1>3, <2>1, <2>2 DEF Unstopped
  <2>4. AtTheHead'
    BY <2>1, <2>3 DEF AtTheHead, measured
  <2>5. AtTheEnd'
    BY <2>1 DEF AtTheEnd
  <2> QED BY <2>4, <2>5
<1>5. CASE Test(n) # "continue"
  <2>1. /\ iteration' = n /\ estimate' = n /\ status' = "returned"
        /\ diagnostics'.iterations = n
        /\ diagnostics'.reason = IF options.to_tolerance THEN Test(n) ELSE "iteration_cap"
    BY <1>5 DEF Tested, Finish, Return
  <2>2. n \in Stopping /\ \A k \in Stopping : n <= k
    BY <1>2, <1>5, FirstToStop
  <2>3. diagnostics'.reason =
          IF ~options.to_tolerance THEN "iteration_cap"
          ELSE IF sizes[n] = "unbounded" THEN "diverged" ELSE "converged"
    BY <1>1, <1>5, <2>1, TestStops
  <2>4. AtTheEnd'
    BY <1>3, <2>1, <2>2, <2>3 DEF AtTheEnd, measured
  <2>5. AtTheHead'
    BY <2>1 DEF AtTheHead
  <2> QED BY <2>4, <2>5
<1> QED BY <1>4, <1>5

\* An iterate that was due no test, in the driver or in Richardson.
LEMMA PassedOver ==
    ASSUME LoopTypeOK, call' = call, status = "running", call.routine # "cg",
           iteration < options.max_iterations, Unstopped(iteration),
           ~check_due(iteration), Untested
    PROVE  AtTheHead' /\ AtTheEnd'
<1>1. /\ iteration + 1 \in 1 .. options.max_iterations
      /\ iteration \in Nat
      /\ options.max_iterations \in Nat
  BY OptionTypes DEF LoopTypeOK
<1>2. iteration + 1 \notin Stopping
  BY <1>1, TestStops, DueIsCheckDue
<1>3. options' = options /\ sizes' = sizes /\ Stopping' = Stopping
  BY ArgumentsKept
<1>4. iteration' = iteration + 1 /\ status' = "running"
  BY DEF Untested, Continue
<1>5. Unstopped(iteration + 1)
  BY <1>1, <1>2 DEF Unstopped
<1>6. Unstopped(iteration)'
  BY <1>3, <1>4, <1>5 DEF Unstopped
<1>7. iteration + 1 # options.max_iterations
  BY DEF check_due
<1>8. AtTheHead'
  BY <1>3, <1>4, <1>6, <1>7 DEF AtTheHead
<1>9. AtTheEnd'
  BY <1>4 DEF AtTheEnd
<1> QED BY <1>8, <1>9

-----------------------------------------------------------------------------
(* Steps *)

\* What a turn of the loop costs.
LEMMA TurnSpent ==
    ASSUME LoopTypeOK, call' = call, Spent, iteration < options.max_iterations,
           iteration' = iteration + 1,
           evaluations' = evaluations
             + (IF call.routine = "stationary"
                  THEN options.sweeps + (IF check_due(iteration) THEN 1 ELSE 0)
                  ELSE 1)
    PROVE  Spent'
<1>1. options' = options
  BY ArgumentsKept
<1>2. /\ evaluations \in Nat /\ iteration \in Nat
      /\ options.max_iterations \in Nat
      /\ options.check_interval \in Nat \ {0}
  BY OptionTypes DEF LoopTypeOK, RoutineTypeOK
<1>3. CASE call.routine = "stationary"
  <2>1. Checks(iteration + 1) =
          Checks(iteration) + (IF check_due(iteration) THEN 1 ELSE 0)
    BY CheckCounted
  <2>2. Checks(iteration) \in Int
    BY <1>2 DEF Checks
  <2>3. Checks(iteration)' = Checks(iteration + 1)
    BY <1>1 DEF Checks
  <2>4. evaluations = 1 + options.sweeps * iteration + Checks(iteration)
    BY <1>3 DEF Spent
  <2>5. options.sweeps * (iteration + 1) = options.sweeps * iteration + options.sweeps
        /\ options.sweeps * iteration \in Int /\ options.sweeps \in Int
    BY <1>2, OptionTypes DEF LoopTypeOK
  <2>6. evaluations' = 1 + options.sweeps * (iteration + 1) + Checks(iteration + 1)
    BY <1>2, <1>3, <2>1, <2>2, <2>4, <2>5
  <2> QED BY <1>1, <1>3, <2>3, <2>6 DEF Spent
<1>4. CASE call.routine # "stationary"
  BY <1>1, <1>2, <1>4 DEF Spent
<1> QED BY <1>3, <1>4

LEMMA StepKeepsLoop ==
    ASSUME LoopInvariant, SolverNext
    PROVE  LoopInvariant'
<1>1. LoopTypeOK /\ LoopTypeOK' /\ call' = call
  BY TypesKept, CallKept DEF LoopInvariant
<1>2. options' = options /\ sizes' = sizes /\ Stopping' = Stopping
  BY <1>1, ArgumentsKept
<1>3. /\ iteration \in Nat /\ evaluations \in Nat
      /\ options.max_iterations \in Nat
      /\ iteration <= options.max_iterations
      /\ options.check_interval \in Nat \ {0}
      /\ options.to_tolerance \in BOOLEAN
  BY <1>1, OptionTypes DEF LoopTypeOK, RoutineTypeOK
<1> SUFFICES /\ status' # "called"
             /\ AtTheHead' /\ AtTheEnd'
             /\ status' \in {"running", "returned"} => Spent'
             /\ status' = "thrown" => ~options.definite
  BY <1>1, <1>2 DEF LoopInvariant, Resting, OnlyIndefinite
<1>4. CASE Start
  <2>1. /\ iteration = 0 /\ measured = 0 /\ measured' = 0 /\ iteration' = 0
        /\ evaluations' = 1
    BY <1>4 DEF LoopInvariant, Resting, Start, Called, Finish, Continue, measured
  <2>2. 0 \in Stopping <=> options.to_tolerance /\ Met(0)
    BY <1>3 DEF Stopping
  <2>3. Spent'
    <3>1. Checks(iteration)' = 0
      BY <1>2, <1>3, <2>1 DEF Checks
    <3>2. options.sweeps * 0 = 0
      BY <1>1, OptionTypes DEF LoopTypeOK
    <3> QED BY <1>1, <1>2, <2>1, <3>1, <3>2 DEF Spent
  <2>4. CASE options.to_tolerance /\ Met(0)
    <3>1. /\ status' = "returned"
          /\ diagnostics'.iterations = 0 /\ diagnostics'.reason = "converged"
      BY <1>4, <2>4 DEF Start, Finish, Return
    <3>2. Stopping \subseteq Nat
      BY <1>3 DEF Stopping
    <3>3. \A k \in Stopping : 0 <= k
      BY <3>2
    <3>4. sizes[0] # "unbounded"
      BY <1>1 DEF LoopTypeOK, SolveCalled
    <3>5. AtTheEnd'
      BY <1>2, <2>1, <2>2, <2>4, <3>1, <3>3, <3>4 DEF AtTheEnd
    <3> QED BY <2>3, <3>1, <3>5 DEF AtTheHead
  <2>5. CASE ~(options.to_tolerance /\ Met(0))
    <3>1. status' = "running"
      BY <1>4, <2>5 DEF Start, Continue
    <3>2. Unstopped(iteration)'
      BY <1>2, <2>1, <2>2, <2>5 DEF Unstopped
    <3>3. AtTheHead'
      BY <1>2, <2>1, <3>2 DEF AtTheHead
    <3> QED BY <2>3, <3>1, <3>3 DEF AtTheEnd
  <2> QED BY <2>4, <2>5
<1>5. CASE Exhausted
  <2>1. /\ status = "running" /\ iteration = options.max_iterations
        /\ iteration' = iteration /\ measured' = measured /\ evaluations' = evaluations
        /\ status' = "returned"
        /\ diagnostics'.iterations = iteration
        /\ diagnostics'.reason = "iteration_cap"
    BY <1>5 DEF Exhausted, Finish, Return, measured
  <2>2. measured = iteration /\ (call.routine # "cg" => Unstopped(iteration))
    BY <2>1 DEF LoopInvariant, AtTheHead
  <2>3. call.routine # "cg" => Unstopped(options.max_iterations)'
    BY <1>2, <2>1, <2>2 DEF Unstopped
  <2>4. AtTheEnd'
    BY <1>1, <1>2, <2>1, <2>2, <2>3 DEF AtTheEnd
  <2>5. Checks(iteration)' = Checks(iteration)
    BY <1>2, <2>1 DEF Checks
  <2>6. Spent'
    BY <1>1, <1>2, <2>1, <2>5 DEF LoopInvariant, Spent
  <2> QED BY <2>1, <2>4, <2>6 DEF AtTheHead
<1>6. CASE Sweep
  <2>1. /\ status = "running" /\ call.routine = "stationary"
        /\ iteration < options.max_iterations
        /\ Unstopped(iteration) /\ Spent
    BY <1>6 DEF Sweep, Turn, Running, LoopInvariant, AtTheHead
  <2>2. AtTheHead' /\ AtTheEnd'
    BY <1>1, <1>6, <2>1, LeftWith, PassedOver DEF Sweep
  <2>3. /\ iteration' = iteration + 1
        /\ status' \in {"running", "returned"}
        /\ evaluations' = evaluations + options.sweeps + (IF check_due(iteration) THEN 1 ELSE 0)
    BY <1>1, <1>3, <1>6, OptionTypes
    DEF LoopTypeOK, Sweep, Tested, Untested, Finish, Return, Continue
  <2>4. Spent'
    BY <1>1, <1>3, <2>1, <2>3, TurnSpent, OptionTypes DEF LoopTypeOK
  <2> QED BY <2>2, <2>3, <2>4
<1>7. CASE Richardson
  <2>1. /\ status = "running" /\ call.routine = "richardson"
        /\ iteration < options.max_iterations
        /\ Unstopped(iteration) /\ Spent
    BY <1>7 DEF Richardson, Turn, Running, LoopInvariant, AtTheHead
  <2>2. AtTheHead' /\ AtTheEnd'
    BY <1>1, <1>7, <2>1, LeftWith, PassedOver DEF Richardson
  <2>3. /\ iteration' = iteration + 1
        /\ status' \in {"running", "returned"}
        /\ evaluations' = evaluations + 1
    BY <1>7 DEF Richardson, Tested, Untested, Finish, Return, Continue
  <2>4. Spent'
    BY <1>1, <2>1, <2>3, TurnSpent
  <2> QED BY <2>2, <2>3, <2>4
<1>8. CASE Exact
  <2>1. /\ status = "running" /\ call.routine = "cg"
        /\ iteration' = iteration /\ measured' = measured /\ evaluations' = evaluations
        /\ status' = "returned"
        /\ diagnostics'.iterations = iteration
    BY <1>8 DEF Exact, Turn, Running, Finish, Return, measured
  <2>2. measured = iteration
    BY <2>1 DEF LoopInvariant, AtTheHead
  <2>3. AtTheEnd'
    BY <1>1, <2>1, <2>2 DEF AtTheEnd
  <2>4. Spent'
    BY <1>1, <2>1 DEF LoopInvariant, Spent
  <2> QED BY <2>1, <2>3, <2>4 DEF AtTheHead
<1>9. CASE Breakdown
  <2>1. status' = "thrown" /\ ~options.definite
    BY <1>9 DEF Breakdown, LooksExact, Curved, Throw
  <2> QED BY <2>1 DEF AtTheHead, AtTheEnd
<1>10. CASE ConjugateGradient
  <2>1. /\ status = "running" /\ call.routine = "cg"
        /\ iteration < options.max_iterations /\ Spent
    BY <1>10 DEF ConjugateGradient, Turn, Running, LoopInvariant
  <2>2. /\ iteration' = iteration + 1 /\ measured' = iteration + 1
        /\ status' \in {"running", "returned"}
        /\ status' = "returned" => diagnostics'.iterations = iteration + 1
        /\ evaluations' = evaluations + 1
    BY <1>10 DEF ConjugateGradient, Tested, Finish, Return, Continue, measured
  <2>3. AtTheHead' /\ AtTheEnd'
    BY <1>1, <2>1, <2>2 DEF AtTheHead, AtTheEnd
  <2>4. Spent'
    BY <1>1, <2>1, <2>2, TurnSpent
  <2> QED BY <2>2, <2>3, <2>4
<1> QED
  BY <1>4, <1>5, <1>6, <1>7, <1>8, <1>9, <1>10 DEF SolverNext

-----------------------------------------------------------------------------
(* The theorems *)

\* The invariant behind them: what each loop knows at the head of a turn.
THEOREM LoopInvariantHolds == SolverSpec => []LoopInvariant
<1>1. LoopInvariant /\ UNCHANGED routineVars => LoopInvariant'
  <2> SUFFICES ASSUME LoopInvariant, UNCHANGED routineVars PROVE LoopInvariant'
    OBVIOUS
  <2>1. /\ call' = call /\ status' = status /\ iteration' = iteration
        /\ evaluations' = evaluations /\ estimate' = estimate
        /\ diagnostics' = diagnostics
    BY DEF routineVars
  <2>2. options' = options /\ sizes' = sizes /\ Stopping' = Stopping
    BY <2>1, ArgumentsKept
  <2>3. LoopTypeOK' /\ Resting' /\ OnlyIndefinite'
    BY <2>1, <2>2
    DEF LoopInvariant, LoopTypeOK, SolveCalled, RoutineTypeOK, Resting, OnlyIndefinite, measured
  <2>4. AtTheHead' /\ AtTheEnd'
    BY <2>1, <2>2 DEF LoopInvariant, AtTheHead, AtTheEnd, Unstopped, measured
  <2>5. status' \in {"running", "returned"} => Spent'
    BY <2>1, <2>2 DEF LoopInvariant, Spent, Checks
  <2> QED BY <2>3, <2>4, <2>5 DEF LoopInvariant
<1> QED BY <1>1, InitialTypes, StepKeepsLoop, PTL DEF SolverSpec

\* However many iterations a run makes and at whatever interval it is told to
\* check, the residual it reports is the one of the iterate it returns.
THEOREM ResidualIsOfTheIterateHolds == SolverSpec => []ResidualIsOfTheIterate
<1>1. LoopInvariant => ResidualIsOfTheIterate
  BY DEF LoopInvariant, AtTheEnd, ResidualIsOfTheIterate, Returned
<1> QED BY <1>1, LoopInvariantHolds, PTL

\* The driver and Richardson's loop stop at the first due iterate that meets
\* the criterion, for the reason that iterate gives, and every evaluation is
\* in the reported cost.
THEOREM StopsAndCostsHolds == SolverSpec => []StopsAndCosts
<1>1. LoopInvariant => StopsAndCosts
  <2> SUFFICES ASSUME LoopInvariant, status = "returned" PROVE StopsAndCosts
    BY DEF StopsAndCosts, SameStop, EvaluationsCounted, Returned
  <2>1. /\ options.max_iterations \in Nat /\ iteration \in Nat
        /\ iteration <= options.max_iterations
        /\ options.check_interval \in Nat \ {0}
        /\ options.sweeps \in {1, 2}
        /\ evaluations \in Nat
        /\ diagnostics.iterations = iteration
        /\ Spent /\ AtTheEnd
    BY OptionTypes DEF LoopInvariant, LoopTypeOK, RoutineTypeOK, AtTheEnd
  <2>2. SameStop
    <3> SUFFICES ASSUME call.routine # "cg"
                 PROVE /\ iteration = IF Stopping = {} THEN options.max_iterations
                                                       ELSE Min(Stopping)
                       /\ diagnostics.reason =
                            IF Stopping = {} \/ ~options.to_tolerance THEN "iteration_cap"
                            ELSE IF sizes[iteration] = "unbounded" THEN "diverged"
                            ELSE "converged"
      BY <2>1 DEF SameStop, Returned
    <3>1. CASE Unstopped(options.max_iterations) /\ iteration = options.max_iterations
               /\ diagnostics.reason = "iteration_cap"
      <4>1. Stopping = {}
        BY <3>1 DEF Unstopped, Stopping
      <4> QED BY <3>1, <4>1
    <3>2. CASE /\ iteration \in Stopping
               /\ \A k \in Stopping : iteration <= k
               /\ diagnostics.reason =
                    IF ~options.to_tolerance THEN "iteration_cap"
                    ELSE IF sizes[iteration] = "unbounded" THEN "diverged"
                    ELSE "converged"
      <4>1. Stopping \subseteq Nat
        BY <2>1 DEF Stopping
      <4>2. \A x \in Stopping : (\A y \in Stopping : x <= y) => x = iteration
        BY <3>2, <4>1
      <4>3. Min(Stopping) = iteration
        BY <3>2, <4>2 DEF Min
      <4> QED BY <3>2, <4>3
    <3> QED BY <2>1, <3>1, <3>2 DEF AtTheEnd
  <2>3. EvaluationsCounted
    <3>1. iteration \div options.check_interval \in Int /\ options.sweeps * iteration \in Int
      BY <2>1
    <3> QED BY <2>1, <3>1 DEF EvaluationsCounted, Returned, Spent, Checks
  <2> QED BY <2>2, <2>3 DEF StopsAndCosts
<1> QED BY <1>1, LoopInvariantHolds, PTL

\* Conjugate gradient never takes an exact answer for a breakdown.
THEOREM ExactIsNotBreakdownHolds == SolverSpec => []ExactIsNotBreakdown
<1>1. LoopInvariant => ExactIsNotBreakdown
  BY DEF LoopInvariant, OnlyIndefinite, ExactIsNotBreakdown
<1> QED BY <1>1, LoopInvariantHolds, PTL

-----------------------------------------------------------------------------
(***************************************************************************)
(* Whatever the caps, intervals and repetitions, whatever the reductions   *)
(* return and wherever the runtime fails, the row the device path prints   *)
(* stands for the iterate the host was given.                              *)
(***************************************************************************)

Stages == {"events", "allocate", "upload", "norms", "iterate", "copy_back"}

\* An array with this iterate inside an intact boundary ring.
Holds(array, n) == array = [iterate |-> n, ring |-> TRUE]

\* A solve is under way exactly while the call runs, and only then may arrays
\* be on the device.
Placed ==
    /\ call \in DeviceCalls
    /\ status \in {"called", "running", "returned", "thrown"}
    /\ status = "running" => call.wrong = {} /\ stage \in Stages
    /\ status # "running" \/ stage = "events" => buffers = {}

\* Before the first residual: what the host hands over is the initial state.
Prepared ==
    status = "running" =>
        /\ stage \in {"events", "allocate", "upload"} => Holds(host, 0)
        /\ stage = "norms" => Holds(d_x, 0) /\ d_work.ring = TRUE

\* In the loop: d_x holds the counted iterate, both arrays have their ring, and
\* the residual is fresh wherever the loop may end.
Iterated ==
    status = "running" /\ stage \in {"iterate", "copy_back"} =>
        /\ iteration \in 0 .. call.max
        /\ Holds(d_x, iteration)
        /\ d_work.ring = TRUE
        /\ \/ call.method = "cg"
           \/ iteration = call.max
           \/ stage = "copy_back"
           => measured_at = iteration
        /\ stage = "copy_back" => converged \/ iteration = call.max

DeviceInvariant == Placed /\ Prepared /\ Iterated /\ RowIsTheIterate

-----------------------------------------------------------------------------
\* The parameters of a call that got past the checks.
LEMMA CallTypes ==
    ASSUME Placed, call.wrong = {}
    PROVE  call.max \in Nat /\ call.method \in {"jacobi", "coloured", "cg"}
<1> DEFINE Refused == [routine : {"run_cuda"}, wrong : (SUBSET Wrongs) \ {{}}]
           Accepted == [routine : {"run_cuda"}, wrong : {{}},
                        method : {"jacobi", "coloured", "cg"}, max : SweepCaps,
                        interval : CheckIntervals, to_tolerance : BOOLEAN]
<1>2. call \in Refused \/ call \in Accepted
  BY DEF Placed, DeviceCalls
<1>3. call \notin Refused
  <2> SUFFICES ASSUME call \in Refused PROVE FALSE
    OBVIOUS
  <2>1. call.wrong \in (SUBSET Wrongs) \ {{}}
    OBVIOUS
  <2> QED BY <2>1
<1>1. call \in Accepted
  BY <1>2, <1>3
<1> QED BY <1>1, DeviceAssumption

\* One sweep of either kind moves d_x one iterate on and loses neither ring.
LEMMA SweepKeepsRing ==
    ASSUME NEW n \in Nat, Holds(d_x, n), d_work.ring = TRUE
    PROVE  Holds(Swept, n + 1) /\ Holds(Advanced(d_x), n + 1)
<1>1. d_x.iterate = n /\ d_x.ring = TRUE
  BY DEF Holds
<1>2. Holds(Advanced(d_x), n + 1)
  BY <1>1 DEF Holds, Advanced
<1>3. CASE call.method # "jacobi"
  BY <1>2, <1>3 DEF Swept
<1>4. CASE call.method = "jacobi"
  BY <1>1, <1>2, <1>4 DEF Swept, Holds
<1> QED BY <1>2, <1>3, <1>4

\* A failure ends the call with nothing left on the device.
LEMMA FailureKeeps ==
    ASSUME DeviceInvariant, call' = call, status' = "thrown", buffers' = {}
    PROVE  DeviceInvariant'
BY DEF DeviceInvariant, Placed, Prepared, Iterated, RowIsTheIterate, Returned, Ended

LEMMA StepKeepsDevice ==
    ASSUME DeviceInvariant, DeviceNext
    PROVE  DeviceInvariant'
<1>1. /\ Placed /\ Prepared /\ Iterated
  BY DEF DeviceInvariant
<1>2. CASE RunCuda
  <2>1. call' = call /\ buffers' = {} /\ call.routine = "run_cuda"
    BY <1>1, <1>2 DEF RunCuda, Called, Placed
  <2>2. CASE call.wrong # {}
    BY <1>2, <2>1, <2>2, FailureKeeps DEF RunCuda
  <2>3. CASE call.wrong = {}
    <3>1. status' = "running" /\ stage' = "events" /\ Holds(host, 0)'
      BY <1>2, <2>3 DEF RunCuda, Holds, make_state
    <3> QED
      BY <1>1, <2>1, <2>3, <3>1
      DEF DeviceInvariant, Placed, Stages, Prepared, Iterated, RowIsTheIterate, Returned, Ended
  <2> QED BY <2>2, <2>3
<1>3. CASE CreateEvents
  <2>1. /\ call' = call /\ host' = host /\ buffers' = buffers /\ buffers = {}
        /\ status = "running" /\ Holds(host, 0)
    BY <1>1, <1>3 DEF CreateEvents, InStage, Running, routineVars, Placed, Prepared
  <2>2. CASE status' = "running" /\ stage' = "allocate"
    BY <1>1, <2>1, <2>2
    DEF DeviceInvariant, Placed, Stages, Prepared, Iterated, RowIsTheIterate, Returned, Ended, Holds
  <2>3. CASE status' = "thrown"
    BY <2>1, <2>3, FailureKeeps
  <2> QED BY <1>3, <2>1, <2>2, <2>3 DEF CreateEvents, routineVars
<1>4. CASE Allocate
  <2>1. call' = call /\ host' = host /\ status = "running" /\ Holds(host, 0)
    BY <1>1, <1>4
    DEF Allocate, InStage, Running, routineVars, CheckedCallFails, Fail, Prepared
  <2>2. CASE status' = "running" /\ stage' = "upload"
    BY <1>1, <2>1, <2>2
    DEF DeviceInvariant, Placed, Stages, Prepared, Iterated, RowIsTheIterate, Returned, Ended, Holds
  <2>3. CASE CheckedCallFails
    BY <2>1, <2>3, FailureKeeps DEF CheckedCallFails, Fail
  <2> QED BY <1>4, <2>1, <2>2, <2>3 DEF Allocate, routineVars
<1>5. CASE Upload
  <2>1. call' = call /\ status = "running" /\ Holds(host, 0)
    BY <1>1, <1>5
    DEF Upload, InStage, Running, routineVars, CheckedCallFails, Fail, Prepared
  <2>2. CASE status' = "running" /\ stage' = "norms" /\ d_x' = host /\ d_work' = d_x'
    BY <1>1, <2>1, <2>2
    DEF DeviceInvariant, Placed, Stages, Prepared, Iterated, RowIsTheIterate, Returned, Ended, Holds
  <2>3. CASE CheckedCallFails
    BY <2>1, <2>3, FailureKeeps DEF CheckedCallFails, Fail
  <2> QED BY <1>5, <2>1, <2>2, <2>3 DEF Upload, Work, routineVars
<1>6. CASE MeasureStart
  <2>1. /\ call' = call /\ status = "running" /\ stage = "norms"
        /\ Holds(d_x, 0) /\ d_work.ring = TRUE /\ call.max \in Nat
    BY <1>1, <1>6, CallTypes
    DEF MeasureStart, InStage, Running, CheckedCallFails, ReductionFails, Fail, Prepared, Placed
  <2>2. CASE /\ status' = "running" /\ stage' = "iterate" /\ iteration' = 0
             /\ d_x' = d_x /\ d_work' = d_work /\ measured_at' = d_x.iterate
    <3>1. Iterated'
      BY <2>1, <2>2 DEF Iterated, Holds
    <3> QED
      BY <1>1, <2>1, <2>2, <3>1
      DEF DeviceInvariant, Placed, Stages, Prepared, RowIsTheIterate, Returned, Ended
  <2>3. CASE CheckedCallFails \/ ReductionFails
    BY <2>1, <2>3, FailureKeeps DEF CheckedCallFails, ReductionFails, Fail
  <2> QED BY <1>6, <2>1, <2>2, <2>3 DEF MeasureStart
<1>7. CASE Capped
  <2>1. /\ call' = call /\ status = "running" /\ status' = "running"
        /\ stage = "iterate" /\ stage' = "copy_back"
        /\ iteration = call.max /\ iteration' = iteration
        /\ d_x' = d_x /\ d_work' = d_work /\ measured_at' = measured_at
    BY <1>7 DEF Capped, InStage, Running, Leave, solveLocals
  <2>2. Iterated'
    BY <1>1, <2>1 DEF Iterated, Holds
  <2> QED
    BY <1>1, <2>1, <2>2
    DEF DeviceInvariant, Placed, Stages, Prepared, RowIsTheIterate, Returned, Ended
<1>8. CASE StationarySweep
  <2>1. /\ call' = call /\ status = "running" /\ stage = "iterate"
        /\ iteration < call.max /\ call.method # "cg"
        /\ call.max \in Nat /\ iteration \in Nat
        /\ Holds(d_x, iteration) /\ d_work.ring = TRUE
    BY <1>1, <1>8, CallTypes
    DEF StationarySweep, InStage, Running, CheckedCallFails, ReductionFails, Fail, Placed, Iterated
  <2>2. CASE CheckedCallFails \/ ReductionFails
    BY <2>1, <2>2, FailureKeeps DEF CheckedCallFails, ReductionFails, Fail
  <2>3. CASE /\ d_x' = Swept
             /\ d_work' = IF call.method = "jacobi" THEN d_x ELSE d_work
             /\ IF Due(iteration + 1)
                  THEN /\ measured_at' = d_x'.iterate
                       /\ IF call.to_tolerance /\ Under(estimate') THEN Leave(iteration + 1)
                          ELSE iteration' = iteration + 1 /\ stage' = stage
                  ELSE iteration' = iteration + 1 /\ stage' = stage
             /\ status' = status
    <3>1. Holds(d_x, iteration)' /\ d_x'.iterate = iteration + 1
      <4>1. Holds(Swept, iteration + 1)
        BY <2>1, SweepKeepsRing
      <4>2. d_x' = [iterate |-> iteration + 1, ring |-> TRUE]
        BY <2>3, <4>1 DEF Holds
      <4>3. iteration' = iteration + 1
        BY <2>3 DEF Leave
      <4> QED BY <4>2, <4>3 DEF Holds
    <3>2. iteration' = iteration + 1 /\ iteration + 1 \in 0 .. call.max
      BY <2>1, <2>3 DEF Leave
    <3>3. d_work'.ring = TRUE
      BY <2>1, <2>3 DEF Holds
    <3>4. CASE stage' = "copy_back"
      <4>1. Due(iteration + 1) /\ call.to_tolerance /\ Under(estimate')
        BY <2>1, <2>3, <3>4
      <4>2. measured_at' = iteration + 1 /\ converged'
        BY <2>1, <2>3, <3>1, <3>2, <4>1 DEF converged, Under
      <4>3. Iterated'
        BY <2>1, <3>1, <3>2, <3>3, <4>2 DEF Iterated
      <4> QED
        BY <1>1, <2>1, <2>3, <3>4, <4>3
        DEF DeviceInvariant, Placed, Stages, Prepared, RowIsTheIterate, Returned, Ended
    <3>5. CASE stage' = "iterate"
      <4>1. iteration + 1 = call.max => measured_at' = iteration + 1
        BY <2>3, <3>1 DEF Due
      <4>2. Iterated'
        BY <2>1, <3>1, <3>2, <3>3, <3>5, <4>1 DEF Iterated
      <4> QED
        BY <1>1, <2>1, <2>3, <3>5, <4>2
        DEF DeviceInvariant, Placed, Stages, Prepared, RowIsTheIterate, Returned, Ended
    <3> QED BY <2>1, <2>3, <3>4, <3>5 DEF Leave
  <2> QED BY <1>8, <2>1, <2>2, <2>3 DEF StationarySweep
<1>9. CASE ConjugateSweep
  <2>1. /\ call' = call /\ status = "running" /\ stage = "iterate"
        /\ iteration < call.max /\ call.method = "cg"
        /\ call.max \in Nat /\ iteration \in Nat
        /\ Holds(d_x, iteration) /\ d_work.ring = TRUE /\ measured_at = iteration
    BY <1>1, <1>9, CallTypes
    DEF ConjugateSweep, InStage, Running, CheckedCallFails, ReductionFails, Fail, Placed, Iterated
  <2>2. CASE CheckedCallFails \/ ReductionFails \/ Fail("curvature")
    BY <2>1, <2>2, FailureKeeps DEF CheckedCallFails, ReductionFails, Fail
  <2>3. CASE /\ call.to_tolerance /\ Under(estimate)
             /\ Leave(iteration)
             /\ status' = status /\ estimate' = estimate
             /\ d_x' = d_x /\ d_work' = d_work /\ measured_at' = measured_at
    <3>1. stage' = "copy_back" /\ iteration' = iteration
      BY <2>3 DEF Leave
    <3>2. converged'
      BY <2>1, <2>3 DEF converged, Under
    <3>3. Iterated'
      BY <2>1, <2>3, <3>1, <3>2 DEF Iterated, Holds
    <3> QED
      BY <1>1, <2>1, <2>3, <3>1, <3>3
      DEF DeviceInvariant, Placed, Stages, Prepared, RowIsTheIterate, Returned, Ended
  <2>4. CASE /\ d_x' = Advanced(d_x) /\ d_work' = d_work
             /\ measured_at' = d_x'.iterate
             /\ iteration' = iteration + 1
             /\ status' = status /\ stage' = stage
    <3>1. d_x' = [iterate |-> iteration + 1, ring |-> TRUE]
      BY <2>1, <2>4, SweepKeepsRing DEF Holds
    <3>3. d_x'.iterate = iteration + 1 /\ iteration + 1 \in 0 .. call.max
      BY <2>1, <3>1
    <3>2. Iterated'
      BY <2>1, <2>4, <3>1, <3>3 DEF Iterated, Holds
    <3> QED
      BY <1>1, <2>1, <2>4, <3>2
      DEF DeviceInvariant, Placed, Stages, Prepared, RowIsTheIterate, Returned, Ended
  <2> QED BY <1>9, <2>1, <2>2, <2>3, <2>4 DEF ConjugateSweep, solveLocals
<1>10. CASE CopyBack
  <2>1. /\ call' = call /\ status = "running" /\ stage = "copy_back" /\ buffers' = {}
        /\ iteration \in 0 .. call.max
        /\ Holds(d_x, iteration) /\ measured_at = iteration
        /\ converged \/ iteration = call.max
    BY <1>1, <1>10 DEF CopyBack, InStage, Running, Iterated
  <2>2. CASE status' = "thrown"
    BY <2>1, <2>2, FailureKeeps
  <2>3. CASE status' = "running" /\ stage' = "events" /\ host' = make_state
    BY <1>1, <2>1, <2>3
    DEF DeviceInvariant, Placed, Stages, Prepared, Iterated, RowIsTheIterate, Returned, Ended,
        Holds, make_state
  <2>4. CASE /\ status' = "returned" /\ host' = d_x
             /\ measured_at' = measured_at /\ estimate' = estimate
             /\ diagnostics' =
                  [iterations |-> iteration, converged |-> converged,
                   reason |-> IF converged THEN "converged" ELSE "iteration_cap"]
    <3>1. /\ diagnostics'.iterations = iteration
          /\ diagnostics'.converged = converged
      BY <2>4
    <3>2. converged => call.to_tolerance /\ Under(estimate)'
      BY <2>4 DEF converged, Under
    <3>3. RowIsTheIterate'
      BY <2>1, <2>4, <3>1, <3>2 DEF RowIsTheIterate, Holds
    <3> QED
      BY <1>1, <2>1, <2>4, <3>3 DEF DeviceInvariant, Placed, Prepared, Iterated
  <2> QED BY <1>10, <2>1, <2>2, <2>3, <2>4 DEF CopyBack, solveLocals
<1> QED
  BY <1>2, <1>3, <1>4, <1>5, <1>6, <1>7, <1>8, <1>9, <1>10 DEF DeviceNext

-----------------------------------------------------------------------------
\* The invariant of the device path, from the checks to the row.
THEOREM DeviceInvariantHolds == DeviceSpec => []DeviceInvariant
<1>1. CallOf(DeviceCalls) /\ DeviceRest => DeviceInvariant
  BY DEF CallOf, DeviceRest, DeviceInvariant, Placed, Prepared, Iterated, RowIsTheIterate,
         Returned, Ended
<1>2. DeviceInvariant /\ UNCHANGED <<routineVars, deviceVars>> => DeviceInvariant'
  BY DEF DeviceInvariant, Placed, Prepared, Iterated, RowIsTheIterate, Returned, Ended,
         Holds, converged, Under, routineVars, deviceVars, solveLocals
<1> QED BY <1>1, <1>2, StepKeepsDevice, PTL DEF DeviceSpec

\* run_cuda prints its row of the iterate the device computed last, its ring
\* intact, with the residual of that iterate, and leaves no array behind.
THEOREM RowIsTheIterateHolds == DeviceSpec => []RowIsTheIterate
<1>1. DeviceInvariant => RowIsTheIterate
  BY DEF DeviceInvariant
<1> QED BY <1>1, DeviceInvariantHolds, PTL

-----------------------------------------------------------------------------
(***************************************************************************)
(* The integrators.  Whatever the interval, the step limits and the errors *)
(* measured, a step starts from the slope of the time reached and stays in *)
(* the interval, and the label of the result says whether every accepted   *)
(* step met the tolerance: floored is exactly that one did not.            *)
(***************************************************************************)

\* A call of one of the two, and the time it reached.
IvpTypes ==
    /\ call \in IvpCalls
    /\ t \in Int
    /\ h \in Nat
    /\ iteration \in Nat

\* RK4 counts its time from the start, and measures no error.
Rk4OnTheGrid ==
    call.routine = "rk4" /\ status \in {"running", "returned"} =>
        /\ call.steps \in Nat \ {0}
        /\ t = iteration * (direction * (Size(call.t1) \div call.steps))
        /\ iteration <= call.steps
        /\ worst = {}

IvpInvariant ==
    /\ IvpTypes
    /\ status = "called" => t = 0 /\ k1 = 0 /\ iteration = 0 /\ floored = FALSE /\ worst = {}
    /\ Rk4OnTheGrid
    /\ StepsFollowTheSolution
    /\ floored <=> "missed" \in worst
    /\ ToleranceLabelled

LEMMA IvpCallTypes ==
    ASSUME call \in IvpCalls
    PROVE  /\ call.routine \in Integrators
           /\ call.t1 \in Int
           /\ call.routine = "dormand_prince" =>
                call.min_step \in Nat /\ call.max_step \in Nat
                /\ call.initial_step \in Nat /\ call.max_steps \in Nat
           /\ call.routine = "rk4" =>
                /\ call.steps \in Nat
                /\ call.steps = 0 \/ (Size(call.t1) % call.steps) = 0
<1>1. \A s \in Spans \cup {-x : x \in Spans} : s \in Int
  BY IvpAssumption
<1>2. CASE call.routine = "dormand_prince"
  <2>. DEFINE Steps == {0} \cup Spans
  <2>0. Steps \subseteq Nat
    BY IvpAssumption
  <2>1. /\ call.t1 \in Spans \cup {-x : x \in Spans}
        /\ call.min_step \in MinSteps /\ call.max_step \in Steps
        /\ call.initial_step \in Steps /\ call.max_steps \in StepCaps
    BY <1>2 DEF IvpCalls
  <2>. HIDE DEF Steps
  <2>2. call.t1 \in Int
    BY <1>1, <2>1
  <2>3. call.min_step \in Nat /\ call.max_steps \in Nat
    BY <2>1, IvpAssumption
  <2>4. call.max_step \in Nat /\ call.initial_step \in Nat
    BY <2>0, <2>1
  <2>. QED  BY <1>2, <2>2, <2>3, <2>4 DEF Integrators
<1>3. CASE call.routine = "rk4"
  <2>1. /\ call.t1 \in Spans \cup {-x : x \in Spans}
        /\ call.steps \in StepCaps
        /\ call.steps = 0 \/ (Size(call.t1) % call.steps) = 0
    BY <1>3 DEF IvpCalls
  <2>. QED  BY <1>1, <1>3, <2>1, IvpAssumption DEF Integrators
<1>4. call.routine \in {"dormand_prince", "rk4"}
  BY DEF IvpCalls
<1>. QED  BY <1>2, <1>3, <1>4

\* The smaller and the larger of two.
LEMMA TwoNumbers ==
    ASSUME NEW x \in Int, NEW y \in Int
    PROVE  /\ Min({x, y}) = IF x <= y THEN x ELSE y
           /\ Max({x, y}) = IF x >= y THEN x ELSE y
<1>1. Min({x, y}) = IF x <= y THEN x ELSE y
  <2>1. \E m \in {x, y} : \A k \in {x, y} : m <= k
    OBVIOUS
  <2>. QED  BY <2>1 DEF Min
<1>2. Max({x, y}) = IF x >= y THEN x ELSE y
  <2>1. \E m \in {x, y} : \A k \in {x, y} : m >= k
    OBVIOUS
  <2>. QED  BY <2>1 DEF Max
<1>. QED  BY <1>1, <1>2

\* A clamp between step lengths is a step length.
LEMMA ClampedType ==
    ASSUME NEW y \in Int, NEW low \in Nat, NEW high \in Int
    PROVE  Clamped(y, low, high) \in Nat
<1>1. PICK m \in Int : m = Min({y, high})
  BY TwoNumbers
<1>2. Max({low, m}) = IF low >= m THEN low ELSE m
  BY TwoNumbers
<1>. QED  BY <1>1, <1>2 DEF Clamped

\* The step that is tried ends between the time reached and the endpoint.
LEMMA TriedStaysInside ==
    ASSUME IvpTypes, direction * t >= 0, direction * (call.t1 - t) >= 0
    PROVE  /\ Tried \in Nat
           /\ t + direction * Tried \in Int
           /\ direction * (t + direction * Tried) >= 0
           /\ direction * (call.t1 - (t + direction * Tried)) >= 0
<1>1. call.t1 \in Int /\ t \in Int /\ h \in Nat
  BY IvpCallTypes DEF IvpTypes
<1>2. CASE call.t1 >= 0
  <2>1. direction = 1
    BY <1>2 DEF direction
  <2>2. Tried = IF t + h > call.t1 THEN call.t1 - t ELSE h
    BY <1>1, <2>1 DEF Tried, Size
  <2>. QED  BY <1>1, <2>1, <2>2
<1>3. CASE ~(call.t1 >= 0)
  <2>1. direction = -1
    BY <1>3 DEF direction
  <2>2. Tried = IF t - h < call.t1 THEN t - call.t1 ELSE h
    BY <1>1, <2>1 DEF Tried, Size
  <2>. QED  BY <1>1, <2>1, <2>2
<1>. QED  BY <1>2, <1>3

\* What the controller makes of a step is a step length.
LEMMA NextStepType ==
    ASSUME IvpTypes, call.routine = "dormand_prince", NEW x \in Nat, NEW error \in Errors,
           NEW y \in Scaled(x, error)
    PROVE  Clamped(y, call.min_step, max_step) \in Nat
<1>1. call.min_step \in Nat /\ max_step \in Int
  BY IvpCallTypes DEF IvpTypes, max_step, Size
<1>2. y \in Int
  BY DEF Scaled, Errors
<1>. QED  BY <1>1, <1>2, ClampedType

LEMMA IvpStarts == CallOf(IvpCalls) /\ IvpRest => IvpInvariant
<1>. SUFFICES ASSUME CallOf(IvpCalls), IvpRest PROVE IvpInvariant
  OBVIOUS
<1>1. IvpTypes /\ t = 0 /\ k1 = 0 /\ iteration = 0 /\ floored = FALSE /\ worst = {}
  BY DEF CallOf, IvpRest, IvpTypes
<1>2. status = "called"
  BY DEF CallOf
<1>3. StepsFollowTheSolution
  BY <1>1, IvpCallTypes DEF IvpTypes, StepsFollowTheSolution, direction
<1>. QED
  BY <1>1, <1>2, <1>3 DEF IvpInvariant, Rk4OnTheGrid, ToleranceLabelled, Returned

\* A step that returns, throws or starts the loop leaves the solution as it is.
LEMMA SolutionUntouched ==
    ASSUME IvpInvariant, UNCHANGED <<call, t, k1, floored, worst>>, h' \in Nat,
           iteration' = iteration,
           status' # "called",
           call.routine = "rk4" => status \in {"running", "returned"} \/ status' = "thrown",
           ToleranceLabelled'
    PROVE  IvpInvariant'
<1>1. IvpTypes'
  BY DEF IvpInvariant, IvpTypes
<1>2. direction' = direction
  BY DEF direction
<1>3. Rk4OnTheGrid'
  BY <1>2 DEF IvpInvariant, Rk4OnTheGrid
<1>4. StepsFollowTheSolution'
  BY <1>2 DEF IvpInvariant, StepsFollowTheSolution
<1>5. floored' <=> "missed" \in worst'
  BY DEF IvpInvariant
<1>. QED  BY <1>1, <1>3, <1>4, <1>5 DEF IvpInvariant

LEMMA DormandPrinceKeeps == IvpInvariant /\ DormandPrince => IvpInvariant'
<1>. SUFFICES ASSUME IvpInvariant, DormandPrince PROVE IvpInvariant'
  OBVIOUS
<1>1. /\ call.routine = "dormand_prince" /\ status' = "running" /\ call' = call
      /\ UNCHANGED <<iteration, t, k1, floored, worst>>
  BY DEF DormandPrince, Called, Continue
<1>2. h' \in Nat
  <2>1. call.t1 \in Int /\ call.min_step \in Nat /\ call.initial_step \in Nat
        /\ call.max_step \in Nat
    BY <1>1, IvpCallTypes DEF IvpInvariant, IvpTypes
  <2>2. max_step \in Int /\ Size(call.t1) \div 100 \in Int
    BY <2>1 DEF max_step, Size
  <2>3. PICK first \in Int : h' = Max({Min({first, max_step}), call.min_step})
    <3>. DEFINE first == IF call.initial_step > 0 THEN call.initial_step
                         ELSE Size(call.t1) \div 100
    <3>1. first \in Int
      BY <2>1, <2>2
    <3>2. h' = Max({Min({first, max_step}), call.min_step})
      BY DEF DormandPrince
    <3>. HIDE DEF first
    <3>. QED  BY <3>1, <3>2
  <2>4. PICK m \in Int : m = Min({first, max_step})
    BY <2>2, TwoNumbers
  <2>5. Max({m, call.min_step}) = IF m >= call.min_step THEN m ELSE call.min_step
    <3>1. m \in Int /\ call.min_step \in Int
      BY <2>1, <2>4
    <3>. QED  BY <3>1, TwoNumbers
  <2>. QED  BY <2>1, <2>3, <2>4, <2>5
<1>3. ToleranceLabelled'
  BY <1>1 DEF ToleranceLabelled, Returned
<1>. QED  BY <1>1, <1>2, <1>3, SolutionUntouched

\* The label of a run that got to the endpoint is what floored says.
LEMMA ArrivedKeeps == IvpInvariant /\ Arrived => IvpInvariant'
<1>. SUFFICES ASSUME IvpInvariant, Arrived PROVE IvpInvariant'
  OBVIOUS
<1>1. /\ call.routine = "dormand_prince" /\ t = call.t1
      /\ status' = "returned"
      /\ UNCHANGED <<call, iteration, t, h, k1, floored, worst>>
  BY DEF Arrived, Running, Return, ivpVars
<1>2. ToleranceLabelled'
  <2>1. CASE floored
    <3>1. diagnostics'.converged = FALSE
      BY <2>1 DEF Arrived, Return
    <3>2. "missed" \in worst'
      BY <2>1, <1>1 DEF IvpInvariant
    <3>. QED  BY <3>1, <3>2, <1>1 DEF ToleranceLabelled
  <2>2. CASE ~floored
    <3>1. diagnostics'.reason = "converged"
      BY <2>2 DEF Arrived, Return
    <3>2. "missed" \notin worst'
      BY <2>2, <1>1 DEF IvpInvariant
    <3>. QED  BY <3>1, <3>2, <1>1 DEF ToleranceLabelled
  <2>. QED  BY <2>1, <2>2
<1>3. h' \in Nat
  BY <1>1 DEF IvpInvariant, IvpTypes
<1>. QED  BY <1>1, <1>2, <1>3, SolutionUntouched

LEMMA OutOfStepsKeeps == IvpInvariant /\ OutOfSteps => IvpInvariant'
<1>. SUFFICES ASSUME IvpInvariant, OutOfSteps PROVE IvpInvariant'
  OBVIOUS
<1>1. /\ call.routine = "dormand_prince" /\ status' = "returned"
      /\ UNCHANGED <<call, iteration, t, h, k1, floored, worst>>
  BY DEF OutOfSteps, Running, Return, ivpVars
<1>2. diagnostics'.converged = FALSE /\ diagnostics'.reason = "iteration_cap"
  BY DEF OutOfSteps, Return
<1>3. ToleranceLabelled'
  BY <1>2 DEF ToleranceLabelled
<1>4. h' \in Nat
  BY <1>1 DEF IvpInvariant, IvpTypes
<1>. QED  BY <1>1, <1>3, <1>4, SolutionUntouched

\* An accepted step moves the time and its slope together; a rejected one
\* moves neither.
LEMMA AttemptKeeps == IvpInvariant /\ Attempt => IvpInvariant'
<1>. SUFFICES ASSUME IvpInvariant, Attempt PROVE IvpInvariant'
  OBVIOUS
<1>1. /\ call.routine = "dormand_prince" /\ status' = "running" /\ call' = call
      /\ iteration' = iteration + 1
  BY DEF Attempt, Running, Continue
<1>2. IvpTypes /\ k1 = t /\ direction * t >= 0 /\ direction * (call.t1 - t) >= 0
  BY <1>1 DEF IvpInvariant, StepsFollowTheSolution
<1>3. PICK error \in Errors :
        LET x == Tried
            accepts == Within(error) \/ x <= call.min_step
        IN  /\ k1' = SlopeAfter(x, accepts)
            /\ \E y \in Scaled(x, error) : h' = Clamped(y, call.min_step, max_step)
            /\ IF accepts
                 THEN /\ t' = t + direction * x
                      /\ steps' = [steps EXCEPT !.accepted = @ + 1]
                      /\ floored' = Floored(error)
                      /\ worst' = worst \cup {error}
                 ELSE /\ steps' = [steps EXCEPT !.rejected = @ + 1]
                      /\ UNCHANGED <<t, floored, worst>>
  BY DEF Attempt
<1>4. h' \in Nat
  BY <1>1, <1>2, <1>3, TriedStaysInside, NextStepType
<1>5. \/ t' = t + direction * Tried /\ k1' = t'
         /\ floored' = (floored \/ error = "missed") /\ worst' = worst \cup {error}
      \/ t' = t /\ k1' = t /\ floored' = floored /\ worst' = worst
  BY <1>2, <1>3 DEF SlopeAfter, Floored
<1>6. t' \in Int /\ direction * t' >= 0 /\ direction * (call.t1 - t') >= 0
  BY <1>2, <1>5, TriedStaysInside DEF IvpTypes
<1>7. direction' = direction
  BY <1>1 DEF direction
<1>8. StepsFollowTheSolution'
  BY <1>1, <1>5, <1>6, <1>7 DEF StepsFollowTheSolution
<1>9. floored' <=> "missed" \in worst'
  <2>1. floored <=> "missed" \in worst
    BY DEF IvpInvariant
  <2>2. CASE floored' = (floored \/ error = "missed") /\ worst' = worst \cup {error}
    <3>1. floored' <=> floored \/ error = "missed"
      BY <2>2
    <3>2. "missed" \in worst' <=> "missed" \in worst \/ error = "missed"
      BY <2>2
    <3>. QED  BY <2>1, <3>1, <3>2
  <2>3. CASE floored' = floored /\ worst' = worst
    BY <2>1, <2>3
  <2>. QED  BY <1>5, <2>2, <2>3
<1>10. IvpTypes'
  BY <1>1, <1>2, <1>4, <1>6 DEF IvpTypes
<1>11. Rk4OnTheGrid' /\ ToleranceLabelled'
  BY <1>1 DEF Rk4OnTheGrid, ToleranceLabelled, Returned
<1>. QED  BY <1>1, <1>8, <1>9, <1>10, <1>11 DEF IvpInvariant

\* The direction of a call, and the length of its interval.
LEMMA DirectionTypes ==
    ASSUME IvpTypes
    PROVE  /\ direction \in {-1, 1}
           /\ Size(call.t1) \in Nat
           /\ call.t1 = direction * Size(call.t1)
<1>1. call.t1 \in Int
  BY IvpCallTypes DEF IvpTypes
<1>. QED  BY <1>1 DEF direction, Size

LEMMA RungeKuttaKeeps == IvpInvariant /\ RungeKutta => IvpInvariant'
<1>. SUFFICES ASSUME IvpInvariant, RungeKutta PROVE IvpInvariant'
  OBVIOUS
<1>1. /\ status = "called" /\ call.routine = "rk4" /\ call' = call
      /\ UNCHANGED <<iteration, t, h, k1, floored, worst>>
      /\ IvpTypes /\ t = 0 /\ iteration = 0 /\ floored = FALSE /\ worst = {}
  BY DEF RungeKutta, Called, Continue, Throw, ivpVars, IvpInvariant
<1>2. (status' = "running" /\ call.steps > 0) \/ status' = "thrown"
  BY DEF RungeKutta, Continue, Throw
<1>3. IvpTypes'
  BY <1>1 DEF IvpTypes
<1>4. Rk4OnTheGrid'
  <2>1. CASE status' = "running" /\ call.steps > 0
    <3>. DEFINE stride == direction * (Size(call.t1) \div call.steps)
    <3>1. call.steps \in Nat \ {0}
      BY <1>1, <2>1, IvpCallTypes DEF IvpTypes
    <3>2. Size(call.t1) \div call.steps \in Nat /\ direction \in {-1, 1}
      BY <1>1, <3>1, DirectionTypes, Division
    <3>3. stride \in Int /\ stride' = stride
      BY <1>1, <3>2 DEF direction
    <3>. HIDE DEF stride
    <3>4. t' = iteration' * stride
      BY <1>1, <3>3
    <3>. QED  BY <1>1, <3>1, <3>3, <3>4 DEF Rk4OnTheGrid, stride
  <2>2. CASE status' = "thrown"
    BY <2>2 DEF Rk4OnTheGrid
  <2>. QED  BY <1>2, <2>1, <2>2
<1>5. StepsFollowTheSolution' /\ ToleranceLabelled'
  BY <1>1, <1>2 DEF StepsFollowTheSolution, ToleranceLabelled, Returned
<1>. QED  BY <1>1, <1>2, <1>3, <1>4, <1>5 DEF IvpInvariant

LEMMA Rk4StepKeeps == IvpInvariant /\ Rk4Step => IvpInvariant'
<1>. SUFFICES ASSUME IvpInvariant, Rk4Step PROVE IvpInvariant'
  OBVIOUS
<1>. DEFINE stride == direction * (Size(call.t1) \div call.steps)
<1>1. /\ call.routine = "rk4" /\ status = "running" /\ status' = "running"
      /\ call' = call /\ iteration' = iteration + 1 /\ iteration < call.steps
      /\ t' = iteration * stride + stride
      /\ UNCHANGED <<h, k1, floored, worst>>
  BY DEF Rk4Step, Running, Continue
<1>2. /\ IvpTypes /\ call.steps \in Nat \ {0} /\ iteration \in Nat /\ worst = {}
  BY <1>1 DEF IvpInvariant, Rk4OnTheGrid, IvpTypes
<1>3. Size(call.t1) \div call.steps \in Nat /\ direction \in {-1, 1}
  BY <1>2, DirectionTypes, Division
<1>4. stride \in Int /\ stride' = stride
  BY <1>1, <1>3 DEF direction
<1>. HIDE DEF stride
<1>5. t' \in Int /\ t' = iteration' * stride'
  BY <1>1, <1>2, <1>4
<1>6. IvpTypes'
  BY <1>1, <1>2, <1>5 DEF IvpTypes
<1>7. Rk4OnTheGrid'
  BY <1>1, <1>2, <1>5 DEF Rk4OnTheGrid, stride
<1>8. StepsFollowTheSolution' /\ ToleranceLabelled'
  BY <1>1 DEF StepsFollowTheSolution, ToleranceLabelled, Returned
<1>9. floored' <=> "missed" \in worst'
  BY <1>1 DEF IvpInvariant
<1>. QED  BY <1>1, <1>6, <1>7, <1>8, <1>9 DEF IvpInvariant

\* All its steps make up the interval, which they divide.
LEMMA Rk4DoneKeeps == IvpInvariant /\ Rk4Done => IvpInvariant'
<1>. SUFFICES ASSUME IvpInvariant, Rk4Done PROVE IvpInvariant'
  OBVIOUS
<1>1. /\ call.routine = "rk4" /\ status = "running" /\ status' = "returned"
      /\ iteration = call.steps
      /\ UNCHANGED <<call, iteration, t, h, k1, floored, worst>>
      /\ diagnostics'.reason = "converged"
  BY DEF Rk4Done, Running, Return, ivpVars
<1>2. /\ IvpTypes /\ call.steps \in Nat \ {0} /\ worst = {}
      /\ t = call.steps * (direction * (Size(call.t1) \div call.steps))
  BY <1>1 DEF IvpInvariant, Rk4OnTheGrid
<1>3. (Size(call.t1) % call.steps) = 0
  BY <1>1, <1>2, IvpCallTypes DEF IvpTypes
<1>4. PICK q \in Nat : q = Size(call.t1) \div call.steps /\ Size(call.t1) = call.steps * q
  <2>1. Size(call.t1) \in Nat
    BY <1>2, DirectionTypes
  <2>2. Size(call.t1) \div call.steps \in Nat
    BY <1>2, <2>1, Division
  <2>3. Size(call.t1) = call.steps * (Size(call.t1) \div call.steps)
                          + (Size(call.t1) % call.steps)
    BY <1>2, <2>1, Division
  <2>4. PICK q \in Nat, n \in Nat \ {0} : q = Size(call.t1) \div call.steps /\ n = call.steps
    BY <1>2, <2>2
  <2>5. Size(call.t1) = n * q + 0
    BY <1>3, <2>3, <2>4
  <2>. QED  BY <2>4, <2>5
<1>5. t = call.t1
  <2>1. call.t1 = direction * Size(call.t1) /\ direction \in {-1, 1}
    BY <1>2, DirectionTypes
  <2>2. t = call.steps * (direction * q)
    BY <1>2, <1>4
  <2>3. CASE direction = 1
    BY <2>1, <2>2, <2>3, <1>2, <1>4
  <2>4. CASE direction = -1
    BY <2>1, <2>2, <2>4, <1>2, <1>4
  <2>. QED  BY <2>1, <2>3, <2>4
<1>6. ToleranceLabelled'
  BY <1>1, <1>2, <1>5 DEF ToleranceLabelled
<1>7. h' \in Nat
  BY <1>1, <1>2 DEF IvpTypes
<1>. QED  BY <1>1, <1>6, <1>7, SolutionUntouched

LEMMA IvpInvariantHolds == IvpSpec => []IvpInvariant
<1>1. IvpInvariant /\ [IvpNext]_<<routineVars, ivpVars>> => IvpInvariant'
  <2>1. CASE UNCHANGED <<routineVars, ivpVars>>
    BY <2>1 DEF routineVars, ivpVars, IvpInvariant, IvpTypes, Rk4OnTheGrid,
                StepsFollowTheSolution, ToleranceLabelled, Returned, direction
  <2>. QED
    BY <2>1, DormandPrinceKeeps, ArrivedKeeps, OutOfStepsKeeps, AttemptKeeps,
       RungeKuttaKeeps, Rk4StepKeeps, Rk4DoneKeeps DEF IvpNext
<1>. QED  BY <1>1, IvpStarts, PTL DEF IvpSpec

(***************************************************************************)
(* For every interval, in either direction, every limit on the steps and   *)
(* every sequence of measured errors, a step starts from the slope of the  *)
(* time reached and none leaves the interval (ode.hpp dormand_prince).     *)
(***************************************************************************)
THEOREM StepsFollowTheSolutionHolds == IvpSpec => []StepsFollowTheSolution
  BY IvpInvariantHolds, PTL DEF IvpInvariant

(***************************************************************************)
(* And a result is labelled converged only at the endpoint with no step    *)
(* measured above the tolerance, step_floor only with one that was.        *)
(***************************************************************************)
THEOREM ToleranceLabelledHolds == IvpSpec => []ToleranceLabelled
  BY IvpInvariantHolds, PTL DEF IvpInvariant

-----------------------------------------------------------------------------
(***************************************************************************)
(* Adaptive Simpson.  Whatever corrections the panels turn out to have and *)
(* whichever of the two recursive calls is made first, no piece of the     *)
(* interval is integrated twice or left out, or with another's ordinates.  *)
(***************************************************************************)

\* A panel, sampled where it lies.
Panel ==
    {p \in [low : Int, high : Int, ordinates : Int \X Int \X Int,
            whole : [of : Int \X Int \X Int, width : Int],
            tolerance : Nat, depth : Nat] : p.low <= p.high /\ WellSampled(p)}

Covers(p, piece) == p.low <= piece /\ piece < p.high

\* The piece waits in one panel, or panels of one place have been added up.
Waits(piece, panels, leaves) ==
    /\ \E i \in 1 .. Len(panels) :
         /\ Covers(panels[i], piece)
         /\ \A j \in 1 .. Len(panels) : Covers(panels[j], piece) => j = i
    /\ \A leaf \in leaves : ~Covers(leaf.panel, piece)

Added(piece, panels, leaves) ==
    /\ \A i \in 1 .. Len(panels) : ~Covers(panels[i], piece)
    /\ \E leaf \in leaves :
         /\ Covers(leaf.panel, piece)
         /\ \A other \in leaves : Covers(other.panel, piece) => other.panel = leaf.panel

Divided ==
    /\ pending \in Seq(Panel)
    /\ \A leaf \in finished : leaf.panel \in Panel
    /\ \A piece \in 0 .. Grid - 1 :
         Waits(piece, pending, finished) \/ Added(piece, pending, finished)

QuadratureInvariant ==
    /\ call \in QuadratureCalls
    /\ status = "called" => pending = <<>> /\ finished = {}
    /\ Running("adaptive_simpson") => Divided

\* The panel between two points, sampled at them and half way.
Sampled(low, high, tolerance, depth) ==
    PanelOf(low, high, <<low, Midpoint(low, high), high>>,
            simpson_rule(<<low, Midpoint(low, high), high>>, high - low),
            tolerance, depth)

\* It is one of the panels.
LEMMA SampledIsPanel ==
    ASSUME NEW low \in Int, NEW high \in Int, low <= high,
           NEW tolerance \in Nat, NEW depth \in Nat
    PROVE  Sampled(low, high, tolerance, depth) \in Panel
<1>1. PICK m \in Int : m = Midpoint(low, high)
  BY DEF Midpoint
<1>2. PICK wide \in Int : wide = high - low
  OBVIOUS
<1>. QED  BY <1>1, <1>2 DEF Sampled, PanelOf, simpson_rule, Panel, WellSampled

\* The middle cuts a panel in two, each half sampled where it lies: a piece of it is in one of the halves.
LEMMA HalvesShare ==
    ASSUME NEW p \in Panel
    PROVE  /\ Halves(p)[1] \in Panel /\ Halves(p)[2] \in Panel
           /\ \A piece \in Int :
                /\ Covers(p, piece) <=>
                     Covers(Halves(p)[1], piece) \/ Covers(Halves(p)[2], piece)
                /\ ~(Covers(Halves(p)[1], piece) /\ Covers(Halves(p)[2], piece))
<1>1. PICK low \in Int, high \in Int, tolerance \in Nat, depth \in Nat :
        /\ p = Sampled(low, high, tolerance, depth)
        /\ low <= high
  <2>. DEFINE q == Sampled(p.low, p.high, p.tolerance, p.depth)
  <2>1. p = q
    BY DEF Panel, WellSampled, simpson_rule, Sampled, PanelOf
  <2>. QED  BY <2>1 DEF Panel
<1>2. PICK middle \in low .. high, half \in Nat, deeper \in Nat :
        /\ middle = Midpoint(low, high)
        /\ half = tolerance \div 2
        /\ deeper = depth + 1
  BY <1>1 DEF Midpoint
<1>3. /\ Halves(p)[1] = Sampled(low, middle, half, deeper)
      /\ Halves(p)[2] = Sampled(middle, high, half, deeper)
  BY <1>1, <1>2 DEF Halves, HalfOf, Sampled, PanelOf
<1>4. Halves(p)[1] \in Panel /\ Halves(p)[2] \in Panel
  BY <1>2, <1>3, SampledIsPanel
<1>5. ASSUME NEW piece \in Int
      PROVE  /\ Covers(p, piece) <=> low <= piece /\ piece < high
             /\ Covers(Halves(p)[1], piece) <=> low <= piece /\ piece < middle
             /\ Covers(Halves(p)[2], piece) <=> middle <= piece /\ piece < high
  BY <1>1, <1>3 DEF Covers, Sampled, PanelOf
<1>. QED  BY <1>2, <1>4, <1>5

\* A panel at the front that is a leaf is added; the others wait as before.
LEMMA LeafAdded ==
    ASSUME NEW panels \in Seq(Panel), panels # <<>>, NEW leaves, NEW leaf,
           leaf.panel = Head(panels), NEW piece \in Int,
           Waits(piece, panels, leaves) \/ Added(piece, panels, leaves)
    PROVE  \/ Waits(piece, Tail(panels), leaves \cup {leaf})
           \/ Added(piece, Tail(panels), leaves \cup {leaf})
<1>1. /\ Len(panels) \in Nat \ {0}
      /\ Head(panels) = panels[1]
      /\ Len(Tail(panels)) = Len(panels) - 1
      /\ \A i \in 1 .. Len(panels) - 1 : Tail(panels)[i] = panels[i + 1]
  OBVIOUS
<1>2. CASE Added(piece, panels, leaves)
  BY <1>1, <1>2 DEF Added
<1>3. CASE Waits(piece, panels, leaves)
  <2>1. PICK i \in 1 .. Len(panels) :
          /\ Covers(panels[i], piece)
          /\ \A j \in 1 .. Len(panels) : Covers(panels[j], piece) => j = i
    BY <1>3 DEF Waits
  <2>2. \A other \in leaves : ~Covers(other.panel, piece)
    BY <1>3 DEF Waits
  <2>3. CASE i = 1
    <3>1. \A j \in 1 .. Len(Tail(panels)) : ~Covers(Tail(panels)[j], piece)
      BY <1>1, <2>1, <2>3
    <3>. QED  BY <1>1, <2>1, <2>2, <2>3, <3>1 DEF Added
  <2>4. CASE i # 1
    <3>1. ~Covers(leaf.panel, piece)
      BY <1>1, <2>1, <2>4
    <3>2. i - 1 \in 1 .. Len(Tail(panels)) /\ Tail(panels)[i - 1] = panels[i]
      BY <1>1, <2>4
    <3>3. \A j \in 1 .. Len(Tail(panels)) : Covers(Tail(panels)[j], piece) => j = i - 1
      BY <1>1, <2>1
    <3>. QED  BY <2>1, <2>2, <3>1, <3>2, <3>3 DEF Waits
  <2>. QED  BY <2>3, <2>4
<1>. QED  BY <1>2, <1>3

\* The two halves, in either order, wait where their whole waited.
LEMMA HalvesWait ==
    ASSUME NEW panels \in Seq(Panel), panels # <<>>, NEW leaves,
           NEW first \in {1, 2}, NEW piece \in Int, NEW longer,
           longer = <<Halves(Head(panels))[first], Halves(Head(panels))[3 - first]>>
                      \o Tail(panels)
    PROVE  /\ longer \in Seq(Panel)
           /\ Waits(piece, panels, leaves) => Waits(piece, longer, leaves)
           /\ Added(piece, panels, leaves) => Added(piece, longer, leaves)
<1>. DEFINE p == Head(panels)
            u == Halves(p)[first]
            v == Halves(p)[3 - first]
<1>1. /\ Len(panels) \in Nat \ {0}
      /\ p = panels[1] /\ p \in Panel
      /\ Tail(panels) \in Seq(Panel)
      /\ Len(Tail(panels)) = Len(panels) - 1
      /\ \A i \in 1 .. Len(panels) - 1 : Tail(panels)[i] = panels[i + 1]
  OBVIOUS
<1>2. /\ u \in Panel /\ v \in Panel
      /\ Covers(p, piece) <=> Covers(u, piece) \/ Covers(v, piece)
      /\ ~(Covers(u, piece) /\ Covers(v, piece))
  <2>1. \/ first = 1 /\ 3 - first = 2
        \/ first = 2 /\ 3 - first = 1
    <3>. HIDE DEF u, v, p
    <3>1. CASE first = 1
      BY <3>1
    <3>2. CASE first = 2
      BY <3>2
    <3>. QED  BY <3>1, <3>2
  <2>2. \/ u = Halves(p)[1] /\ v = Halves(p)[2]
        \/ u = Halves(p)[2] /\ v = Halves(p)[1]
    BY <2>1
  <2>. HIDE DEF u, v, p
  <2>. QED  BY <1>1, <2>2, HalvesShare
<1>. HIDE DEF u, v
<1>3. /\ <<u, v>> \in Seq(Panel) /\ Len(<<u, v>>) = 2
      /\ <<u, v>>[1] = u /\ <<u, v>>[2] = v
  BY <1>2
<1>4. longer = <<u, v>> \o Tail(panels)
  BY DEF u, v
<1>5. /\ longer \in Seq(Panel)
      /\ Len(longer) = Len(panels) + 1
      /\ longer[1] = u /\ longer[2] = v
      /\ \A i \in 3 .. Len(panels) + 1 : longer[i] = panels[i - 1]
  <2>1. longer \in Seq(Panel) /\ Len(longer) = 2 + (Len(panels) - 1)
    BY <1>1, <1>3, <1>4, ConcatProperties
  <2>2. \A i \in 1 .. Len(panels) + 1 :
          longer[i] = IF i <= 2 THEN <<u, v>>[i] ELSE Tail(panels)[i - 2]
    BY <1>1, <1>3, <1>4, ConcatProperties
  <2>3. \A i \in 3 .. Len(panels) + 1 :
          i - 2 \in 1 .. Len(panels) - 1 /\ (i - 2) + 1 = i - 1
    BY <1>1
  <2>. QED  BY <1>1, <1>3, <2>1, <2>2, <2>3
<1>6. ASSUME Added(piece, panels, leaves)
      PROVE  Added(piece, longer, leaves)
  <2>1. \A i \in 1 .. Len(panels) : ~Covers(panels[i], piece)
    BY <1>6 DEF Added
  <2>2. \A i \in 1 .. Len(longer) : ~Covers(longer[i], piece)
    BY <1>1, <1>2, <1>5, <2>1
  <2>. QED  BY <1>6, <2>2 DEF Added
<1>7. ASSUME Waits(piece, panels, leaves)
      PROVE  Waits(piece, longer, leaves)
  <2>1. PICK i \in 1 .. Len(panels) :
          /\ Covers(panels[i], piece)
          /\ \A j \in 1 .. Len(panels) : Covers(panels[j], piece) => j = i
    BY <1>7 DEF Waits
  <2>2. PICK at \in 1 .. Len(longer) :
          at = IF i # 1 THEN i + 1 ELSE IF Covers(u, piece) THEN 1 ELSE 2
    BY <1>1, <1>5
  <2>3. Covers(longer[at], piece)
    <3>1. CASE i = 1
      BY <1>1, <1>2, <1>5, <2>1, <2>2, <3>1
    <3>2. CASE i # 1
      <4>1. at \in 3 .. Len(panels) + 1 /\ at - 1 = i
        BY <1>1, <2>2, <3>2
      <4>. QED  BY <1>5, <2>1, <4>1
    <3>. QED  BY <3>1, <3>2
  <2>4. ASSUME NEW j \in 1 .. Len(longer), Covers(longer[j], piece)
        PROVE  j = at
    <3>1. CASE j \in {1, 2}
      <4>1. Covers(u, piece) \/ Covers(v, piece)
        BY <1>5, <2>4, <3>1
      <4>2. i = 1
        BY <1>1, <1>2, <2>1, <4>1
      <4>. QED  BY <1>2, <1>5, <2>2, <2>4, <3>1, <4>2
    <3>2. CASE j \in 3 .. Len(longer)
      <4>1. j - 1 \in 1 .. Len(panels) /\ j - 1 # 1 /\ longer[j] = panels[j - 1]
        BY <1>1, <1>5, <3>2
      <4>2. j - 1 = i
        BY <2>1, <2>4, <4>1
      <4>. QED  BY <1>1, <2>2, <3>2, <4>1, <4>2
    <3>. QED  BY <1>1, <1>5, <3>1, <3>2
  <2>. QED  BY <1>7, <2>3, <2>4 DEF Waits
<1>. QED  BY <1>5, <1>6, <1>7

LEMMA QuadratureStarts ==
    CallOf(QuadratureCalls) /\ QuadratureRest => QuadratureInvariant
BY DEF CallOf, QuadratureRest, QuadratureInvariant, Running

LEMMA AdaptiveSimpsonKeeps ==
    QuadratureInvariant /\ AdaptiveSimpson => QuadratureInvariant'
<1>. SUFFICES ASSUME QuadratureInvariant, AdaptiveSimpson PROVE QuadratureInvariant'
  OBVIOUS
<1>1. /\ call \in QuadratureCalls /\ call.routine = "adaptive_simpson" /\ call' = call
      /\ finished = {} /\ finished' = {}
      /\ status' # "called"
  BY DEF QuadratureInvariant, AdaptiveSimpson, Called, Continue, Return, Throw
<1>2. call.ends \in {<<0, Grid>>, <<0, 0>>, <<Grid, 0>>}
  BY <1>1 DEF QuadratureCalls
<1>3. ASSUME Running("adaptive_simpson")' PROVE Divided'
  <2>1. /\ call.ends[2] > call.ends[1]
        /\ pending' = <<Sampled(call.ends[1], call.ends[2], Tolerance, 1)>>
    BY <1>3 DEF Running, AdaptiveSimpson, Return, Throw, Sampled
  <2>2. pending' = <<Sampled(0, Grid, Tolerance, 1)>>
    BY <1>2, <2>1, QuadratureAssumption
  <2>3. PICK p \in Panel : p = Sampled(0, Grid, Tolerance, 1)
    <3>1. PICK g \in Nat \ {0}, tolerance \in Nat : g = Grid /\ tolerance = Tolerance
      BY QuadratureAssumption
    <3>2. Sampled(0, g, tolerance, 1) \in Panel
      BY <3>1, SampledIsPanel
    <3>. QED  BY <3>1, <3>2
  <2>4. pending' \in Seq(Panel) /\ Len(pending') = 1 /\ pending'[1] = p
    BY <2>2, <2>3
  <2>5. \A piece \in 0 .. Grid - 1 : Covers(p, piece)
    BY <2>3, QuadratureAssumption DEF Covers, Sampled, PanelOf
  <2>6. \A piece \in 0 .. Grid - 1 : Waits(piece, pending', finished')
    BY <1>1, <2>4, <2>5 DEF Waits
  <2>7. Grid' = Grid
    BY DEF Grid
  <2>. QED  BY <1>1, <2>4, <2>6, <2>7 DEF Divided
<1>. QED  BY <1>1, <1>3 DEF QuadratureInvariant

LEMMA VisitKeeps == QuadratureInvariant /\ Visit => QuadratureInvariant'
<1>. SUFFICES ASSUME QuadratureInvariant, Visit PROVE QuadratureInvariant'
  OBVIOUS
<1>1. /\ call \in QuadratureCalls /\ call' = call /\ status' = "running"
      /\ Divided /\ pending # <<>>
  BY DEF QuadratureInvariant, Visit, Continue
<1>2. pending \in Seq(Panel) /\ Grid \in Nat \ {0} /\ Grid' = Grid
  BY <1>1, QuadratureAssumption DEF Divided, Grid
<1>3. PICK difference \in Differences \cup {NotANumber} :
        \/ /\ finished' = finished \cup
                 {[panel |-> Head(pending), correction |-> difference]}
           /\ pending' = Tail(pending)
        \/ /\ \E first \in {1, 2} :
                 pending' = <<Halves(Head(pending))[first], Halves(Head(pending))[3 - first]>>
                              \o Tail(pending)
           /\ finished' = finished
  BY DEF Visit
<1>4. CASE /\ finished' = finished \cup
                {[panel |-> Head(pending), correction |-> difference]}
           /\ pending' = Tail(pending)
  <2>. DEFINE leaf == [panel |-> Head(pending), correction |-> difference]
  <2>1. leaf.panel = Head(pending)
    OBVIOUS
  <2>. HIDE DEF leaf
  <2>2. finished' = finished \cup {leaf}
    BY <1>4 DEF leaf
  <2>3. \A piece \in 0 .. Grid - 1 :
          Waits(piece, pending', finished') \/ Added(piece, pending', finished')
    <3>1. SUFFICES ASSUME NEW piece \in 0 .. Grid - 1
                   PROVE  Waits(piece, pending', finished') \/ Added(piece, pending', finished')
      OBVIOUS
    <3>2. piece \in Int
      BY <1>2
    <3>3. Waits(piece, pending, finished) \/ Added(piece, pending, finished)
      BY <1>1 DEF Divided
    <3>4. \/ Waits(piece, Tail(pending), finished \cup {leaf})
          \/ Added(piece, Tail(pending), finished \cup {leaf})
      BY <1>1, <1>2, <2>1, <3>2, <3>3, LeafAdded
    <3>. QED  BY <1>4, <2>2, <3>4
  <2>4. pending' \in Seq(Panel) /\ Head(pending) \in Panel
    BY <1>1, <1>2, <1>4
  <2>5. \A other \in finished' : other.panel \in Panel
    BY <1>1, <2>1, <2>2, <2>4 DEF Divided
  <2>. QED  BY <1>1, <1>2, <2>3, <2>4, <2>5 DEF QuadratureInvariant, Divided
<1>5. CASE /\ \E first \in {1, 2} :
                pending' = <<Halves(Head(pending))[first], Halves(Head(pending))[3 - first]>>
                             \o Tail(pending)
           /\ finished' = finished
  <2>1. PICK first \in {1, 2} :
          pending' = <<Halves(Head(pending))[first], Halves(Head(pending))[3 - first]>>
                       \o Tail(pending)
    BY <1>5
  <2>2. \A piece \in 0 .. Grid - 1 :
          Waits(piece, pending', finished') \/ Added(piece, pending', finished')
    <3>1. SUFFICES ASSUME NEW piece \in 0 .. Grid - 1
                   PROVE  Waits(piece, pending', finished') \/ Added(piece, pending', finished')
      OBVIOUS
    <3>2. piece \in Int
      BY <1>2
    <3>3. Waits(piece, pending, finished) \/ Added(piece, pending, finished)
      BY <1>1 DEF Divided
    <3>4. /\ Waits(piece, pending, finished) => Waits(piece, pending', finished)
          /\ Added(piece, pending, finished) => Added(piece, pending', finished)
      BY <1>1, <1>2, <2>1, <3>2, HalvesWait
    <3>. QED  BY <1>5, <3>3, <3>4
  <2>3. pending' \in Seq(Panel)
    <3>1. 0 \in Int
      OBVIOUS
    <3>. QED  BY <1>1, <1>2, <2>1, <3>1, HalvesWait
  <2>4. \A leaf \in finished' : leaf.panel \in Panel
    BY <1>1, <1>5 DEF Divided
  <2>. QED  BY <1>1, <1>2, <2>2, <2>3, <2>4 DEF QuadratureInvariant, Divided
<1>. QED  BY <1>3, <1>4, <1>5

LEMMA QuadratureInvariantHolds == QuadratureSpec => []QuadratureInvariant
<1>1. QuadratureInvariant /\ [QuadratureNext]_<<routineVars, quadratureVars>>
        => QuadratureInvariant'
  <2>. SUFFICES ASSUME QuadratureInvariant, [QuadratureNext]_<<routineVars, quadratureVars>>
                PROVE  QuadratureInvariant'
    OBVIOUS
  <2>1. CASE UNCHANGED <<routineVars, quadratureVars>>
    BY <2>1 DEF routineVars, quadratureVars, QuadratureInvariant, Divided, Running
  <2>2. CASE Integrated
    BY <2>2 DEF Integrated, Return, QuadratureInvariant, Running
  <2>3. CASE Romberg \/ RombergRow \/ RombergOut
    BY <2>3 DEF Romberg, RombergRow, RombergOut, Called, Continue, Return, Throw,
                QuadratureInvariant, Running
  <2>. QED
    BY <2>1, <2>2, <2>3, AdaptiveSimpsonKeeps, VisitKeeps DEF QuadratureNext
<1>. QED  BY <1>1, QuadratureStarts, PTL DEF QuadratureSpec

(***************************************************************************)
(* For every depth, every tolerance and all corrections, each piece of the *)
(* interval is in exactly one panel at every moment, and every panel has   *)
(* the ordinates of its own ends and middle (quadrature.hpp                *)
(* adaptive_simpson_step).                                                 *)
(***************************************************************************)
THEOREM EachPieceOnceHolds == QuadratureSpec => []EachPieceOnce
<1>1. ASSUME Running("adaptive_simpson"), Divided, NEW piece \in 0 .. Grid - 1
      PROVE  Cardinality({p \in Panels : p.low <= piece /\ piece < p.high}) = 1
  <2>1. PICK p \in Panels :
          /\ Covers(p, piece)
          /\ \A other \in Panels : Covers(other, piece) => other = p
    <3>1. CASE Waits(piece, pending, finished)
      BY <3>1 DEF Waits, Panels
    <3>2. CASE Added(piece, pending, finished)
      BY <3>2 DEF Added, Panels
    <3>. QED  BY <1>1, <3>1, <3>2 DEF Divided
  <2>2. {q \in Panels : q.low <= piece /\ piece < q.high} = {p}
    BY <2>1 DEF Covers
  <2>. QED  BY <2>2, FS_Singleton
<1>2. ASSUME Divided, NEW p \in Panels
      PROVE  WellSampled(p)
  <2>1. p \in Panel
    <3>1. CASE \E leaf \in finished : p = leaf.panel
      BY <1>2, <3>1 DEF Divided
    <3>2. CASE \E i \in 1 .. Len(pending) : p = pending[i]
      BY <1>2, <3>2 DEF Divided
    <3>. QED  BY <1>2, <3>1, <3>2 DEF Panels
  <2>. QED  BY <2>1 DEF Panel
<1>3. QuadratureInvariant => EachPieceOnce
  BY <1>1, <1>2 DEF QuadratureInvariant, EachPieceOnce
<1>. QED  BY <1>3, QuadratureInvariantHolds, PTL

-----------------------------------------------------------------------------
(***************************************************************************)
(* Bisection and Brent.  For every function that is a number where it is   *)
(* asked, and every sequence of interpolations accepted and refused, what  *)
(* they report as converged encloses a root.                               *)
(***************************************************************************)

\* An interval that bisection can halve until it is two grid points wide.
Halvable(width) ==
    \E halvings \in SUBSET (1 .. Width) :
        /\ width \in halvings
        /\ \A w \in halvings : w % 2 = 0 /\ (w > 2 => w \div 2 \in halvings)

Numbers == \A x \in DOMAIN known : f(x) # NaN

RootTypes ==
    /\ call \in RootCalls
    /\ a \in Int /\ b \in Int /\ c \in Int
    /\ \A x \in DOMAIN known : x \in Int /\ f(x) \in Ordinates
    /\ status = "called" => estimate = 0

\* Two evaluated points strictly on opposite sides of a root.
Opposed(x, y) ==
    /\ x \in DOMAIN known /\ y \in DOMAIN known
    /\ f(x) # 0 /\ f(y) # 0 /\ (f(x) < 0) # (f(y) < 0)

\* Bisection encloses the root by a and b, in an interval it can halve.
BisectionHolds == Opposed(a, b) /\ Halvable(Abs(b - a))

\* Brent, before it has put its abscissae in order: c is still a and b is on
\* the other side, or b is new and a and c enclose the root.
BrentHolds ==
    /\ b \in DOMAIN known
    /\ (c = a /\ Opposed(a, b)) \/ Opposed(a, c)

RootInvariant ==
    /\ RootTypes
    /\ Numbers =>
         /\ Running("bisection") => BisectionHolds
         /\ Running("brent") => BrentHolds
    /\ BracketHeld

LEMMA NumbersAreIntegers ==
    /\ NaN \in Int /\ NaN # 0
    /\ \A y \in Ordinates : y \in Int
    /\ Width \in Nat \ {0}
BY RootAssumption DEF NaN, Ordinates

LEMMA WidthHalves == Halvable(Width)
BY RootAssumption DEF Halvable

LEMMA HalfHalves ==
    ASSUME NEW w \in Nat, Halvable(w)
    PROVE  /\ w % 2 = 0
           /\ w > 2 => Halvable(w \div 2)
<1>1. PICK halvings \in SUBSET (1 .. Width) :
        /\ w \in halvings
        /\ \A v \in halvings : v % 2 = 0 /\ (v > 2 => v \div 2 \in halvings)
  BY DEF Halvable
<1>2. w % 2 = 0 /\ (w > 2 => w \div 2 \in halvings)
  BY <1>1
<1>. QED  BY <1>1, <1>2 DEF Halvable

\* Asking for an ordinate changes none that is known.
LEMMA LearnKeeps ==
    ASSUME RootTypes, NEW x \in Int, NEW y \in At(x), Learn(x, y)
    PROVE  /\ DOMAIN known' = DOMAIN known \cup {x}
           /\ known'[x] = y
           /\ \A p \in DOMAIN known : f(p)' = f(p)
           /\ \A p \in DOMAIN known' : p \in Int /\ f(p)' \in Ordinates
           /\ Numbers' => Numbers
<1>1. DOMAIN known' = DOMAIN known \cup {x} /\ known'[x] = y
  BY DEF Learn
<1>2. \A p \in DOMAIN known : known'[p] = known[p]
  BY DEF Learn, At, f
<1>3. y \in Ordinates
  BY DEF At, f, RootTypes
<1>4. \A p \in DOMAIN known' : p \in Int /\ known'[p] \in Ordinates
  BY <1>1, <1>2, <1>3 DEF RootTypes, f
<1>5. NaN' = NaN
  BY DEF NaN
<1>6. Numbers' => Numbers
  BY <1>1, <1>2, <1>5 DEF Numbers, f
<1>. QED  BY <1>1, <1>2, <1>4, <1>6 DEF f

LEMMA EncloseKeeps == RootInvariant /\ Enclose => RootInvariant'
<1>. SUFFICES ASSUME RootInvariant, Enclose PROVE RootInvariant'
  OBVIOUS
<1>1. /\ call \in RootCalls /\ call' = call /\ estimate = 0 /\ estimate' = 0
      /\ call.routine \in {"bisection", "brent"} /\ status' # "called"
      /\ a \in Int /\ b \in Int /\ c \in Int
  BY DEF RootInvariant, RootTypes, Enclose, Called, Continue, Return, Throw
<1>2. call.ends \in {<<0, Width>>, <<Width, 0>>}
  BY <1>1 DEF RootCalls
<1>3. PICK low \in Int, high \in Int :
        /\ low = call.ends[1] /\ high = call.ends[2]
        /\ low # high /\ Abs(high - low) = Width /\ Abs(low - high) = Width
  BY <1>2, NumbersAreIntegers DEF Abs
<1>4. PICK fa \in Ordinates, fb \in Ordinates :
        /\ known' = [x \in {low, high} |-> IF x = low THEN fa ELSE fb]
        /\ IF ~brackets_root(fa, fb)
             THEN Throw /\ UNCHANGED <<a, b, c, d, e, root>>
             ELSE /\ \/ a' = low /\ b' = high
                     \/ a' = high /\ b' = low /\ call.routine = "brent"
                  /\ c' = a'
                  /\ root' = IF fa = 0 THEN low ELSE IF fb = 0 THEN high ELSE a'
                  /\ IF 0 \in {fa, fb} THEN Return(0, "converged") ELSE Continue
  BY <1>3 DEF Enclose
<1>5. /\ DOMAIN known' = {low, high}
      /\ f(low)' = fa /\ f(high)' = fb
  BY <1>3, <1>4 DEF f
<1>6. RootTypes'
  <2>1. \A x \in DOMAIN known' : x \in Int /\ f(x)' \in Ordinates'
    BY <1>5 DEF Ordinates, NaN
  <2>2. a' \in Int /\ b' \in Int /\ c' \in Int
    BY <1>1, <1>3, <1>4
  <2>. QED  BY <1>1, <2>1, <2>2 DEF RootTypes, RootCalls, Points
<1>7. CASE status' = "running"
  <2>1. /\ brackets_root(fa, fb) /\ fa # 0 /\ fb # 0
        /\ \/ a' = low /\ b' = high
           \/ a' = high /\ b' = low
        /\ c' = a'
    BY <1>4, <1>7 DEF Throw, Return
  <2>2. /\ Opposed(low, high)' /\ Opposed(high, low)'
    BY <1>3, <1>5, <2>1 DEF Opposed, brackets_root
  <2>3. Opposed(a, b)'
    <3>1. a' \in DOMAIN known' /\ b' \in DOMAIN known'
      BY <1>5, <2>1
    <3>. QED  BY <2>1, <2>2, <3>1 DEF Opposed, f
  <2>4. Halvable(Abs(b - a))'
    BY <1>3, <2>1, WidthHalves DEF Halvable
  <2>5. BisectionHolds' /\ BrentHolds'
    BY <2>1, <2>3, <2>4 DEF BisectionHolds, BrentHolds, Opposed
  <2>. QED  BY <1>6, <1>7, <2>5 DEF RootInvariant, BracketHeld, Returned
<1>8. CASE status' = "returned"
  <2>1. root' \in DOMAIN known' /\ f(root)' = 0 /\ root' \in Int
    BY <1>3, <1>4, <1>5, <1>8, <1>6 DEF Throw, Continue, f, RootTypes
  <2>2. RootWithin(IF call.routine = "brent" THEN 2 * estimate ELSE estimate, root)'
    BY <1>1, <2>1, NumbersAreIntegers DEF RootWithin, brackets_root, Abs, NaN, f
  <2>. QED  BY <1>6, <1>8, <2>2 DEF RootInvariant, BracketHeld, Running
<1>9. CASE status' = "thrown"
  BY <1>6, <1>9 DEF RootInvariant, BracketHeld, Returned, Running
<1>10. status' \in {"running", "returned", "thrown"}
  BY <1>4 DEF Throw, Return, Continue
<1>. QED  BY <1>7, <1>8, <1>9, <1>10


\* The middle of an interval of even length is the same way from both ends.
LEMMA MiddleIsHalfway ==
    ASSUME NEW low \in Int, NEW high \in Int, Abs(high - low) % 2 = 0
    PROVE  LET middle == (low + high) \div 2
           IN  /\ middle \in Int
               /\ 2 * Abs(low - middle) = Abs(high - low)
               /\ 2 * Abs(high - middle) = Abs(high - low)
               /\ Abs(middle - low) = Abs(high - low) \div 2
               /\ Abs(high - middle) = Abs(high - low) \div 2
BY DEF Abs

LEMMA BisectKeeps == RootInvariant /\ Bisect => RootInvariant'
<1>. SUFFICES ASSUME RootInvariant, Bisect PROVE RootInvariant'
  OBVIOUS
<1>. DEFINE middle == (a + b) \div 2
<1>1. /\ Running("bisection") /\ call' = call /\ call \in RootCalls
      /\ a \in Int /\ b \in Int /\ c \in Int /\ c' = c
      /\ middle \in Int /\ root' = middle
      /\ status' \in {"running", "returned"}
      /\ RootTypes
  BY DEF Bisect, Turning, Running, Return, Continue, RootInvariant, RootTypes
<1>2. call.tolerance \in Nat \ {0}
  BY <1>1, RootAssumption DEF RootCalls, Running
<1>3. Numbers => BisectionHolds
  BY <1>1 DEF RootInvariant
<1>4. ASSUME Numbers
      PROVE  /\ Opposed(a, b)
             /\ Halvable(Abs(b - a))
             /\ 2 * Abs(a - middle) = Abs(b - a)
             /\ 2 * Abs(b - middle) = Abs(b - a)
             /\ Abs(middle - a) = Abs(b - a) \div 2
             /\ Abs(b - middle) = Abs(b - a) \div 2
             /\ Abs(b - a) > 2 => Halvable(Abs(b - a) \div 2)
  <2>1. Opposed(a, b) /\ Halvable(Abs(b - a))
    BY <1>3, <1>4 DEF BisectionHolds
  <2>2. Abs(b - a) \in Nat
    BY <1>1 DEF Abs
  <2>3. Abs(b - a) % 2 = 0 /\ (Abs(b - a) > 2 => Halvable(Abs(b - a) \div 2))
    BY <2>1, <2>2, HalfHalves
  <2>. QED  BY <1>1, <2>1, <2>3, MiddleIsHalfway
<1>. HIDE DEF middle
<1>5. CASE Abs(b - a) <= 2 * call.tolerance
  <2>1. /\ Return(iteration, "converged") /\ estimate' = Abs(b - a)
        /\ a' = a /\ b' = b /\ known' = known
    BY <1>5 DEF Bisect
  <2>2. RootTypes'
    BY <1>1, <2>1 DEF RootTypes, Return, f, Ordinates, NaN, RootCalls
  <2>3. Numbers' => RootWithin(estimate, root)'
    <3>1. SUFFICES ASSUME Numbers PROVE RootWithin(estimate, root)'
      BY <2>1 DEF Numbers, f, NaN
    <3>2. /\ a' \in DOMAIN known' /\ b' \in DOMAIN known'
          /\ 2 * Abs(a' - root') <= estimate' /\ 2 * Abs(b' - root') <= estimate'
      BY <1>1, <1>4, <2>1, <3>1 DEF Opposed, Abs
    <3>3. brackets_root(f(a), f(b))
      BY <1>4, <3>1 DEF Opposed, brackets_root, Numbers
    <3>4. brackets_root(f(a), f(b))'
      BY <2>1, <3>3 DEF brackets_root, f, NaN
    <3>. QED  BY <3>2, <3>4 DEF RootWithin, f
  <2>4. BracketHeld'
    BY <1>1, <2>3 DEF BracketHeld, Running, Numbers
  <2>. QED  BY <2>1, <2>2, <2>4 DEF RootInvariant, Running, Return
<1>6. CASE Abs(b - a) > 2 * call.tolerance
  <2>1. PICK fm \in At(middle) :
          /\ Learn(middle, fm)
          /\ \/ /\ fm = 0 /\ Return(iteration, "converged") /\ estimate' = 0
                /\ a' = a /\ b' = b
             \/ /\ fm # 0 /\ Continue
                /\ IF KeepsRight(a, fm)
                     THEN a' = middle /\ b' = b
                     ELSE a' = a /\ b' = middle
    BY <1>1, <1>2, <1>6 DEF Bisect, Abs, middle
  <2>2. /\ DOMAIN known' = DOMAIN known \cup {middle}
        /\ known'[middle] = fm
        /\ \A p \in DOMAIN known : f(p)' = f(p)
        /\ \A p \in DOMAIN known' : p \in Int /\ f(p)' \in Ordinates
        /\ Numbers' => Numbers
    BY <1>1, <2>1, LearnKeeps
  <2>3. a' \in Int /\ b' \in Int
    BY <1>1, <2>1
  <2>4. RootTypes'
    BY <1>1, <2>1, <2>2, <2>3 DEF RootTypes, Return, Continue, Ordinates, NaN, RootCalls
  <2>5. CASE status' = "returned"
    <3>1. fm = 0 /\ estimate' = 0
      BY <2>1, <2>5 DEF Continue
    <3>2. root' \in DOMAIN known' /\ f(root)' = 0 /\ root' \in Int
      BY <1>1, <2>2, <3>1 DEF f
    <3>3. RootWithin(estimate, root)'
      BY <3>1, <3>2, NumbersAreIntegers DEF RootWithin, brackets_root, Abs, NaN, f
    <3>4. BracketHeld'
      BY <1>1, <3>3 DEF BracketHeld, Running
    <3>. QED  BY <2>4, <2>5, <3>4 DEF RootInvariant, Running
  <2>6. CASE status' = "running"
    <3>1. ASSUME Numbers' PROVE BisectionHolds'
      <4>1. Numbers
        BY <2>2, <3>1
      <4>2. Opposed(a, b) /\ fm # 0 /\ fm \in Int /\ f(a) \in Int /\ f(b) \in Int
        <5>1. Opposed(a, b) /\ fm \in Ordinates
          BY <1>4, <2>2, <4>1 DEF f
        <5>2. fm # 0
          BY <2>1, <2>6 DEF Return
        <5>. QED  BY <1>1, <5>1, <5>2, NumbersAreIntegers DEF RootTypes, Opposed
      <4>3. IF KeepsRight(a, fm)
              THEN a' = middle /\ b' = b
              ELSE a' = a /\ b' = middle
        BY <2>1, <4>2
      <4>4. Opposed(a, b)'
        <5>1. /\ a \in DOMAIN known /\ b \in DOMAIN known
              /\ f(a) # 0 /\ f(b) # 0 /\ (f(a) < 0) # (f(b) < 0)
          BY <4>2 DEF Opposed
        <5>2. known'[a] = f(a) /\ known'[b] = f(b) /\ known'[middle] = fm
          BY <2>2, <5>1 DEF f
        <5>3. a' \in DOMAIN known' /\ b' \in DOMAIN known'
          BY <2>2, <4>3, <5>1
        <5>4. CASE KeepsRight(a, fm)
          <6>1. (f(a) < 0) = (fm < 0)
            BY <5>4 DEF KeepsRight
          <6>2. known'[a'] = fm /\ known'[b'] = f(b)
            BY <4>3, <5>2, <5>4
          <6>. QED  BY <4>2, <5>1, <5>3, <6>1, <6>2 DEF Opposed, f
        <5>5. CASE ~KeepsRight(a, fm)
          <6>1. (f(a) < 0) # (fm < 0)
            BY <5>5 DEF KeepsRight
          <6>2. known'[a'] = f(a) /\ known'[b'] = fm
            BY <4>3, <5>2, <5>5
          <6>. QED  BY <4>2, <5>1, <5>3, <6>1, <6>2 DEF Opposed, f
        <5>. QED  BY <5>4, <5>5
      <4>5. Abs(b' - a') = Abs(b - a) \div 2
        BY <1>4, <4>1, <4>3
      <4>6. Abs(b - a) > 2
        BY <1>1, <1>2, <1>6 DEF Abs
      <4>7. Halvable(Abs(b - a) \div 2)
        BY <1>4, <4>1, <4>6
      <4>8. Halvable(Abs(b - a))'
        <5>1. Abs(b - a)' = Abs(b - a) \div 2
          BY <4>5 DEF Abs
        <5>. QED  BY <4>7, <5>1 DEF Halvable
      <4>. QED  BY <4>4, <4>8 DEF BisectionHolds
    <3>. QED  BY <1>1, <2>4, <2>6, <3>1 DEF RootInvariant, BracketHeld, Returned, Running
  <2>. QED  BY <1>1, <2>5, <2>6
<1>. QED
  <2>1. Abs(b - a) \in Int /\ 2 * call.tolerance \in Int
    BY <1>1, <1>2 DEF Abs
  <2>. QED  BY <1>5, <1>6, <2>1

Places(x) == [a |-> x.a, b |-> x.b, c |-> x.c, d |-> x.d, e |-> x.e]

\* The ends that Brent works with: b and c enclose a root, and it is not c.
Ordered(x) ==
    /\ x.b \in DOMAIN known /\ x.c \in DOMAIN known
    /\ brackets_root(f(x.b), f(x.c))
    /\ f(x.c) # 0

\* Once it has been looked at which side b is on, b and c enclose the root.
LEMMA SidesEnclose ==
    ASSUME RootTypes, Numbers, BrentHolds
    PROVE  Ordered(Sides([a |-> a, b |-> b, c |-> c, d |-> d, e |-> e]))
<1>. DEFINE x == [a |-> a, b |-> b, c |-> c, d |-> d, e |-> e]
<1>1. x.a = a /\ x.b = b /\ x.c = c
  OBVIOUS
<1>2. /\ b \in DOMAIN known /\ c \in DOMAIN known /\ a \in DOMAIN known
      /\ (c = a /\ Opposed(a, b)) \/ Opposed(a, c)
  BY DEF BrentHolds, Opposed
<1>3. f(a) # NaN /\ f(b) # NaN /\ f(c) # NaN /\ f(a) # 0 /\ f(c) # 0
  BY <1>2 DEF Numbers, Opposed
<1>4. CASE same_side(f(b), f(c))
  <2>1. Sides(x).b = b /\ Sides(x).c = a
    BY <1>1, <1>4 DEF Sides
  <2>2. brackets_root(f(b), f(a))
    BY <1>2, <1>3, <1>4 DEF same_side, Opposed, brackets_root
  <2>. QED  BY <1>2, <1>3, <2>1, <2>2 DEF Ordered
<1>5. CASE ~same_side(f(b), f(c))
  <2>1. Sides(x) = x
    BY <1>1, <1>5 DEF Sides
  <2>2. brackets_root(f(b), f(c))
    BY <1>3, <1>5 DEF same_side, brackets_root
  <2>. QED  BY <1>1, <1>2, <1>3, <2>1, <2>2 DEF Ordered
<1>. QED  BY <1>4, <1>5

\* Calling the better end b keeps them enclosing.
LEMMA BestEncloses ==
    ASSUME RootTypes, Numbers, NEW x, x = Places(x), Ordered(x)
    PROVE  Ordered(Best(x))
<1>1. /\ f(x.b) \in Int /\ f(x.c) \in Int
  BY NumbersAreIntegers DEF RootTypes, Ordered
<1>2. CASE Smaller(f(x.c), f(x.b))
  <2>1. Best(x).b = x.c /\ Best(x).c = x.b
    BY <1>2 DEF Best, Places
  <2>2. brackets_root(f(x.c), f(x.b))
    BY DEF Ordered, brackets_root
  <2>3. f(x.b) # 0
    BY <1>1, <1>2 DEF Smaller, Abs
  <2>. QED  BY <2>1, <2>2, <2>3 DEF Ordered
<1>3. CASE ~Smaller(f(x.c), f(x.b))
  BY <1>3 DEF Best
<1>. QED  BY <1>2, <1>3

\* The abscissae are points whatever the function was.
LEMMA PlacesKept ==
    ASSUME RootTypes,
           NEW x, x = Best(Sides([a |-> a, b |-> b, c |-> c, d |-> d, e |-> e]))
    PROVE  x.a \in Int /\ x.b \in Int /\ x.c \in Int
<1>. DEFINE y == [a |-> a, b |-> b, c |-> c, d |-> d, e |-> e]
            z == Sides(y)
<1>1. z = Places(z) /\ z.a \in Int /\ z.b \in Int /\ z.c \in Int
  BY DEF Sides, RootTypes, Places
<1>. HIDE DEF z
<1>2. Best(z).a \in Int /\ Best(z).b \in Int /\ Best(z).c \in Int
  BY <1>1 DEF Best, Places
<1>. QED  BY <1>2 DEF z

LEMMA BrentKeeps == RootInvariant /\ Brent => RootInvariant'
<1>. SUFFICES ASSUME RootInvariant, Brent PROVE RootInvariant'
  OBVIOUS
<1>. DEFINE start == [a |-> a, b |-> b, c |-> c, d |-> d, e |-> e]
            x == Best(Sides(start))
            width == x.c - x.b
<1>1. /\ Running("brent") /\ call' = call /\ call \in RootCalls /\ RootTypes
      /\ status' \in {"running", "returned"}
  BY DEF Brent, Turning, Running, Return, Continue, RootInvariant, RootTypes
<1>2. call.tolerance \in Nat \ {0}
  BY <1>1, RootAssumption DEF RootCalls, Running
<1>3. x.a \in Int /\ x.b \in Int /\ x.c \in Int
  BY <1>1, PlacesKept
<1>4. ASSUME Numbers PROVE Ordered(x)
  <2>1. Ordered(Sides(start))
    BY <1>1, <1>4, SidesEnclose DEF RootInvariant
  <2>2. Sides(start) = Places(Sides(start))
    BY DEF Sides, Places
  <2>. QED  BY <1>1, <1>4, <2>1, <2>2, BestEncloses
<1>5. \/ /\ Return(iteration, "converged")
         /\ estimate' = IF f(x.b) = 0 THEN 0 ELSE Abs(width)
         /\ root' = x.b /\ a' = x.a /\ b' = x.b /\ c' = x.c
         /\ known' = known
      \/ /\ f(x.b) # 0
         /\ Continue
         /\ (\E s \in Interpolations(x) : d' = s) \/ (\E m \in Midpoints(x) : d' = m)
         /\ a' = x.b /\ c' = x.c
         /\ b' = x.b + (IF Abs(d') > call.tolerance THEN d'
                        ELSE IF width > 0 THEN call.tolerance
                        ELSE -call.tolerance)
         /\ \E y \in At(b') : Learn(b', y)
  BY DEF Brent
<1>. HIDE DEF x
<1>6. CASE status' = "returned"
  <2>1. /\ estimate' = IF f(x.b) = 0 THEN 0 ELSE Abs(width)
        /\ root' = x.b /\ a' = x.a /\ b' = x.b /\ c' = x.c
        /\ known' = known
    BY <1>5, <1>6 DEF Continue
  <2>2. RootTypes'
    BY <1>1, <1>3, <1>6, <2>1 DEF RootTypes, f, Ordinates, NaN, RootCalls
  <2>3. ASSUME Numbers' PROVE RootWithin(2 * estimate, root)'
    <3>1. Numbers
      BY <2>1, <2>3 DEF Numbers, f, NaN
    <3>2. /\ x.b \in DOMAIN known' /\ x.c \in DOMAIN known'
          /\ brackets_root(f(x.b), f(x.c))
      BY <1>4, <2>1, <3>1 DEF Ordered
    <3>3. CASE f(x.b) = 0
      <4>1. 2 * Abs(x.b - root') <= 2 * estimate'
        BY <1>3, <2>1, <3>3 DEF Abs
      <4>2. brackets_root(known'[x.b], known'[x.b])
        BY <2>1, <3>2, <3>3 DEF brackets_root, f
      <4>. QED  BY <3>2, <4>1, <4>2 DEF RootWithin, f, brackets_root, NaN
    <3>4. CASE f(x.b) # 0
      <4>1. 2 * Abs(x.b - root') <= 2 * estimate' /\ 2 * Abs(x.c - root') <= 2 * estimate'
        BY <1>3, <2>1, <3>4 DEF Abs
      <4>2. brackets_root(known'[x.b], known'[x.c])
        BY <2>1, <3>2 DEF f
      <4>. QED  BY <3>2, <4>1, <4>2 DEF RootWithin, f, brackets_root, NaN
    <3>. QED  BY <3>3, <3>4
  <2>4. BracketHeld'
    BY <1>1, <2>3 DEF BracketHeld, Running, Numbers
  <2>. QED  BY <1>6, <2>2, <2>4 DEF RootInvariant, Running
<1>7. CASE status' = "running"
  <2>1. /\ f(x.b) # 0
        /\ (\E s \in Interpolations(x) : d' = s) \/ (\E m \in Midpoints(x) : d' = m)
        /\ a' = x.b /\ c' = x.c
        /\ b' = x.b + (IF Abs(d') > call.tolerance THEN d'
                       ELSE IF width > 0 THEN call.tolerance
                       ELSE -call.tolerance)
        /\ \E y \in At(b') : Learn(b', y)
    BY <1>5, <1>7 DEF Return
  <2>2. d' \in Int
    <3>1. -Width .. Width \subseteq Int
      BY NumbersAreIntegers
    <3>2. Interpolations(x) \subseteq Int
      BY <3>1 DEF Interpolations
    <3>3. Midpoints(x) \subseteq Int
      BY <1>3 DEF Midpoints
    <3>. QED  BY <2>1, <3>2, <3>3
  <2>3. PICK point \in Int : point = b'
    BY <1>2, <1>3, <2>1, <2>2 DEF Abs
  <2>4. PICK y \in At(point) : Learn(point, y)
    BY <2>1, <2>3
  <2>5. /\ DOMAIN known' = DOMAIN known \cup {point}
        /\ \A p \in DOMAIN known : f(p)' = f(p)
        /\ \A p \in DOMAIN known' : p \in Int /\ f(p)' \in Ordinates
        /\ Numbers' => Numbers
    BY <1>1, <2>4, LearnKeeps
  <2>6. RootTypes'
    BY <1>1, <1>3, <1>7, <2>1, <2>3, <2>5 DEF RootTypes, Ordinates, NaN, RootCalls
  <2>7. ASSUME Numbers' PROVE BrentHolds'
    <3>1. Ordered(x)
      BY <1>4, <2>5, <2>7
    <3>2. /\ x.b \in DOMAIN known' /\ x.c \in DOMAIN known' /\ b' \in DOMAIN known'
      BY <2>3, <2>5, <3>1 DEF Ordered
    <3>3. known'[x.b] = f(x.b) /\ known'[x.c] = f(x.c)
      BY <2>5, <3>1 DEF Ordered, f
    <3>4. Opposed(a, c)'
      BY <2>1, <3>1, <3>2, <3>3 DEF Ordered, Opposed, brackets_root, f
    <3>. QED  BY <3>2, <3>4 DEF BrentHolds
  <2>. QED  BY <1>1, <1>7, <2>6, <2>7 DEF RootInvariant, BracketHeld, Returned, Running
<1>. QED  BY <1>1, <1>6, <1>7

\* A step that asks nothing and moves nothing keeps what is enclosed.
LEMMA EnclosureUntouched ==
    ASSUME RootTypes, UNCHANGED <<call, a, b, c, known>>,
           status' = "called" => estimate' = 0
    PROVE  /\ RootTypes'
           /\ Numbers' <=> Numbers
           /\ BisectionHolds' <=> BisectionHolds
           /\ BrentHolds' <=> BrentHolds
<1>1. RootTypes'
  BY DEF RootTypes, f, Ordinates, NaN, RootCalls
<1>2. Numbers' <=> Numbers
  BY DEF Numbers, f, NaN
<1>3. BisectionHolds' <=> BisectionHolds
  BY DEF BisectionHolds, Opposed, Halvable, f, Abs
<1>4. BrentHolds' <=> BrentHolds
  BY DEF BrentHolds, Opposed, f
<1>. QED  BY <1>1, <1>2, <1>3, <1>4

LEMMA RootInvariantHolds == RootSpec => []RootInvariant
<1>1. CallOf(RootCalls) /\ RootRest => RootInvariant
  BY NumbersAreIntegers
     DEF CallOf, RootRest, RootInvariant, RootTypes, BracketHeld, Returned, Running
<1>2. RootInvariant /\ [RootNext]_<<routineVars, rootVars>> => RootInvariant'
  <2>. SUFFICES ASSUME RootInvariant, [RootNext]_<<routineVars, rootVars>>
                PROVE  RootInvariant'
    OBVIOUS
  <2>2. CASE OutOfTurns
    <3>1. /\ status' = "returned" /\ diagnostics'.converged = FALSE
      BY <2>2 DEF OutOfTurns, Return
    <3>2. UNCHANGED <<call, a, b, c, known>>
      BY <2>2 DEF OutOfTurns, Return
    <3>3. RootTypes'
      BY <3>1, <3>2, EnclosureUntouched DEF RootInvariant
    <3>. QED  BY <3>1, <3>3 DEF RootInvariant, BracketHeld, Running
  <2>3. CASE NewtonStarts \/ NewtonTurn
    <3>1. /\ call' = call /\ call.routine = "newton" /\ status' # "called"
          /\ UNCHANGED rootVars
      BY <2>3 DEF NewtonStarts, NewtonTurn, Called, Turning, Running, Continue, Return, Throw
    <3>2. RootTypes'
      BY <3>1, EnclosureUntouched DEF RootInvariant, rootVars
    <3>. QED  BY <3>1, <3>2 DEF RootInvariant, BracketHeld, Returned, Running, Enclosers
  <2>4. CASE UNCHANGED <<routineVars, rootVars>>
    <3>1. /\ call' = call /\ status' = status /\ estimate' = estimate
          /\ diagnostics' = diagnostics /\ root' = root
          /\ a' = a /\ b' = b /\ c' = c /\ known' = known
      BY <2>4 DEF routineVars, rootVars
    <3>2. BracketHeld' <=> BracketHeld
      BY <3>1 DEF BracketHeld, RootWithin, Returned, brackets_root, f, NaN
    <3>3. /\ RootTypes'
          /\ Numbers' <=> Numbers
          /\ BisectionHolds' <=> BisectionHolds
          /\ BrentHolds' <=> BrentHolds
      BY <3>1, EnclosureUntouched DEF RootInvariant, RootTypes
    <3>. QED  BY <3>1, <3>2, <3>3 DEF RootInvariant, Running
  <2>. QED
    BY <2>2, <2>3, <2>4, EncloseKeeps, BisectKeeps, BrentKeeps DEF RootNext
<1>. QED  BY <1>1, <1>2, PTL DEF RootSpec

(***************************************************************************)
(* For every width that can be halved, every tolerance, cap and function,  *)
(* what bisection and Brent report as converged lies by a sign change or a *)
(* zero as closely as they report (roots.hpp bisection, brent).            *)
(***************************************************************************)
THEOREM BracketHeldHolds == RootSpec => []BracketHeld
  BY RootInvariantHolds, PTL DEF RootInvariant

===============================================================================
