-------------------------- MODULE MCDistributedSweep --------------------------
(* Small instances of DistributedSweep for TLC. *)
EXTENDS DistributedSweep

\* Options, and the iteration after which the residual turns.
RunOf(solvers, modes, iterations, intervals, ats, residuals) ==
  [solver : solvers, mode : modes, max_iterations : iterations,
   check_interval : intervals, at : ats, residual : residuals]

\* One name of each distinct sequence of passes.
Coloured == {"gauss_seidel_rb"}
Uncoloured == {"jacobi", "gauss_seidel_f", "gauss_seidel_b", "gauss_seidel_s",
               "block_jacobi", "block_gauss_seidel"}

\* Two iterations, so that a pass follows one of the same kind.
MCGridRuns ==
  RunOf(Coloured \cup Uncoloured, {"ToTolerance"}, {2}, {1}, {2}, {"small"})

MCFlatRuns == RunOf(Uncoloured, {"ToTolerance"}, {2}, {1}, {1, 2}, {"small"})

\* Every way out of the loop, with and without a check in every iteration.
MCDriverRuns ==
  RunOf({"jacobi", "gauss_seidel_f"}, {"ToTolerance", "FixedIterations"}, {0, 1, 3},
        {1, 2}, {0, 2, 3}, {"small", "not_finite"})
  \cup RunOf({"gauss_seidel_rb"}, {"ToTolerance"}, {1, 3}, {2}, {2, 3}, {"small"})

MCFixedRuns ==
  RunOf({"jacobi"}, {"FixedIterations"}, {3}, {1, 2}, {2}, {"not_finite"})
=============================================================================
