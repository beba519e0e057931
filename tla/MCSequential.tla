------------------------------ MODULE MCSequential ------------------------------
(***************************************************************************)
(* The routines that return a Diagnostics, one call of one of them at a    *)
(* time: the iterative solvers, root finding, the integrators, quadrature, *)
(* the direct solvers and the device path of the driver.                   *)
(***************************************************************************)
EXTENDS SolverLoops, RootFinding, InitialValue, Quadrature, DenseLU, DeviceSolve

MCRightSides == {<<1, 2, 4>>}
MCOffDiagonals == {-1, 0, 1}

SequentialInit ==
    /\ \/ SolverInit
       \/ CallOf(RootCalls)
       \/ CallOf(IvpCalls)
       \/ CallOf(QuadratureCalls)
       \/ LuCalled
       \/ CallOf(DeviceCalls)
    /\ RootRest /\ IvpRest /\ QuadratureRest /\ LuRest /\ DeviceRest

SequentialNext ==
    \/ SolverNext     /\ UNCHANGED <<rootVars, ivpVars, quadratureVars, luVars, deviceVars>>
    \/ RootNext       /\ UNCHANGED <<ivpVars, quadratureVars, luVars, deviceVars>>
    \/ IvpNext        /\ UNCHANGED <<rootVars, quadratureVars, luVars, deviceVars>>
    \/ QuadratureNext /\ UNCHANGED <<rootVars, ivpVars, luVars, deviceVars>>
    \/ LuNext         /\ UNCHANGED <<rootVars, ivpVars, quadratureVars, deviceVars>>
    \/ DeviceNext     /\ UNCHANGED <<rootVars, ivpVars, quadratureVars, luVars>>

sequentialVars ==
    <<routineVars, rootVars, ivpVars, quadratureVars, luVars, deviceVars>>

SequentialSpec == SequentialInit /\ [][SequentialNext]_sequentialVars
=============================================================================
