------------------------------- MODULE Wavefront -------------------------------
(***************************************************************************)
(* What a pass of a stationary method promises, however its units are      *)
(* spread over processes (problem.hpp, Backend::run_ordered): a unit takes *)
(* the passes one at a time, and takes a pass only while the units it is   *)
(* coupled to are where that pass requires them.  In an ascending pass the *)
(* units before it have taken the pass and those after it have not; in a   *)
(* descending pass it is the other way round; in a parallel pass no        *)
(* coupled unit is a pass behind or a pass ahead.                          *)
(*                                                                         *)
(* Units far from each other may be in different passes at the same time:  *)
(* that freedom is all a distributed implementation has.                   *)
(***************************************************************************)
EXTENDS Integers, Sequences

CONSTANTS
  Units,      \* rows or unknowns, by integers in their natural order
  Near,       \* Near[u]: the units u is coupled to, which are coupled to u
  Plans       \* the sequences over Directions a solve may consist of

Directions == {"ascending", "descending", "parallel"}

VARIABLES
  plan,    \* the passes of this solve
  done     \* done[u]: how many of them unit u has taken

vars == <<plan, done>>

-----------------------------------------------------------------------------
Init ==
  /\ plan \in Plans
  /\ done = [u \in Units |-> 0]

\* The pass a coupled unit v must have reached for u to take pass k.
Ready(v, u, k) ==
  CASE plan[k] = "ascending"  -> done[v] = IF v < u THEN k ELSE k - 1
    [] plan[k] = "descending" -> done[v] = IF v > u THEN k ELSE k - 1
    [] plan[k] = "parallel"   -> done[v] \in {k - 1, k}

\* Units updated together, a line or a block, take pass k.
Take(S, k) ==
  /\ \A u \in S : done[u] = k - 1
  /\ \A u \in S : \A v \in Near[u] \ S : Ready(v, u, k)
  /\ done' = [u \in Units |-> IF u \in S THEN k ELSE done[u]]
  /\ UNCHANGED plan

Next ==
  \E k \in 1..Len(plan) :
    \E S \in SUBSET {u \in Units : done[u] = k - 1} : S # {} /\ Take(S, k)

Spec == Init /\ [][Next]_vars

=============================================================================
