--------------------------- MODULE MCPinnedTeams ---------------------------
(* Small instances of PinnedTeams for TLC.                                   *)
EXTENDS PinnedTeams

\* Processors two to a physical core, siblings next to each other.
MCSiblingOf == [c \in Cpus |-> c - (c % 2)]

Launch(mask, enforced, threads, workers, requests) ==
    [mask |-> mask, enforced |-> enforced, threads |-> threads,
     workers |-> workers, requests |-> requests]

\* taskset -c 0-3: every team, unpinned or compact, more workers than the mask
\* has processors among them.
Taskset ==
    Launch(0 .. 3, FALSE, 6, 6,
           {"pool", "openmp"} \X {"none", "compact"} \cup {<<"serial", "none">>})

\* A whole machine, one scattered worker for each of its cores at most.
Scattered == Launch(0 .. 5, FALSE, 3, 3, {"pool", "openmp"} \X {"scatter"})

\* A container whose processors are not 0, 1, 2, ..., so that bindings are
\* refused, to some workers or to all, and teams of four come out as three.
Container ==
    Launch({0, 2, 3, 5}, TRUE, 3, 4,
           {"pool"} \X {"none", "compact"} \cup {<<"openmp", "compact">>})

MCLaunches == {Taskset, Scattered, Container}

\* The same container when the backend after a refused one asks for no pinning.
MCRefused == {Launch({0, 2}, TRUE, 3, 3, {"openmp"} \X {"none", "compact"})}

\* The same after a team that came out smaller than asked.
MCShort == {Launch(0 .. 3, FALSE, 2, 3, {"openmp"} \X {"none", "compact"})}

\* A pinned serial backend.
MCSerial == {Launch(0 .. 3, FALSE, 2, 2, {"serial"} \X {"none", "compact"})}

\* One scattered worker more than there are cores.
MCScatter == {Launch(0 .. 3, FALSE, 4, 4, {"pool"} \X {"none", "scatter"})}
=============================================================================
