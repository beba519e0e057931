--------------------------- MODULE PinnedTeamsProofs ---------------------------
(***************************************************************************)
(* Who is bound where, for every machine, every mask a process is started  *)
(* with, and every series of backends made, refused and destroyed in it.   *)
(* The three promises do not hold of everything a client may ask for: each *)
(* theorem names the requests of which it does.                            *)
(***************************************************************************)
EXTENDS PinnedTeams, FiniteSetTheorems, FunctionTheorems, TLAPS

Asks(l, kind, policy) ==
    \E r \in l.requests : r[1] = kind /\ r[2] = policy

\* No serial backend is asked to bind its caller, which it would not undo.
SerialUnpinned ==
    \A l \in Launches : \A r \in l.requests : r[1] = "serial" => r[2] = "none"

\* No OpenMP team is refused a binding, or given fewer threads than it asked
\* for, in a process that goes on to use one unpinned: what it had bound so far
\* would stay bound.
RefusedNotReused ==
    \A l \in Launches :
        l.enforced \/ l.threads < l.workers => ~Asks(l, "openmp", "none")

\* What is scattered has a core for each worker.
ScatterFits ==
    \A l \in Launches : \A r \in l.requests :
        r[2] = "scatter" => l.workers <= Cardinality(core_leaders(Cardinality(l.mask)))

-----------------------------------------------------------------------------
(* The request that is being served. *)

NonEmptyFinite(S) == IsFiniteSet(S) /\ S # {}

LaunchHeld ==
    /\ launch \in Launches
    /\ NonEmptyFinite(caller)
    /\ Live => NonEmptyFinite(backend.saved)
    /\ logical \in {0, Cardinality(launch.mask)}
    /\ logical = 0 => ~Live /\ caller = launch.mask

\* The live backend is one of those the launch asks for, and a pinned team has
\* a thread for each worker.
RequestHeld ==
    Live =>
        /\ backend.kind \in {"serial", "pool", "openmp"}
        /\ Asks(launch, backend.kind, backend.policy)
        /\ backend.workers \in 1 .. launch.workers
        /\ backend.kind = "serial" => backend.workers = 1
        /\ backend.kind = "openmp" /\ backend.policy # "none" =>
             Given(backend.workers) = backend.workers

\* One that reports bound has every worker where its policy puts it.
BoundHeld ==
    Live /\ backend.policy # "none" =>
        \A w \in WorkersOf(backend) :
            WorkerMask(w) = {cpu_for_worker(backend.policy, w, logical)}

Placed == LaunchHeld /\ RequestHeld /\ BoundHeld

\* A finite set that is not empty has a size.
LEMMA SizeOfMask ==
    ASSUME NEW S, NonEmptyFinite(S)
    PROVE  Cardinality(S) \in Nat \ {0}
BY FS_CardinalityType, FS_EmptySet DEF NonEmptyFinite

LEMMA LaunchTypes ==
    ASSUME NEW l \in Launches
    PROVE  /\ NonEmptyFinite(l.mask)
           /\ l.workers \in 1 .. MaxWorkers
           /\ MaxWorkers \in Nat \ {0}
<1>1. l.mask \in (SUBSET Cpus) \ {{}} /\ CpuCount \in Nat
  BY PinningAssumption
<1>2. IsFiniteSet(Cpus)
  <2>1. 0 \in Int /\ CpuCount - 1 \in Int
    BY <1>1
  <2>2. IsFiniteSet(0 .. CpuCount - 1)
    BY <2>1, FS_Interval
  <2>. QED  BY <2>2 DEF Cpus
<1>3. IsFiniteSet(l.mask)
  BY <1>1, <1>2, FS_Subset
<1>. QED  BY <1>1, <1>3, PinningAssumption DEF NonEmptyFinite

\* A worker is bound to one processor, or keeps the mask it had.
LEMMA PinnedMask ==
    ASSUME NEW mask, NEW cpu, NonEmptyFinite(mask)
    PROVE  NonEmptyFinite(Pinned(mask, cpu))
BY FS_Singleton DEF Pinned, NonEmptyFinite

LEMMA LaunchStarts == Init => Placed
<1>. SUFFICES ASSUME Init PROVE Placed
  OBVIOUS
<1>1. NonEmptyFinite(launch.mask)
  BY LaunchTypes DEF Init
<1>. QED
  BY <1>1 DEF Init, Placed, LaunchHeld, RequestHeld, BoundHeld, Live

\* What is common to the three ways of making a backend.
LEMMA MadeWithRequest ==
    ASSUME Placed, Make
    PROVE  \E r \in launch.requests, requested \in 0 .. launch.workers : \E b :
             /\ b = Request(r[1], r[2], requested)
             /\ b.workers \in 1 .. launch.workers
             /\ launch.workers \in 1 .. MaxWorkers
             /\ MakeSerial(b) \/ MakePool(b) \/ MakeOpenMp(b)
             /\ backend = None /\ launch' = launch /\ logical' = Counted
             /\ logical' = Cardinality(launch.mask) /\ logical' # 0
<1>1. PICK r \in launch.requests, requested \in 0 .. launch.workers :
        LET b == Request(r[1], r[2], requested)
        IN /\ b.workers <= launch.workers
           /\ MakeSerial(b) \/ MakePool(b) \/ MakeOpenMp(b)
  BY DEF Make
<1>. DEFINE b == Request(r[1], r[2], requested)
<1>2. /\ NonEmptyFinite(caller) /\ NonEmptyFinite(launch.mask)
      /\ launch \in Launches /\ launch.workers \in 1 .. MaxWorkers /\ MaxWorkers \in Nat
  BY LaunchTypes DEF Placed, LaunchHeld
<1>3. /\ Cardinality(caller) \in Nat \ {0}
      /\ Cardinality(launch.mask) \in Nat \ {0}
  BY <1>2, SizeOfMask
<1>4. b.workers = IF r[1] = "serial" THEN 1
                  ELSE IF requested > 0 THEN requested ELSE Cardinality(caller)
  BY DEF Request, available_logical_cpus
<1>5. b.workers \in 1 .. launch.workers
  BY <1>1, <1>2, <1>3, <1>4
<1>6. /\ backend = None /\ launch' = launch /\ logical' = Counted
  BY DEF Make
<1>7. Counted = Cardinality(launch.mask)
  BY <1>3 DEF Counted, available_logical_cpus, Placed, LaunchHeld
<1>. QED  BY <1>1, <1>2, <1>3, <1>5, <1>6, <1>7

\* Bound, a worker that is one of them is where its policy puts it.
LEMMA BoundThere ==
    ASSUME NEW b, b.workers \in Nat, NEW before, b.policy # "none", AllGranted(b),
           NEW w \in Others, w \in WorkersOf(b)
    PROVE  Bound(b, b.workers, before)[w] = {Target(b, w)}
<1>1. Granted(Target(b, w))
  BY DEF AllGranted
<1>2. w < b.workers
  BY PinningAssumption DEF WorkersOf, Others
<1>. QED  BY <1>1, <1>2 DEF Bound, Pinned


\* The live backend after a construction, and what it knows of its caller.
LEMMA MakeKeepsLaunch ==
    ASSUME Placed, Make
    PROVE  LaunchHeld' /\ RequestHeld'
<1>1. PICK r \in launch.requests, requested \in 0 .. launch.workers : \E b :
        /\ b = Request(r[1], r[2], requested)
        /\ b.workers \in 1 .. launch.workers
        /\ launch.workers \in 1 .. MaxWorkers
        /\ MakeSerial(b) \/ MakePool(b) \/ MakeOpenMp(b)
        /\ backend = None /\ launch' = launch /\ logical' = Counted
        /\ logical' = Cardinality(launch.mask) /\ logical' # 0
  BY MadeWithRequest
<1>2. PICK b :
        /\ b = Request(r[1], r[2], requested)
        /\ b.workers \in 1 .. launch.workers
        /\ MakeSerial(b) \/ MakePool(b) \/ MakeOpenMp(b)
        /\ backend = None /\ launch' = launch
        /\ logical' = Cardinality(launch.mask) /\ logical' # 0
  BY <1>1
<1>3. /\ b.kind = r[1] /\ b.policy = r[2] /\ b.saved = caller
      /\ b.kind = "serial" => b.workers = 1
  BY <1>2 DEF Request
<1>4. NonEmptyFinite(caller)
  BY DEF Placed, LaunchHeld
<1>5. NonEmptyFinite(CallerBound(b))
  BY <1>4, PinnedMask DEF CallerBound
<1>6. /\ caller' \in {CallerBound(b), b.saved}
      /\ backend' \in {b, None}
      /\ b.kind \in {"serial", "pool", "openmp"}
  BY <1>2 DEF MakeSerial, MakePool, MakeOpenMp
<1>7. LaunchHeld'
  BY <1>2, <1>3, <1>4, <1>5, <1>6 DEF LaunchHeld, Placed, Live
<1>8. RequestHeld'
  <2>1. ASSUME MakeOpenMp(b), backend' = b, b.policy # "none"
        PROVE  Given(b.workers) = b.workers
    <3>1. b # None
      BY <2>1 DEF MakeOpenMp, None
    <3>. QED  BY <2>1, <3>1 DEF MakeOpenMp, AllBound
  <2>2. backend' = b /\ b.kind = "openmp" /\ b.policy # "none" =>
          Given(b.workers)' = b.workers
    BY <1>2, <2>1 DEF MakeSerial, MakePool, Given
  <2>. QED  BY <1>2, <1>3, <1>6, <2>2 DEF RequestHeld, Asks, Live, Given
<1>. QED  BY <1>7, <1>8

LEMMA MakeBinds ==
    ASSUME Placed, Make
    PROVE  BoundHeld'
<1>. SUFFICES ASSUME Live', backend'.policy # "none", NEW w \in WorkersOf(backend)'
              PROVE  WorkerMask(w)' = {cpu_for_worker(backend.policy, w, logical)}'
  BY DEF BoundHeld
<1>1. PICK r \in launch.requests, requested \in 0 .. launch.workers : \E b :
        /\ b = Request(r[1], r[2], requested)
        /\ b.workers \in 1 .. launch.workers
        /\ launch.workers \in 1 .. MaxWorkers
        /\ MakeSerial(b) \/ MakePool(b) \/ MakeOpenMp(b)
        /\ backend = None /\ launch' = launch /\ logical' = Counted
        /\ logical' = Cardinality(launch.mask) /\ logical' # 0
  BY MadeWithRequest
<1>2. PICK b :
        /\ b = Request(r[1], r[2], requested)
        /\ b.workers \in 1 .. launch.workers /\ launch.workers \in 1 .. MaxWorkers
        /\ MakeSerial(b) \/ MakePool(b) \/ MakeOpenMp(b)
        /\ logical' = Counted
  BY <1>1
<1>3. /\ b.kind = "serial" => b.workers = 1
      /\ b.workers \in Nat /\ b.workers <= MaxWorkers
  BY <1>2, PinningAssumption DEF Request
<1>4. backend' = b /\ AllGranted(b) /\ caller' = CallerBound(b)
  BY <1>2 DEF MakeSerial, MakePool, MakeOpenMp, AllBound, Live
<1>5. /\ b.policy # "none" /\ w \in WorkersOf(b)
      /\ cpu_for_worker(backend.policy, w, logical)' = Target(b, w)
  BY <1>2, <1>4 DEF WorkersOf, Target, cpu_for_worker, nth_leader, core_leaders
<1>6. CASE w = 0
  <2>1. Granted(Target(b, 0))
    BY <1>4, <1>5, <1>6 DEF AllGranted
  <2>2. caller' = {Target(b, w)}
    BY <1>4, <1>5, <1>6, <2>1 DEF CallerBound, Pinned
  <2>. QED  BY <1>5, <1>6, <2>2 DEF WorkerMask
<1>7. CASE w # 0
  <2>1. w \in Others /\ w < b.workers /\ b.kind # "serial"
    BY <1>3, <1>5, <1>7, PinningAssumption DEF WorkersOf, Others
  <2>2. CASE MakePool(b)
    <3>1. /\ backend'.kind = "pool"
          /\ own'[w] = Bound(b, b.workers, [v \in Others |-> caller])[w]
      BY <1>4, <2>1, <2>2 DEF MakePool
    <3>2. own'[w] = {Target(b, w)}
      BY <1>3, <1>4, <1>5, <2>1, <3>1, BoundThere
    <3>. QED  BY <1>5, <1>7, <3>1, <3>2 DEF WorkerMask
  <2>3. CASE MakeOpenMp(b)
    <3>1. backend'.kind = "openmp" /\ \E threads : team' = Bound(b, b.workers, threads)
      BY <1>4, <1>5, <2>3 DEF MakeOpenMp, AllBound, Live
    <3>2. team'[w] = {Target(b, w)}
      BY <1>3, <1>4, <1>5, <2>1, <3>1, BoundThere
    <3>. QED  BY <1>5, <1>7, <3>1, <3>2 DEF WorkerMask
  <2>4. ~MakeSerial(b)
    BY <2>1 DEF MakeSerial
  <2>. QED  BY <1>2, <2>2, <2>3, <2>4
<1>. QED  BY <1>6, <1>7

LEMMA PlacedHolds == Spec => []Placed
<1>1. Placed /\ [Next]_vars => Placed'
  <2>. SUFFICES ASSUME Placed, [Next]_vars PROVE Placed'
    OBVIOUS
  <2>1. CASE Make
    BY <2>1, MakeKeepsLaunch, MakeBinds DEF Placed
  <2>2. CASE Run
    <3>1. /\ UNCHANGED <<launch, caller, own, logical, backend>>
          /\ backend.kind = "openmp" /\ team' \in Region(backend.workers)
      BY <2>2 DEF Run
    <3>2. LaunchHeld' /\ RequestHeld'
      BY <3>1 DEF Placed, LaunchHeld, RequestHeld, Live, Given
    <3>3. ASSUME Live, backend.policy # "none", NEW w \in WorkersOf(backend)
          PROVE  WorkerMask(w)' = WorkerMask(w)
      <4>1. launch.workers \in 1 .. MaxWorkers /\ backend.workers \in 1 .. launch.workers
        BY <3>3, LaunchTypes DEF Placed, LaunchHeld, RequestHeld
      <4>2. CASE w # 0
        <5>1. w \in Others /\ w < backend.workers
          BY <4>1, <4>2, PinningAssumption DEF Others, WorkersOf
        <5>2. team'[w] = IF team[w] = {} THEN caller ELSE team[w]
          BY <3>1, <3>3, <5>1 DEF Region, Placed, RequestHeld
        <5>3. caller # {}
          BY DEF Placed, LaunchHeld, NonEmptyFinite
        <5>. QED  BY <3>1, <5>2, <5>3 DEF WorkerMask
      <4>. QED  BY <3>1, <4>2 DEF WorkerMask
    <3>4. BoundHeld'
      BY <3>1, <3>3 DEF Placed, BoundHeld, Live, WorkersOf, cpu_for_worker, nth_leader,
                        core_leaders
    <3>. QED  BY <3>2, <3>4 DEF Placed
  <2>3. CASE Destroy
    BY <2>3 DEF Destroy, Placed, LaunchHeld, RequestHeld, BoundHeld, Live
  <2>4. CASE UNCHANGED vars
    BY <2>4 DEF vars, Placed, LaunchHeld, RequestHeld, BoundHeld, Live, Given, WorkersOf,
                WorkerMask, cpu_for_worker, nth_leader, core_leaders
  <2>. QED  BY <2>1, <2>2, <2>3, <2>4 DEF Next
<1>. QED  BY <1>1, LaunchStarts, PTL DEF Spec

-----------------------------------------------------------------------------
(* The caller's mask. *)

CallerHeld ==
    /\ ~Live => caller = launch.mask
    /\ Live => /\ backend.saved = launch.mask
               /\ backend.policy = "none" => caller = launch.mask

LEMMA CallerHeldHolds ==
    ASSUME SerialUnpinned
    PROVE  Spec => []CallerHeld
<1>1. Init => CallerHeld
  BY DEF Init, CallerHeld, Live
<1>2. Placed /\ CallerHeld /\ [Next]_vars => CallerHeld'
  <2>. SUFFICES ASSUME Placed, CallerHeld, [Next]_vars PROVE CallerHeld'
    OBVIOUS
  <2>1. CASE Make
    <3>1. PICK r \in launch.requests, requested \in 0 .. launch.workers : \E b :
            /\ b = Request(r[1], r[2], requested)
            /\ b.workers \in 1 .. launch.workers
            /\ launch.workers \in 1 .. MaxWorkers
            /\ MakeSerial(b) \/ MakePool(b) \/ MakeOpenMp(b)
            /\ backend = None /\ launch' = launch /\ logical' = Counted
            /\ logical' = Cardinality(launch.mask) /\ logical' # 0
      BY <2>1, MadeWithRequest
    <3>2. PICK b :
            /\ b = Request(r[1], r[2], requested)
            /\ MakeSerial(b) \/ MakePool(b) \/ MakeOpenMp(b)
            /\ backend = None /\ launch' = launch
      BY <3>1
    <3>3. caller = launch.mask
      BY <3>2 DEF CallerHeld, Live
    <3>4. b.saved = launch.mask /\ (b.kind = "serial" => b.policy = "none")
      BY <3>2, <3>3 DEF Request, SerialUnpinned, Placed, LaunchHeld
    <3>5. \/ backend' = b /\ caller' = CallerBound(b)
          \/ backend' = None /\ caller' = b.saved
          \/ backend' = None /\ caller' = CallerBound(b) /\ b.kind = "serial"
      BY <3>2 DEF MakeSerial, MakePool, MakeOpenMp
    <3>6. b.policy = "none" => CallerBound(b) = launch.mask
      BY <3>3 DEF CallerBound
    <3>7. b # None
      BY <3>2 DEF MakeSerial, MakePool, MakeOpenMp, None
    <3>. QED  BY <3>2, <3>4, <3>5, <3>6, <3>7 DEF CallerHeld, Live
  <2>2. CASE Run
    BY <2>2 DEF Run, CallerHeld, Live
  <2>3. CASE Destroy
    <3>1. /\ Live /\ backend' = None /\ launch' = launch
          /\ caller' = IF backend.kind = "serial" THEN caller ELSE backend.saved
      BY <2>3 DEF Destroy, Live
    <3>2. backend.kind = "serial" => backend.policy = "none"
      BY <3>1 DEF Placed, LaunchHeld, RequestHeld, Asks, SerialUnpinned
    <3>. QED  BY <3>1, <3>2 DEF CallerHeld, Live
  <2>4. CASE UNCHANGED vars
    BY <2>4 DEF vars, CallerHeld, Live
  <2>. QED  BY <2>1, <2>2, <2>3, <2>4 DEF Next
<1>. QED  BY <1>1, <1>2, PlacedHolds, PTL DEF Spec

(***************************************************************************)
(* In every process that pins no serial backend, whatever else it makes,   *)
(* is refused and destroys, the calling thread has the mask the process    *)
(* started with whenever no backend is alive (topology.hpp ThreadAffinity).*)
(***************************************************************************)
THEOREM CallerGetsItsMaskBackHolds ==
    ASSUME SerialUnpinned
    PROVE  Spec => []CallerGetsItsMaskBack
<1>1. CallerHeld => CallerGetsItsMaskBack
  BY DEF CallerHeld, CallerGetsItsMaskBack
<1>. QED  BY <1>1, CallerHeldHolds, PTL

-----------------------------------------------------------------------------
(* Threads that run free. *)

Free(mask) == mask \in {{}, launch.mask}

\* A pool that asked for nothing has threads with the caller's mask; and where
\* an OpenMP backend may be made unpinned, every thread of the team is free but
\* those the live one has bound.
FreeHeld ==
    /\ Live /\ backend.kind = "pool" /\ backend.policy = "none" =>
         \A w \in Others : w < backend.workers => own[w] = launch.mask
    /\ Asks(launch, "openmp", "none") =>
         \A w \in Others :
            \/ Free(team[w])
            \/ /\ Live /\ backend.kind = "openmp" /\ backend.policy # "none"
               /\ w < backend.workers /\ team[w] # {}

\* A region leaves a thread as it was, lets it go, or starts it as the caller.
LEMMA RegionThread ==
    ASSUME NEW workers, NEW threads \in Region(workers), NEW w \in Others
    PROVE  /\ threads[w] \in {team[w], {}, caller}
           /\ w < Given(workers) /\ team[w] # {} => threads[w] = team[w]
           /\ ~(w < Given(workers)) => threads[w] \in {team[w], {}}
BY DEF Region

\* Where a team may be used unpinned, every region has the threads it asks for.
LEMMA WholeTeam ==
    ASSUME RefusedNotReused, launch \in Launches, Asks(launch, "openmp", "none"),
           NEW workers \in 1 .. launch.workers
    PROVE  Given(workers) = workers
<1>1. /\ launch.workers \in Nat
      /\ launch.threads \in Nat /\ ~(launch.threads < launch.workers)
  BY PinningAssumption DEF RefusedNotReused
<1>. QED  BY <1>1 DEF Given

LEMMA FreeHeldHolds ==
    ASSUME SerialUnpinned, RefusedNotReused
    PROVE  Spec => []FreeHeld
<1>1. Init => FreeHeld
  BY DEF Init, FreeHeld, Free, NoThreads, Live
<1>2. Placed /\ CallerHeld /\ FreeHeld /\ [Next]_vars => FreeHeld'
  <2>. SUFFICES ASSUME Placed, CallerHeld, FreeHeld, [Next]_vars PROVE FreeHeld'
    OBVIOUS
  <2>1. CASE Make
    <3>1. PICK r \in launch.requests, requested \in 0 .. launch.workers : \E b :
            /\ b = Request(r[1], r[2], requested)
            /\ b.workers \in 1 .. launch.workers
            /\ launch.workers \in 1 .. MaxWorkers
            /\ MakeSerial(b) \/ MakePool(b) \/ MakeOpenMp(b)
            /\ backend = None /\ launch' = launch /\ logical' = Counted
            /\ logical' = Cardinality(launch.mask) /\ logical' # 0
      BY <2>1, MadeWithRequest
    <3>2. PICK b :
            /\ b = Request(r[1], r[2], requested)
            /\ b.workers \in 1 .. launch.workers
            /\ MakeSerial(b) \/ MakePool(b) \/ MakeOpenMp(b)
            /\ backend = None /\ launch' = launch
      BY <3>1
    <3>3. ~Live /\ caller = launch.mask
      BY <3>2 DEF CallerHeld, Live
    <3>4. Asks(launch, "openmp", "none") => \A w \in Others : Free(team[w])
      BY <3>3 DEF FreeHeld
    <3>5. backend' \in {b, None} /\ None.kind = "none"
      BY <3>2 DEF MakeSerial, MakePool, MakeOpenMp, None
    <3>6. CASE MakeSerial(b) \/ MakePool(b)
      <4>1. team' = team /\ b.kind # "openmp"
        BY <3>6 DEF MakeSerial, MakePool
      <4>2. ASSUME Live', backend'.kind = "pool", backend'.policy = "none", NEW w \in Others,
                   w < backend'.workers
            PROVE  own'[w] = launch.mask
        <5>1. backend' = b /\ MakePool(b) /\ AllGranted(b)
          BY <3>5, <3>6, <4>2 DEF Live, MakeSerial, MakePool
        <5>2. own'[w] = Bound(b, b.workers, [v \in Others |-> caller])[w]
          BY <4>2, <5>1 DEF MakePool
        <5>. QED  BY <3>3, <4>2, <5>1, <5>2 DEF Bound
      <4>. QED  BY <3>2, <3>4, <4>1, <4>2 DEF FreeHeld, Free
    <3>7. CASE MakeOpenMp(b)
      <4>1. b.kind = "openmp"
        BY <3>7 DEF MakeOpenMp
      <4>2. ASSUME Asks(launch, "openmp", "none"), NEW w \in Others
            PROVE  \/ Free(team'[w])
                   \/ /\ backend' = b /\ b.policy # "none"
                      /\ w < b.workers /\ team'[w] # {}
        <5>1. /\ \A cpu : Granted(cpu)
              /\ Given(b.workers) = b.workers
          BY <3>2, <4>2, WholeTeam DEF Granted, Placed, LaunchHeld, RefusedNotReused
        <5>2. backend' = b
          BY <3>7, <5>1 DEF MakeOpenMp, AllBound, AllGranted
        <5>3. CASE b.policy = "none"
          BY <3>4, <3>7, <4>2, <5>3 DEF MakeOpenMp
        <5>4. CASE b.policy # "none"
          <6>1. PICK threads \in Region(b.workers) : team' = Bound(b, b.workers, threads)
            BY <3>7, <5>1, <5>4 DEF MakeOpenMp
          <6>2. CASE w < b.workers
            <7>1. team'[w] = {Target(b, w)}
              BY <5>1, <5>4, <6>1, <6>2 DEF Bound, Pinned
            <7>. QED  BY <5>2, <5>4, <6>2, <7>1
          <6>3. CASE ~(w < b.workers)
            <7>1. team'[w] = threads[w] /\ threads[w] \in {team[w], {}}
              BY <5>1, <6>1, <6>3, RegionThread DEF Bound
            <7>. QED  BY <3>4, <4>2, <7>1 DEF Free
          <6>. QED  BY <6>2, <6>3
        <5>. QED  BY <5>3, <5>4
      <4>. QED  BY <3>2, <3>5, <4>1, <4>2 DEF FreeHeld, Free, Live
    <3>. QED  BY <3>2, <3>6, <3>7
  <2>2. CASE Run
    <3>1. /\ UNCHANGED <<launch, caller, own, backend>>
          /\ backend.kind = "openmp" /\ team' \in Region(backend.workers)
          /\ Live
      BY <2>2 DEF Run, Live, None
    <3>2. ASSUME Asks(launch, "openmp", "none"), NEW w \in Others
          PROVE  \/ Free(team'[w])
                 \/ backend.policy # "none" /\ w < backend.workers /\ team'[w] # {}
      <4>1. /\ \/ Free(team[w])
               \/ backend.policy # "none" /\ w < backend.workers /\ team[w] # {}
            /\ caller # {}
            /\ backend.policy = "none" => caller = launch.mask
        BY <3>1, <3>2 DEF FreeHeld, CallerHeld, Placed, LaunchHeld, NonEmptyFinite
      <4>2. /\ team'[w] \in {team[w], {}, caller}
            /\ w < backend.workers /\ team[w] # {} => team'[w] = team[w]
            /\ ~(w < backend.workers) => team'[w] \in {team[w], {}}
        <5>1. Given(backend.workers) = backend.workers
          BY <3>1, <3>2, WholeTeam DEF Placed, LaunchHeld, RequestHeld
        <5>. QED  BY <3>1, <5>1, RegionThread
      <4>. QED  BY <4>1, <4>2 DEF Free
    <3>. QED  BY <3>1, <3>2 DEF FreeHeld, Free, Asks, Live
  <2>3. CASE Destroy
    <3>1. Live /\ backend' = None /\ launch' = launch /\ backend.saved = launch.mask
      BY <2>3 DEF Destroy, Live, CallerHeld
    <3>2. ASSUME Asks(launch, "openmp", "none"), NEW w \in Others
          PROVE  Free(team'[w])
      <4>1. CASE backend.kind = "openmp" /\ backend.policy # "none"
        <5>1. PICK threads \in Region(backend.workers) :
                team' = [v \in Others |-> IF v < backend.workers
                                            THEN backend.saved ELSE threads[v]]
          <6>1. Given(backend.workers) = backend.workers
            BY <3>1, <3>2, WholeTeam DEF Placed, LaunchHeld, RequestHeld
          <6>. QED  BY <2>3, <4>1, <6>1 DEF Destroy
        <5>2. CASE w < backend.workers
          BY <3>1, <5>1, <5>2 DEF Free
        <5>3. CASE ~(w < backend.workers)
          <6>1. Given(backend.workers) = backend.workers
            BY <3>1, <3>2, WholeTeam DEF Placed, LaunchHeld, RequestHeld
          <6>2. team'[w] \in {team[w], {}} /\ Free(team[w])
            BY <3>2, <5>1, <5>3, <6>1, RegionThread DEF FreeHeld
          <6>. QED  BY <6>2 DEF Free
        <5>. QED  BY <5>2, <5>3
      <4>2. CASE ~(backend.kind = "openmp" /\ backend.policy # "none")
        BY <2>3, <3>2, <4>2 DEF Destroy, FreeHeld
      <4>. QED  BY <4>1, <4>2
    <3>. QED  BY <3>1, <3>2 DEF FreeHeld, Free, Asks, Live
  <2>4. CASE UNCHANGED vars
    BY <2>4 DEF vars, FreeHeld, Free, Asks, Live
  <2>. QED  BY <2>1, <2>2, <2>3, <2>4 DEF Next
<1>. QED  BY <1>1, <1>2, PlacedHolds, CallerHeldHolds, PTL DEF Spec

(***************************************************************************)
(* In every process that pins no serial backend, and that is granted every *)
(* processor and every thread if it uses an OpenMP team unpinned, a        *)
(* backend that asked for no pinning runs under the mask the process       *)
(* started with, after any others (openmp.hpp ~OpenMpBackend).             *)
(***************************************************************************)
THEOREM UnpinnedRunsFreeHolds ==
    ASSUME SerialUnpinned, RefusedNotReused
    PROVE  Spec => []UnpinnedRunsFree
<1>1. Placed /\ CallerHeld /\ FreeHeld => UnpinnedRunsFree
  <2>. SUFFICES ASSUME Placed, CallerHeld, FreeHeld, Live, backend.policy = "none",
                       NEW w \in WorkersOf(backend)
                PROVE  WorkerMask(w) = launch.mask
    BY DEF UnpinnedRunsFree
  <2>1. caller = launch.mask
    BY DEF CallerHeld
  <2>2. CASE w = 0
    BY <2>1, <2>2 DEF WorkerMask
  <2>3. CASE w # 0
    <3>1. /\ launch.workers \in 1 .. MaxWorkers /\ backend.workers \in 1 .. launch.workers
          /\ backend.kind \in {"serial", "pool", "openmp"}
          /\ backend.kind = "serial" => backend.workers = 1
          /\ Asks(launch, backend.kind, "none")
      BY LaunchTypes DEF Placed, LaunchHeld, RequestHeld
    <3>2. w \in Others /\ w < backend.workers /\ backend.kind # "serial"
      BY <2>3, <3>1, PinningAssumption DEF Others, WorkersOf
    <3>3. CASE backend.kind = "pool"
      BY <2>3, <3>2, <3>3 DEF FreeHeld, WorkerMask
    <3>4. CASE backend.kind = "openmp"
      <4>1. Free(team[w])
        BY <3>1, <3>2, <3>4 DEF FreeHeld
      <4>. QED  BY <2>1, <2>3, <3>4, <4>1 DEF Free, WorkerMask
    <3>. QED  BY <3>1, <3>2, <3>3, <3>4
  <2>. QED  BY <2>2, <2>3
<1>. QED  BY <1>1, PlacedHolds, CallerHeldHolds, FreeHeldHolds, PTL

-----------------------------------------------------------------------------
(* One processor each. *)

Before(c, count) == {l \in core_leaders(count) : l < c}

LEMMA LeadersCounted ==
    ASSUME NEW count \in Nat
    PROVE  /\ core_leaders(count) \subseteq 0 .. count - 1
           /\ IsFiniteSet(core_leaders(count))
           /\ Cardinality(core_leaders(count)) \in Nat
<1>1. core_leaders(count) \in SUBSET (0 .. count - 1)
  BY DEF core_leaders
<1>2. 0 \in Int /\ count - 1 \in Int
  OBVIOUS
<1>3. IsFiniteSet(0 .. count - 1)
  BY <1>2, FS_Interval
<1>. QED  BY <1>1, <1>3, FS_Subset, FS_CardinalityType

\* Every place below the number of leaders has its leader: the numbers of
\* those before them differ from leader to leader and are all below it.
LEMMA LeadersNumbered ==
    ASSUME NEW count \in Nat, NEW n \in Nat, n < Cardinality(core_leaders(count))
    PROVE  /\ nth_leader(n, count) \in core_leaders(count)
           /\ Cardinality(Before(nth_leader(n, count), count)) = n
<1>. DEFINE leaders == core_leaders(count)
            size == Cardinality(leaders)
            Size(c) == Cardinality(Before(c, count))
            places == [c \in leaders |-> Size(c)]
<1>1. leaders \subseteq 0 .. count - 1
  BY LeadersCounted
<1>2. IsFiniteSet(leaders) /\ size \in Nat
  BY LeadersCounted
<1>3. ASSUME NEW c \in leaders
      PROVE  IsFiniteSet(Before(c, count)) /\ Size(c) \in 0 .. size - 1
  <2>1. Before(c, count) \in SUBSET leaders /\ c \notin Before(c, count)
    BY <1>1 DEF Before
  <2>2. /\ IsFiniteSet(Before(c, count)) /\ Size(c) <= size
        /\ size = Size(c) => leaders = Before(c, count)
    BY <1>2, <2>1, FS_Subset
  <2>3. Size(c) \in Nat /\ Size(c) # size
    BY <2>1, <2>2, FS_CardinalityType
  <2>. QED  BY <1>2, <2>2, <2>3
<1>4. ASSUME NEW c \in leaders, NEW d \in leaders, c < d
      PROVE  Size(c) < Size(d)
  <2>1. /\ Before(c, count) \in SUBSET Before(d, count)
        /\ c \in Before(d, count) /\ c \notin Before(c, count)
    BY <1>1, <1>4 DEF Before
  <2>2. /\ Size(c) <= Size(d)
        /\ Size(d) = Size(c) => Before(d, count) = Before(c, count)
    BY <1>3, <2>1, FS_Subset
  <2>. QED  BY <1>3, <2>1, <2>2
<1>5. places \in Injection(leaders, 0 .. size - 1)
  <2>1. places \in [leaders -> 0 .. size - 1]
    BY <1>3
  <2>2. \A c, d \in leaders : places[c] = places[d] => c = d
    BY <1>1, <1>3, <1>4
  <2>. QED  BY <2>1, <2>2 DEF Injection, IsInjective
<1>6. IsFiniteSet(0 .. size - 1) /\ Cardinality(0 .. size - 1) = size
  <2>1. 0 \in Int /\ size - 1 \in Int
    BY <1>2
  <2>. HIDE DEF size
  <2>2. Cardinality(0 .. size - 1) = IF 0 > size - 1 THEN 0 ELSE (size - 1) - 0 + 1
    BY <2>1, FS_Interval
  <2>. QED  BY <1>2, <2>1, <2>2, FS_Interval
<1>7. places \in Surjection(leaders, 0 .. size - 1)
  BY <1>2, <1>5, <1>6, FS_Injection
<1>8. \E c \in leaders : Size(c) = n
  <2>1. n \in 0 .. size - 1
    BY <1>2
  <2>2. \E c \in leaders : places[c] = n
    BY <1>7, <2>1 DEF Surjection
  <2>. QED  BY <2>2
<1>. QED  BY <1>8 DEF nth_leader, Before

\* A policy gives no processor to two workers while there are processors, and
\* cores if it scatters, for all of them.
LEMMA TargetsApart ==
    ASSUME NEW policy, NEW count \in Nat \ {0}, NEW workers \in Nat, workers <= count,
           policy = "scatter" => workers <= Cardinality(core_leaders(count)),
           NEW v \in 0 .. workers - 1, NEW w \in 0 .. workers - 1,
           cpu_for_worker(policy, v, count) = cpu_for_worker(policy, w, count)
    PROVE  v = w
<1>1. CASE policy = "scatter"
  <2>1. Cardinality(core_leaders(count)) \in Nat
    BY LeadersCounted
  <2>2. v < Cardinality(core_leaders(count)) /\ w < Cardinality(core_leaders(count))
    BY <1>1, <2>1
  <2>3. nth_leader(v, count) = nth_leader(w, count)
    BY <1>1, <2>2 DEF cpu_for_worker
  <2>. QED  BY <2>2, <2>3, LeadersNumbered
<1>2. CASE policy # "scatter"
  <2>1. (v % count) = (w % count)
    BY <1>2 DEF cpu_for_worker
  <2>2. (v % count) = v /\ (w % count) = w
    OBVIOUS
  <2>. QED  BY <2>1, <2>2
<1>. QED  BY <1>1, <1>2

(***************************************************************************)
(* In every process that scatters no more workers than it has cores, a     *)
(* backend that reports bound has each worker on one processor, and no two *)
(* on the same one while there are processors for all of them              *)
(* (topology.hpp cpu_for_worker, pin_worker).                              *)
(***************************************************************************)
THEOREM BoundApartHolds ==
    ASSUME ScatterFits
    PROVE  Spec => []BoundApart
<1>1. Placed => BoundApart
  <2>. SUFFICES ASSUME Placed, Live, backend.policy # "none"
                PROVE  /\ \A w \in WorkersOf(backend) : Cardinality(WorkerMask(w)) = 1
                       /\ backend.workers <= logical =>
                            \A v, w \in WorkersOf(backend) :
                               WorkerMask(v) = WorkerMask(w) => v = w
    BY DEF BoundApart
  <2>1. \A w \in WorkersOf(backend) :
          WorkerMask(w) = {cpu_for_worker(backend.policy, w, logical)}
    BY DEF Placed, BoundHeld
  <2>2. /\ backend.workers \in 1 .. launch.workers /\ launch.workers \in 1 .. MaxWorkers
        /\ logical = Cardinality(launch.mask) /\ logical \in Nat \ {0}
        /\ Asks(launch, backend.kind, backend.policy) /\ launch \in Launches
    BY LaunchTypes, SizeOfMask DEF Placed, LaunchHeld, RequestHeld
  <2>3. backend.policy = "scatter" => backend.workers <= Cardinality(core_leaders(logical))
    <3>1. SUFFICES ASSUME backend.policy = "scatter"
                   PROVE  backend.workers <= Cardinality(core_leaders(logical))
      OBVIOUS
    <3>2. launch.workers <= Cardinality(core_leaders(logical))
      BY <2>2, <3>1 DEF Asks, ScatterFits
    <3>3. Cardinality(core_leaders(logical)) \in Nat
      BY <2>2, LeadersCounted
    <3>. QED  BY <2>2, <3>2, <3>3, PinningAssumption
  <2>4. ASSUME backend.workers <= logical, NEW v \in WorkersOf(backend),
               NEW w \in WorkersOf(backend), WorkerMask(v) = WorkerMask(w)
        PROVE  v = w
    <3>1. cpu_for_worker(backend.policy, v, logical) = cpu_for_worker(backend.policy, w, logical)
      BY <2>1, <2>4
    <3>2. backend.workers \in Nat /\ v \in 0 .. backend.workers - 1
          /\ w \in 0 .. backend.workers - 1
      BY <2>2, <2>4, PinningAssumption DEF WorkersOf
    <3>. QED  BY <2>2, <2>3, <2>4, <3>1, <3>2, TargetsApart
  <2>. QED  BY <2>1, <2>4, FS_Singleton
<1>. QED  BY <1>1, PlacedHolds, PTL

=============================================================================
