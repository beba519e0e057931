--------------------------- MODULE DistributedSweep ---------------------------
(***************************************************************************)
(* A timed repetition of a stationary solve across MPI ranks: the driver   *)
(* (run_stationary), the passes of the ten stationary methods, the two     *)
(* problems' way of distributing a pass, and the MpiBackend calls they     *)
(* make: exchange_halo, gather_rows, run_ordered, reduce and barrier.      *)
(*                                                                         *)
(* A unit is what one rank owns and updates whole: an interior grid row of *)
(* Poisson2D (layout "grid", rows 0 and N + 1 are the boundary ring) or an *)
(* unknown of DenseProblem (layout "flat").  Every rank keeps a copy of    *)
(* every unit.  The arithmetic is abstracted to WHICH values it combines:  *)
(* a unit's value is, for each colour of its cells, the number of the pass *)
(* that wrote it, and an update whose inputs are not exactly those of the  *)
(* sequential method writes Wrong.                                         *)
(***************************************************************************)
EXTENDS Partition, MpiWorld, FiniteSets

CONSTANTS
  N,               \* interior rows of the grid, or unknowns of the dense system
  BlockCount,      \* diagonal blocks of the dense system
  Layout,          \* "grid" or "flat"
  Runs,            \* what a client may ask for, see Init
  Repetitions      \* bound: timed repetitions on one workspace

ASSUME SweepAssumption ==
  /\ N \in Nat \ {0}
  /\ BlockCount \in 1..N
  /\ Layout \in {"grid", "flat"}
  /\ Repetitions \in Nat \ {0}

\* The stationary methods of the registry.
Solvers == {"jacobi", "gauss_seidel_f", "gauss_seidel_b", "gauss_seidel_s", "sor",
            "ssor", "gauss_seidel_rb", "sor_rb", "block_jacobi",
            "block_gauss_seidel"}

\* What run_stationary requires of its options.
ASSUME RunsAssumption ==
  \A one \in Runs :
    /\ one.solver \in Solvers
    /\ one.max_iterations \in Nat
    /\ one.check_interval \in Nat \ {0}

VARIABLES
  run,       \* solver and options of this solve, and how its residuals behave
  stage,     \* stage[r]: which part of the driver rank r is in
  phase,     \* phase[r]: and where within its current backend call
  cell,      \* cell[r][slot][u]: rank r's copy of unit u in a workspace slot
  current,   \* current[r]: the slot the driver calls current
  pass,      \* pass[r]: passes rank r has finished in this solve
  todo,      \* todo[r]: items of the running pass rank r has still to update
  rep,       \* rep[r]: repetitions finished
  outcome    \* outcome[r]: the Diagnostics of the last solve

solveVars == <<run, stage, phase, cell, current, pass, todo, rep, outcome>>
vars == <<wire, calls, run, stage, phase, cell, current, pass, todo, rep, outcome>>

Grid == Layout = "grid"
Colours == {"red", "black"}
Units == 1..N
Stored == IF Grid THEN 0..(N + 1) ELSE Units
Slots == {"iterate", "work", "previous"}

Ring == -1      \* homogeneous boundary data
Wrong == -2     \* the value of an update that read something else

SetMin(S) == CHOOSE x \in S : \A y \in S : x <= y
SetMax(S) == CHOOSE x \in S : \A y \in S : x >= y

-----------------------------------------------------------------------------
(* The methods, as the passes one iteration of each makes. *)

Passes(solver) ==
  CASE solver = "jacobi" -> <<"jacobi">>
    [] solver \in {"gauss_seidel_f", "sor"} -> <<"forward">>
    [] solver = "gauss_seidel_b" -> <<"backward">>
    [] solver \in {"gauss_seidel_s", "ssor"} -> <<"forward", "backward">>
    [] solver \in {"gauss_seidel_rb", "sor_rb"} -> <<"red", "black">>
    [] solver = "block_jacobi" -> <<"block_jacobi">>
    [] solver = "block_gauss_seidel" -> <<"block_forward">>

PassesPerIteration == Len(Passes(run.solver))

\* The kind of the k-th pass of the solve, and of the one rank r is in.
PassAt(k) == Passes(run.solver)[((k - 1) % PassesPerIteration) + 1]
Kind(r) == PassAt(pass[r] + 1)

Ordered(kind) == kind \in {"forward", "backward", "block_forward"}
ByBlocks(kind) == kind \in {"block_jacobi", "block_forward"}
Written(kind) ==
  CASE kind = "red" -> {"red"} [] kind = "black" -> {"black"} [] OTHER -> Colours

\* The last pass up to the k-th that wrote cells of colour c, 0 for none.
Latest(c, k) == SetMax({0} \cup {j \in 1..k : c \in Written(PassAt(j))})

Iterations(p) == p \div PassesPerIteration

-----------------------------------------------------------------------------
(* Who owns what. *)

local_rows(r, total) == block_partition(total, P, r)
UnitsOf(range) == (range.begin + 1)..range.end

PointRange(r) == local_rows(r, N)

\* Fault: the rows of a rank's blocks are taken to be its share of the rows.
OwnedRowsAsPoints(r) == local_rows(r, N)

\* The rows covered by the blocks rank r solves.
OwnedRows(r) ==
  LET mine == local_rows(r, BlockCount)
  IN IF mine.begin >= mine.end
     THEN EmptyRange
     ELSE RangeOf(block_partition(N, BlockCount, mine.begin).begin,
                  block_partition(N, BlockCount, mine.end - 1).end)

FlatBlocks(kind) == ByBlocks(kind) /\ ~ Grid

\* A pass is a set of items; an item is a unit, or a block of the dense system.
ItemsOf(r, kind) ==
  IF FlatBlocks(kind) THEN UnitsOf(local_rows(r, BlockCount))
                      ELSE UnitsOf(PointRange(r))
UnitsIn(item, kind) ==
  IF FlatBlocks(kind) THEN UnitsOf(block_partition(N, BlockCount, item - 1))
                      ELSE {item}

-----------------------------------------------------------------------------
(* What an update reads and what it makes of it. *)

\* Units coupled to a set of units that is updated together.
Coupled(S) == IF Grid THEN UNION {{u - 1, u + 1} : u \in S} ELSE Units \ S

\* The cells read from a coupled unit: red cells have black neighbours only.
ReadColours(kind) ==
  IF kind \in {"red", "black"} THEN Colours \ Written(kind) ELSE Colours

\* Units the sequential method has updated before S in the same pass.
Before(u, S, kind) ==
  CASE kind \in {"forward", "block_forward"} -> u < SetMin(S)
    [] kind = "backward" -> u > SetMax(S)
    [] OTHER -> FALSE

\* The content of unit u when the sequential method updates S in pass k.
Sequential(u, c, S, k) ==
  IF u \notin Units THEN Ring
  ELSE Latest(c, IF Before(u, S, PassAt(k)) THEN k ELSE k - 1)

Source(r) ==
  IF Kind(r) = "block_jacobi" THEN cell[r]["previous"] ELSE cell[r][current[r]]
Target(r) ==
  IF Kind(r) # "jacobi" THEN current[r]
  ELSE IF current[r] = "iterate" THEN "work" ELSE "iterate"

ReadsWell(r, S) ==
  LET kind == Kind(r)
      k == pass[r] + 1
      x == Source(r)
  IN /\ \A u \in Coupled(S) : \A c \in ReadColours(kind) :
          x[u][c] = Sequential(u, c, S, k)
     /\ ByBlocks(kind) \/ \A u \in S : \A c \in Colours :
          x[u][c] = Latest(c, k - 1)

\* The target slot once the units S of it have been updated.
Updated(r, S) ==
  LET value == IF ReadsWell(r, S) THEN pass[r] + 1 ELSE Wrong
  IN [u \in Stored |->
        [c \in Colours |-> IF u \in S /\ c \in Written(Kind(r))
                           THEN value ELSE cell[r][Target(r)][u][c]]]

InitialState ==
  [u \in Stored |-> [c \in Colours |-> IF u \in Units THEN 0 ELSE Ring]]

NotSolved == [iterations |-> 0, reason |-> "none"]

-----------------------------------------------------------------------------
Init ==
  /\ MpiInit
  /\ run \in Runs
  /\ stage = [r \in Ranks |-> "reset"]
  /\ phase = [r \in Ranks |-> "start"]
  /\ cell = [r \in Ranks |-> [slot \in Slots |-> InitialState]]
  /\ current = [r \in Ranks |-> "iterate"]
  /\ pass = [r \in Ranks |-> 0]
  /\ todo = [r \in Ranks |-> {}]
  /\ rep = [r \in Ranks |-> 0]
  /\ outcome = [r \in Ranks |-> NotSolved]

At(r, s, p) == stage[r] = s /\ phase[r] = p
Goto(r, s, p) ==
  /\ stage' = [stage EXCEPT ![r] = s]
  /\ phase' = [phase EXCEPT ![r] = p]
GotoPhase(r, p) == Goto(r, stage[r], p)

\* Where a stage begins: the dense relaxations trust their copy, every other
\* user of the iterate refreshes it first.
FirstPhase(s, k) ==
  CASE s = "rhs_norm" -> "evaluate"
    [] s = "pass" /\ ~ Grid /\ PassAt(k + 1) \in {"forward", "backward"} -> "body"
    [] s = "synchronise" -> "gather"
    [] OTHER -> "exchange"

Begin(r, s, k) == Goto(r, s, FirstPhase(s, k))

-----------------------------------------------------------------------------
(* timed_repetition. *)

\* Fault: a repetition starts from where the last one ended.
ResetNothing(r) ==
  /\ At(r, "reset", "start")
  /\ pass' = [pass EXCEPT ![r] = 0]
  /\ Goto(r, "barrier_in", "start")
  /\ UNCHANGED <<wire, calls, run, cell, current, todo, rep, outcome>>

Reset(r) ==
  /\ At(r, "reset", "start")
  /\ cell' = [cell EXCEPT ![r] = [slot \in Slots |-> InitialState]]
  /\ current' = [current EXCEPT ![r] = "iterate"]
  /\ pass' = [pass EXCEPT ![r] = 0]
  /\ Goto(r, "barrier_in", "start")
  /\ UNCHANGED <<wire, calls, run, todo, rep, outcome>>

EnterBarrier(r) ==
  /\ stage[r] \in {"barrier_in", "barrier_out"}
  /\ phase[r] = "start"
  /\ Enter(r, "Barrier", 0)
  /\ GotoPhase(r, "wait")
  /\ UNCHANGED <<wire, run, cell, current, pass, todo, rep, outcome>>

LeaveBarrier(r) ==
  /\ stage[r] \in {"barrier_in", "barrier_out"}
  /\ phase[r] = "wait"
  /\ AllEntered(r)
  /\ IF stage[r] = "barrier_in"
     THEN /\ Begin(r, "rhs_norm", 0)
          /\ UNCHANGED rep
     ELSE /\ rep' = [rep EXCEPT ![r] = @ + 1]
          /\ IF rep[r] + 1 < Repetitions THEN Goto(r, "reset", "start")
                                         ELSE Goto(r, "finished", "start")
  /\ UNCHANGED <<wire, calls, run, cell, current, pass, todo, outcome>>

-----------------------------------------------------------------------------
(* exchange_halo on a grid: two Sendrecv calls, up and then down. *)

Rows(r) == PointRange(r)
AboveOf(r) == IF r > 0 THEN r - 1 ELSE PROC_NULL
BelowOf(r) == IF r + 1 < P THEN r + 1 ELSE PROC_NULL

\* Fault: the row sent up is the halo above it.
FirstOwnedIsHalo(r) == Rows(r).begin

FirstOwned(r) == Rows(r).begin + 1
LastOwned(r) == Rows(r).end
UpperHalo(r) == Rows(r).begin
LowerHalo(r) == Rows(r).end + 1

Mine(r) == cell[r][current[r]]

StoreUnits(r, values) ==
  cell' = [cell EXCEPT ![r][current[r]] =
             [u \in Stored |-> IF u \in DOMAIN values THEN values[u] ELSE @[u]]]

\* What a Sendrecv may send.  A rank that owns no row passes one address as
\* both buffers, so a message that is already there may be sent back out.
SendBuffer(r, from, into, src, tag) ==
  {Mine(r)[from]} \cup
  (IF from = into /\ Incoming(r, src, tag) THEN {Message(r, src, tag)} ELSE {})

\* Fault: no exchange before the pass.
SkipExchange(r) ==
  /\ phase[r] = "exchange"
  /\ GotoPhase(r, "body")
  /\ UNCHANGED <<wire, calls, run, cell, current, pass, todo, rep, outcome>>

ExchangeHalo(r) ==
  /\ phase[r] = "exchange"
  /\ IF P = 1 \/ ~ Grid
     THEN /\ GotoPhase(r, IF P = 1 THEN "body" ELSE "gather")
          /\ UNCHANGED wire
     ELSE /\ \E row \in SendBuffer(r, FirstOwned(r), LowerHalo(r), BelowOf(r),
                                   "TAG_HALO_UP") :
               Send(r, AboveOf(r), "TAG_HALO_UP", row)
          /\ GotoPhase(r, "halo_up")
  /\ UNCHANGED <<calls, run, cell, current, pass, todo, rep, outcome>>

\* The receive of a Sendrecv is over: nothing was expected, or it arrived.
TakeHalo(r, src, tag, into, next) ==
  /\ IF src = PROC_NULL
     THEN UNCHANGED <<wire, cell>>
     ELSE /\ Incoming(r, src, tag)
          /\ StoreUnits(r, [u \in {into} |-> Message(r, src, tag)])
          /\ Receive(r, src, tag)
  /\ GotoPhase(r, next)
  /\ UNCHANGED <<calls, run, current, pass, todo, rep, outcome>>

TakeLowerHalo(r) ==
  /\ phase[r] = "halo_up"
  /\ TakeHalo(r, BelowOf(r), "TAG_HALO_UP", LowerHalo(r), "halo_up_sent")

SendHaloDown(r) ==
  /\ phase[r] = "halo_up_sent"
  /\ \E row \in SendBuffer(r, LastOwned(r), UpperHalo(r), AboveOf(r),
                           "TAG_HALO_DOWN") :
       Send(r, BelowOf(r), "TAG_HALO_DOWN", row)
  /\ GotoPhase(r, "halo_down")
  /\ UNCHANGED <<calls, run, cell, current, pass, todo, rep, outcome>>

TakeUpperHalo(r) ==
  /\ phase[r] = "halo_down"
  /\ TakeHalo(r, AboveOf(r), "TAG_HALO_DOWN", UpperHalo(r), "halo_down_sent")

HaloDone(r) ==
  /\ phase[r] = "halo_down_sent"
  /\ GotoPhase(r, "body")
  /\ UNCHANGED <<wire, calls, run, cell, current, pass, todo, rep, outcome>>

-----------------------------------------------------------------------------
(* gather_rows: the ranges first, then the segments they describe. *)

\* The range a rank passes, and where it goes on afterwards.
GatherRange(r) ==
  IF phase[r] \in {"regather", "reranges", "rerows"} THEN OwnedRows(r)
                                                     ELSE PointRange(r)

Gathered(r, again) ==
  IF again THEN "end_pass" ELSE IF stage[r] = "synchronise" THEN "copy" ELSE "body"

\* One rank has nothing to gather.
Gather(r) ==
  /\ phase[r] \in {"gather", "regather"}
  /\ IF P = 1
     THEN /\ GotoPhase(r, Gathered(r, phase[r] = "regather"))
          /\ UNCHANGED calls
     ELSE /\ Enter(r, "Allgather_ints", GatherRange(r))
          /\ GotoPhase(r, IF phase[r] = "gather" THEN "ranges" ELSE "reranges")
  /\ UNCHANGED <<wire, run, cell, current, pass, todo, rep, outcome>>

GatherRows(r) ==
  /\ phase[r] \in {"ranges", "reranges"}
  /\ AllEntered(r)
  /\ Enter(r, "Allgatherv", [u \in UnitsOf(GatherRange(r)) |-> Mine(r)[u]])
  /\ GotoPhase(r, IF phase[r] = "ranges" THEN "rows" ELSE "rerows")
  /\ UNCHANGED <<wire, run, cell, current, pass, todo, rep, outcome>>

\* The segments land where the collected ranges say.
Collected(r) ==
  LET before == Entered(r) - 1
      RangeFrom(q) == UnitsOf(calls[q][before].data)
      Covered == UNION {RangeFrom(q) : q \in Ranks \ {r}}
  IN [u \in Covered |->
        Brought(r, CHOOSE q \in Ranks \ {r} : u \in RangeFrom(q))[u]]

StoreRows(r) ==
  /\ phase[r] \in {"rows", "rerows"}
  /\ AllEntered(r)
  /\ StoreUnits(r, Collected(r))
  /\ GotoPhase(r, Gathered(r, phase[r] = "rerows"))
  /\ UNCHANGED <<wire, calls, run, current, pass, todo, rep, outcome>>

-----------------------------------------------------------------------------
(* A pass over the rank's own items, with run_ordered around it if the     *)
(* method is sequentially dependent.                                       *)

Forward(r) == Kind(r) # "backward"

\* Fault: the chain runs upwards whatever the direction of the sweep.
PredecessorAbove(r) == AboveOf(r)

Predecessor(r) == IF Forward(r) THEN AboveOf(r) ELSE BelowOf(r)
Successor(r) == IF Forward(r) THEN BelowOf(r) ELSE AboveOf(r)
LastInTurn(r) == IF Forward(r) THEN P - 1 ELSE 0

\* The halo row an ordered pass receives and the own row it hands on.
TurnRowIn(r) == IF Forward(r) THEN UpperHalo(r) ELSE LowerHalo(r)
TurnRowOut(r) == IF Forward(r) THEN LastOwned(r) ELSE FirstOwned(r)

\* Fault: an ordered pass does not wait for its turn.
StartPassOutOfTurn(r) ==
  /\ At(r, "pass", "body")
  /\ todo' = [todo EXCEPT ![r] = ItemsOf(r, Kind(r))]
  /\ GotoPhase(r, "work")
  /\ IF Kind(r) = "block_jacobi"
     THEN cell' = [cell EXCEPT ![r]["previous"] = Mine(r)]
     ELSE UNCHANGED cell
  /\ UNCHANGED <<wire, calls, run, current, pass, rep, outcome>>

\* A lagged block pass snapshots the iterate; an ordered one awaits its turn.
StartPass(r) ==
  /\ At(r, "pass", "body")
  /\ todo' = [todo EXCEPT ![r] = ItemsOf(r, Kind(r))]
  /\ GotoPhase(r, IF Ordered(Kind(r)) /\ P > 1 THEN "turn" ELSE "work")
  /\ IF Kind(r) = "block_jacobi"
     THEN cell' = [cell EXCEPT ![r]["previous"] = Mine(r)]
     ELSE UNCHANGED cell
  /\ UNCHANGED <<wire, calls, run, current, pass, rep, outcome>>

TakeTurn(r) ==
  LET src == Predecessor(r)
      message == Message(r, src, "TAG_ORDERED")
  IN /\ phase[r] = "turn"
     /\ IF src = PROC_NULL
        THEN UNCHANGED <<wire, cell>>
        ELSE /\ Incoming(r, src, "TAG_ORDERED")
             /\ StoreUnits(r, IF Grid THEN [u \in {TurnRowIn(r)} |-> message]
                                      ELSE message)
             /\ Receive(r, src, "TAG_ORDERED")
     /\ GotoPhase(r, "work")
     /\ UNCHANGED <<calls, run, current, pass, todo, rep, outcome>>

\* A sequential pass takes its items in order, a parallel_for in any order.
NextItems(r) ==
  IF ~ Ordered(Kind(r)) THEN todo[r]
  ELSE IF Forward(r) THEN {SetMin(todo[r])} ELSE {SetMax(todo[r])}

UpdateItem(r) ==
  /\ phase[r] = "work"
  /\ todo[r] # {}
  /\ \E item \in NextItems(r) :
       /\ cell' = [cell EXCEPT ![r][Target(r)] = Updated(r, UnitsIn(item, Kind(r)))]
       /\ todo' = [todo EXCEPT ![r] = @ \ {item}]
  /\ UNCHANGED <<wire, calls, run, stage, phase, current, pass, rep, outcome>>

HandOn(r) ==
  /\ phase[r] = "work"
  /\ todo[r] = {}
  /\ Ordered(Kind(r)) /\ P > 1
  /\ Send(r, Successor(r), "TAG_ORDERED",
          IF Grid THEN Mine(r)[TurnRowOut(r)] ELSE Mine(r))
  /\ GotoPhase(r, "handed_on")
  /\ UNCHANGED <<calls, run, cell, current, pass, todo, rep, outcome>>

\* Fault: the last rank of the chain, which has the result, skips the Bcast.
HandedOnLastSkips(r) ==
  /\ phase[r] = "handed_on"
  /\ IF Grid \/ r = LastInTurn(r)
     THEN /\ GotoPhase(r, "end_pass")
          /\ UNCHANGED calls
     ELSE /\ Enter(r, "Bcast", <<>>)
          /\ GotoPhase(r, "bcast")
  /\ UNCHANGED <<wire, run, cell, current, pass, todo, rep, outcome>>

\* A dense ordered pass ends with a Bcast from the last rank of the chain.
HandedOn(r) ==
  /\ phase[r] = "handed_on"
  /\ IF Grid
     THEN /\ GotoPhase(r, "end_pass")
          /\ UNCHANGED calls
     ELSE /\ Enter(r, "Bcast", IF r = LastInTurn(r) THEN Mine(r) ELSE <<>>)
          /\ GotoPhase(r, "bcast")
  /\ UNCHANGED <<wire, run, cell, current, pass, todo, rep, outcome>>

LeaveBcast(r) ==
  /\ phase[r] = "bcast"
  /\ RootEntered(r, LastInTurn(r))
  /\ StoreUnits(r, IF r = LastInTurn(r) THEN <<>> ELSE Brought(r, LastInTurn(r)))
  /\ GotoPhase(r, "end_pass")
  /\ UNCHANGED <<wire, calls, run, current, pass, todo, rep, outcome>>

\* A parallel pass is over; a dense block pass publishes the blocks' rows.
WorkDone(r) ==
  /\ phase[r] = "work"
  /\ todo[r] = {}
  /\ ~ (Ordered(Kind(r)) /\ P > 1)
  /\ GotoPhase(r, IF FlatBlocks(Kind(r)) /\ ~ Ordered(Kind(r)) THEN "regather"
                                                               ELSE "end_pass")
  /\ UNCHANGED <<wire, calls, run, cell, current, pass, todo, rep, outcome>>

-----------------------------------------------------------------------------
(* run_stationary. *)

\* check_due, at the end of the iteration that finished pass k.
CheckDue(k) ==
  \/ Iterations(k) % run.check_interval = 0
  \/ Iterations(k) = run.max_iterations

\* Go round the loop again, or leave it with the iterations made so far.
Loop(r, k) ==
  IF Iterations(k) < run.max_iterations THEN Begin(r, "pass", k)
                                        ELSE Begin(r, "synchronise", k)

EndPass(r) ==
  LET k == pass[r] + 1
      wholeIteration == k % PassesPerIteration = 0
  IN /\ phase[r] = "end_pass"
     /\ pass' = [pass EXCEPT ![r] = k]
     /\ current' = [current EXCEPT ![r] = Target(r)]
     /\ IF ~ wholeIteration THEN Begin(r, "pass", k)
        ELSE IF CheckDue(k) THEN Begin(r, "residual", k)
        ELSE Loop(r, k)
     /\ UNCHANGED <<wire, calls, run, cell, todo, rep, outcome>>

\* This rank's share of the squared residual, as the iteration it belongs to.
Partial(r) ==
  LET S == UnitsOf(PointRange(r))
      read == S \cup UNION {Coupled({u}) : u \in S}
  IN IF \A u \in read : \A c \in Colours :
          Mine(r)[u][c] = IF u \in Units THEN Latest(c, pass[r]) ELSE Ring
     THEN Iterations(pass[r]) ELSE Wrong

\* residual() once the copy is fresh: the local part, then the reduction.
Evaluate(r) ==
  /\ \/ stage[r] = "rhs_norm" /\ phase[r] = "evaluate"
     \/ stage[r] \in {"initial", "residual"} /\ phase[r] = "body"
  /\ Enter(r, "Allgather_doubles", IF stage[r] = "rhs_norm" THEN 0 ELSE Partial(r))
  /\ GotoPhase(r, "reduce")
  /\ UNCHANGED <<wire, run, cell, current, pass, todo, rep, outcome>>

\* Fault: each rank judges its own share of the residual.
ResidualOfOwnShare(r) ==
  IF Brought(r, r) = run.at /\ 2 * RangeSize(PointRange(r)) >= N
  THEN run.residual ELSE "large"

\* The relative residual, from the partials of all ranks in rank order: the
\* run says after which iteration it is small or not finite.
Residual(r) ==
  LET partials == [q \in Ranks |-> Brought(r, q)]
  IN IF \A q \in Ranks : partials[q] = run.at THEN run.residual ELSE "large"

Converged(r) == run.mode = "ToTolerance" /\ Residual(r) = "small"

\* apply_check; a fixed run is cut short by a residual that is not finite.
LeaveReduce(r) ==
  /\ phase[r] = "reduce"
  /\ AllEntered(r)
  /\ CASE stage[r] = "rhs_norm" ->
            /\ Begin(r, "initial", 0)
            /\ UNCHANGED outcome
       [] stage[r] = "initial" ->
            /\ outcome' = [outcome EXCEPT ![r] =
                 [iterations |-> 0,
                  reason |-> IF Converged(r) THEN "Converged" ELSE "none"]]
            /\ IF Converged(r) THEN Goto(r, "barrier_out", "start")
                               ELSE Loop(r, pass[r])
       [] stage[r] = "residual" ->
            LET reason == CASE Residual(r) = "not_finite" -> "Diverged"
                            [] Converged(r) -> "Converged"
                            [] OTHER -> "none"
            IN /\ outcome' = [outcome EXCEPT ![r].reason = reason]
               /\ IF reason = "none" THEN Loop(r, pass[r])
                                     ELSE Begin(r, "synchronise", pass[r])
  /\ UNCHANGED <<wire, calls, run, cell, current, pass, todo, rep>>

\* finalise_reason
FinalReason(reason) ==
  IF run.mode = "FixedIterations" \/ reason = "none" THEN "IterationCap" ELSE reason

\* The iterate is copied back into slot 0 if it did not land there.
Finish(r) ==
  /\ At(r, "synchronise", "copy")
  /\ cell' = [cell EXCEPT ![r]["iterate"] = Mine(r)]
  /\ outcome' = [outcome EXCEPT ![r] =
       [iterations |-> Iterations(pass[r]), reason |-> FinalReason(@.reason)]]
  /\ Goto(r, "barrier_out", "start")
  /\ UNCHANGED <<wire, calls, run, current, pass, todo, rep>>

-----------------------------------------------------------------------------
\* Everything rank r may do next.  The three steps that leave a send are
\* allowed before the message was received: MPI may have buffered it.
LeavesSend(r) == SendHaloDown(r) \/ HaloDone(r) \/ HandedOn(r)

Computes(r) ==
  \/ Reset(r)
  \/ EnterBarrier(r) \/ LeaveBarrier(r)
  \/ ExchangeHalo(r) \/ TakeLowerHalo(r) \/ TakeUpperHalo(r)
  \/ Gather(r) \/ GatherRows(r) \/ StoreRows(r)
  \/ StartPass(r) \/ TakeTurn(r) \/ UpdateItem(r)
  \/ HandOn(r) \/ LeaveBcast(r) \/ WorkDone(r)
  \/ EndPass(r)
  \/ Evaluate(r) \/ LeaveReduce(r)
  \/ Finish(r)

\* MPI_Finalize and exit are the driver's.
AllFinished ==
  /\ \A r \in Ranks : stage[r] = "finished"
  /\ UNCHANGED vars

Next == (\E r \in Ranks : Computes(r) \/ LeavesSend(r)) \/ AllFinished

\* Every message rank r sent to a neighbour has been received.
SendsReceived(r) ==
  \A tag \in Tags : Delivered(r, AboveOf(r), tag) /\ Delivered(r, BelowOf(r), tag)

\* Every rank keeps running, and MPI completes a send once it was received;
\* nothing may rely on a send that was merely buffered.
Fairness ==
  \A r \in Ranks : WF_vars(Computes(r) \/ (SendsReceived(r) /\ LeavesSend(r)))

Spec == Init /\ [][Next]_vars

FairSpec == Spec /\ Fairness

-----------------------------------------------------------------------------
Stages == {"reset", "barrier_in", "rhs_norm", "initial", "pass", "residual",
           "synchronise", "barrier_out", "finished"}
Phases == {"start", "wait", "exchange", "halo_up", "halo_up_sent", "halo_down",
           "halo_down_sent", "gather", "ranges", "rows", "regather", "reranges",
           "rerows", "body", "turn", "work", "handed_on", "bcast", "end_pass",
           "evaluate", "reduce", "copy"}
Reasons == {"none", "Converged", "Diverged", "IterationCap"}

\* The types.  A rank's copy of a unit is never older than the initial state
\* nor newer than the pass it is in.
TypeOK ==
  /\ stage \in [Ranks -> Stages]
  /\ phase \in [Ranks -> Phases]
  /\ current \in [Ranks -> {"iterate", "work"}]
  /\ pass \in [Ranks -> 0..(run.max_iterations * PassesPerIteration)]
  /\ rep \in [Ranks -> 0..Repetitions]
  /\ \A r \in Ranks :
       /\ outcome[r].iterations \in 0..run.max_iterations
       /\ outcome[r].reason \in Reasons
       /\ todo[r] \subseteq Units
       /\ \A slot \in Slots, u \in Stored, c \in Colours :
            cell[r][slot][u][c] \in {Ring, Wrong} \cup 0..(pass[r] + 1)

\* Every update and every residual reads exactly the values the sequential
\* method reads at that point of that pass: exchange_halo, gather_rows and
\* run_ordered deliver them on every rank, whatever the interleaving.
NoStaleRead ==
  \A r \in Ranks :
    /\ \A slot \in Slots, u \in Stored, c \in Colours : cell[r][slot][u][c] # Wrong
    /\ \A k \in 1..Entered(r) :
         calls[r][k].call = "Allgather_doubles" => calls[r][k].data # Wrong

\* No halo row that lands on a rank without rows, or on the last one, ever
\* overwrites the homogeneous boundary the stencil reads.
RingIntact ==
  \A r \in Ranks, slot \in Slots, u \in Stored \ Units, c \in Colours :
    cell[r][slot][u][c] = Ring

Solved(r) == stage[r] \in {"barrier_out", "finished"}

\* When solve() returns, slot 0 of every rank holds every unit of the final
\* iterate, gathered before it was copied.
SolutionComplete ==
  \A r \in Ranks : Solved(r) =>
    \A u \in Units, c \in Colours : cell[r]["iterate"][u][c] = Latest(c, pass[r])

\* All ranks leave the loop at the same iteration and for the same reason.
RanksAgree ==
  \A q, r \in Ranks : Solved(q) /\ Solved(r) /\ rep[q] = rep[r] =>
    outcome[q] = outcome[r] /\ pass[q] = pass[r]

\* Ranks that meet in a collective make the same call: no rank is in an
\* Allgatherv of a vector while another reduces.
CollectivesMatch == \A q, r \in Ranks : SameCall(q, r)

\* No message outlives the solve that sent it, so none can be taken for one
\* of the next repetition.
NoMessageLeft ==
  (\A r \in Ranks : Solved(r)) =>
    \A tag \in Tags, q, r \in Ranks : wire[tag][q][r] = <<>>

\* A distributed solve is a sequential one from its first read to its answer:
\* nothing stale is read, every rank returns the whole final iterate, and no
\* message is left for the next repetition, over halos, gathers and turns.
WholeSolve == TypeOK /\ NoStaleRead /\ SolutionComplete /\ NoMessageLeft

\* "Iterate exactly max_iterations times with no convergence test."
FixedRunsAreExact ==
  \A r \in Ranks : Solved(r) /\ run.mode = "FixedIterations" =>
    outcome[r].iterations = run.max_iterations

\* What the passes promise, Wavefront: unit u has taken the passes its owner
\* has finished, and the running one if the owner has updated it already.
Direction(kind) ==
  IF ~ Ordered(kind) THEN "parallel"
  ELSE IF kind = "backward" THEN "descending" ELSE "ascending"

InPass(r) == stage[r] = "pass" /\ phase[r] \notin
               {"exchange", "halo_up", "halo_up_sent", "halo_down",
                "halo_down_sent", "gather", "ranges", "rows", "body"}
UnitsLeft(r) == UNION {UnitsIn(item, Kind(r)) : item \in todo[r]}
OwnerOf(u) ==
  CHOOSE r \in Ranks :
    \E item \in ItemsOf(r, PassAt(1)) : u \in UnitsIn(item, PassAt(1))

PassesTaken(u) ==
  LET r == OwnerOf(u)
  IN IF InPass(r) /\ u \notin UnitsLeft(r) THEN pass[r] + 1 ELSE pass[r]

WF == INSTANCE Wavefront WITH
        Near <- [u \in Units |-> (Coupled({u}) \cap Units) \ {u}],
        Plans <- Seq({"ascending", "descending", "parallel"}),
        plan <- [k \in 1..(run.max_iterations * PassesPerIteration) |->
                   Direction(PassAt(k))],
        done <- [u \in Units |-> PassesTaken(u)]

\* No unit is ever updated out of the order its pass prescribes, on whichever
\* rank it lives (one repetition; the next one starts the count again).
ImplementsWavefront == WF!Spec

\* Every rank comes back from every repetition, even if no send completes
\* before its message was received.
SolveEnds == <>(\A r \in Ranks : stage[r] = "finished")

=============================================================================
