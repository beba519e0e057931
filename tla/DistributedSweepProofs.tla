------------------------ MODULE DistributedSweepProofs ------------------------
(***************************************************************************)
(* What the ranks of a distributed solve agree on and leave behind, for    *)
(* every number of ranks, units, blocks and repetitions and every method   *)
(* and option: the collectives they make, the iteration at which they stop *)
(* and why, and the messages of their halo exchanges and turns.            *)
(***************************************************************************)
EXTENDS DistributedSweep, PartitionProofs, SequenceTheorems, FiniteSetTheorems,
        WellFoundedInduction, TLAPS

-----------------------------------------------------------------------------
(* The journey of a solve: which collectives come after which. *)

Last == run.max_iterations * PassesPerIteration

\* Where a collective is called: the control state of its caller.
Call(n, s, k, p, o) ==
  [rep |-> n, stage |-> s, pass |-> k, phase |-> p, outcome |-> o]

\* On a grid the passes make no collective: the next is the residual of the
\* first iteration that is due.
NextDue(k) ==
  SetMin({j \in (k + 1)..Last : (j % PassesPerIteration) = 0 /\ CheckDue(j)})

\* The first collective of a stage.
Opening(n, s, k, o) ==
  CASE s = "rhs_norm" -> Call(n, s, k, "evaluate", o)
    [] s = "pass" /\ Grid -> Call(n, "residual", NextDue(k), "body", o)
    [] s = "pass" /\ ~ Grid /\ PassAt(k + 1) \in {"forward", "backward"} ->
         Call(n, s, k, "handed_on", o)
    [] s \in {"initial", "residual"} /\ Grid -> Call(n, s, k, "body", o)
    [] OTHER -> Call(n, s, k, "gather", o)

OpeningLoop(n, k, o) ==
  Opening(n, IF Iterations(k) < run.max_iterations THEN "pass" ELSE "synchronise", k, o)

\* The first collective after pass k.
OpeningAfterPass(n, k, o) ==
  IF (k % PassesPerIteration) # 0 THEN Opening(n, "pass", k, o)
  ELSE IF CheckDue(k) THEN Opening(n, "residual", k, o)
  ELSE OpeningLoop(n, k, o)

\* The next collective of a pass of the dense problem.
AheadInPass(n, k, p, o) ==
  CASE p \in {"exchange", "gather"} -> Call(n, "pass", k, "gather", o)
    [] p \in {"body", "turn", "work"} ->
         IF Ordered(PassAt(k + 1)) THEN Call(n, "pass", k, "handed_on", o)
         ELSE IF FlatBlocks(PassAt(k + 1)) THEN Call(n, "pass", k, "regather", o)
         ELSE OpeningAfterPass(n, k + 1, o)
    [] p = "end_pass" -> OpeningAfterPass(n, k + 1, o)
    [] OTHER -> Call(n, "pass", k, p, o)

\* The collective a rank that is in none comes to next.
Ahead(n, s, k, p, o) ==
  CASE s = "reset" -> Call(n, "barrier_in", 0, "start", o)
    [] s \in {"initial", "residual"} /\ ~ Grid /\ p # "body" ->
         Call(n, s, k, "gather", o)
    [] s \in {"initial", "residual"} /\ (Grid \/ p = "body") ->
         Call(n, s, k, "body", o)
    [] s = "pass" /\ Grid -> Opening(n, s, k, o)
    [] s = "pass" /\ ~ Grid -> AheadInPass(n, k, p, o)
    [] s = "synchronise" /\ p = "copy" ->
         Call(n, "barrier_out", k, "start",
              [iterations |-> Iterations(k), reason |-> FinalReason(o.reason)])
    [] OTHER -> Call(n, s, k, p, o)

\* The collective that follows the one at w, if its partials are judged so.
AfterReduce(w, verdict) ==
  LET converged == run.mode = "ToTolerance" /\ verdict = "small"
      reason == CASE verdict = "not_finite" /\ w.stage = "residual" -> "Diverged"
                  [] converged -> "Converged"
                  [] OTHER -> "none"
      o == IF w.stage = "initial" THEN [iterations |-> 0, reason |-> reason]
                                  ELSE [w.outcome EXCEPT !.reason = reason]
  IN IF reason = "none" THEN OpeningLoop(w.rep, w.pass, o)
     ELSE IF w.stage = "initial" THEN Call(w.rep, "barrier_out", w.pass, "start", o)
     ELSE Opening(w.rep, "synchronise", w.pass, o)

\* The collective that follows one that gathers or hands on.
AfterGather(w) ==
  CASE w.phase = "gather" -> Call(w.rep, w.stage, w.pass, "ranges", w.outcome)
    [] w.phase = "regather" -> Call(w.rep, w.stage, w.pass, "reranges", w.outcome)
    [] w.phase = "ranges" ->
         Ahead(w.rep, w.stage, w.pass,
               IF w.stage = "synchronise" THEN "copy" ELSE "body", w.outcome)
    [] OTHER -> Ahead(w.rep, w.stage, w.pass, "end_pass", w.outcome)

After(w, verdict) ==
  CASE w.stage = "barrier_in" -> Opening(w.rep, "rhs_norm", w.pass, w.outcome)
    [] w.stage = "rhs_norm" -> Opening(w.rep, "initial", w.pass, w.outcome)
    [] w.stage = "barrier_out" -> Call(w.rep + 1, "barrier_in", 0, "start", w.outcome)
    [] w.stage \in {"initial", "residual"} ->
         IF w.phase = "body" THEN AfterReduce(w, verdict) ELSE AfterGather(w)
    [] OTHER -> AfterGather(w)

CallAt(w) ==
  CASE w.phase = "start" -> "Barrier"
    [] w.phase \in {"gather", "regather"} -> "Allgather_ints"
    [] w.phase \in {"ranges", "reranges"} -> "Allgatherv"
    [] w.phase = "handed_on" -> "Bcast"
    [] OTHER -> "Allgather_doubles"

\* What the ranks judge from the partials of the k-th collective.
ResidualAt(k) ==
  IF \A q \in Ranks : calls[q][k].data = run.at THEN run.residual ELSE "large"

WaitingPhases == {"wait", "ranges", "rows", "reranges", "rerows", "bcast", "reduce"}
Waiting(r) == phase[r] \in WaitingPhases

\* The collective a rank is in; one that has finished is past its last.
Within(n, s, k, p, o) ==
  IF s = "finished" THEN Call(n - 1, "barrier_out", k, "start", o)
  ELSE Call(n, s, k,
            CASE p = "wait" -> "start"
              [] p = "ranges" -> "gather"
              [] p = "rows" -> "ranges"
              [] p = "reranges" -> "regather"
              [] p = "rerows" -> "reranges"
              [] p = "bcast" -> "handed_on"
              [] OTHER -> IF s = "rhs_norm" THEN "evaluate" ELSE "body",
            o)
Inside(r) == Within(rep[r], stage[r], pass[r], phase[r], outcome[r])

AllAt(k) == \A q \in Ranks : Entered(q) >= k

\* What comes after the first k places of a path.
Due(path, k) ==
  IF k = 0 THEN Call(0, "barrier_in", 0, "start", NotSolved)
           ELSE After(path[k], ResidualAt(k))

\* A rank may be past the k-th place: all have come to it, unless it is a
\* Bcast, which lets its root go and decides nothing.
Open(path, k) == k = 0 \/ path[k].phase = "handed_on" \/ AllAt(k)

\* The first n places of a path, from the first collective of a solve on.
IsPath(path, n) ==
  /\ \A k \in 1..n : path[k].rep \in Nat /\ path[k] = Due(path, k - 1) /\ Open(path, k - 1)
  /\ \A k, l \in 1..n : k < l =>
       path[k].rep <= path[l].rep /\ (path[k].stage = "barrier_out" => path[k].rep < path[l].rep)

\* Rank r has come by these places, and by no other, to where it is.
IsOn(r, path, n) ==
  /\ Entered(r) \in 0..n
  /\ \A k \in 1..Entered(r) : calls[r][k].call = CallAt(path[k])
  /\ IF Waiting(r) \/ stage[r] = "finished"
     THEN Entered(r) > 0 /\ path[Entered(r)] = Inside(r)
     ELSE /\ Ahead(rep[r], stage[r], pass[r], phase[r], outcome[r]) = Due(path, Entered(r))
          /\ Open(path, Entered(r))

OneJourney == \E n \in Nat : \E path : IsPath(path, n) /\ \A r \in Ranks : IsOn(r, path, n)

\* A list, whatever its elements are.
IsSequence(s) == \E S : s \in Seq(S)

\* The variables the journey is about, as functions of the rank.
ControlTypes ==
  /\ run \in Runs
  /\ stage \in [Ranks -> Stages] /\ phase \in [Ranks -> Phases]
  /\ pass \in [Ranks -> Nat] /\ rep \in [Ranks -> Nat]
  /\ outcome = [r \in Ranks |-> outcome[r]]
  /\ calls = [r \in Ranks |-> calls[r]]
  /\ \A r \in Ranks : IsSequence(calls[r])

HaloPhases == {"halo_up", "halo_up_sent", "halo_down", "halo_down_sent"}

\* The phases of a stage.
PhasesOf(s) ==
  CASE s \in {"reset", "finished"} -> {"start"}
    [] s \in {"barrier_in", "barrier_out"} -> {"start", "wait"}
    [] s = "rhs_norm" -> {"evaluate", "reduce"}
    [] s \in {"initial", "residual"} ->
         {"exchange", "body", "reduce"}
         \cup (IF Grid THEN HaloPhases ELSE {"gather", "ranges", "rows"})
    [] s = "synchronise" -> {"gather", "ranges", "rows", "copy"}
    [] s = "pass" ->
         {"exchange", "body", "turn", "work", "handed_on", "end_pass"}
         \cup (IF Grid THEN HaloPhases
               ELSE {"gather", "ranges", "rows", "bcast", "regather", "reranges", "rerows"})

\* Where the driver can be.
LegalAt(s, p, k, n) ==
  /\ s \in Stages /\ p \in Phases
  /\ p \in PhasesOf(s)
  /\ k \in 0..Last
  /\ s = "pass" => k < Last
  /\ n \in 0..Repetitions
  /\ s = "finished" <=> n = Repetitions
Legal(r) == LegalAt(stage[r], phase[r], pass[r], rep[r])

\* One rank alone does not call half of them.
Control ==
  ControlTypes /\ (\A r \in Ranks : Legal(r)) /\ (P # 1 => OneJourney)

-----------------------------------------------------------------------------
(* Lemmas about the operators. *)

LEMMA AppendedList ==
  ASSUME NEW s, IsSequence(s), NEW e
  PROVE  /\ IsSequence(Append(s, e))
         /\ Len(s) \in Nat /\ Len(Append(s, e)) = Len(s) + 1
         /\ \A k \in 1..Len(s) : Append(s, e)[k] = s[k]
         /\ Append(s, e)[Len(s) + 1] = e
<1>1. PICK S : s \in Seq(S)
  BY DEF IsSequence
<1>2. s \in Seq(S \cup {e}) /\ e \in S \cup {e}
  BY <1>1
<1>3. Append(s, e) \in Seq(S \cup {e})
  BY <1>2
<1>. QED  BY <1>2, <1>3 DEF IsSequence

\* Every method makes one or two passes in an iteration.
LEMMA PassCount ==
  ASSUME run \in Runs
  PROVE  PassesPerIteration \in {1, 2} /\ run.max_iterations \in Nat /\ Last \in Nat
<1>1. run.solver \in Solvers /\ run.max_iterations \in Nat
  BY RunsAssumption
<1>2. PassesPerIteration \in {1, 2}
  BY <1>1 DEF PassesPerIteration, Passes, Solvers
<1>. QED  BY <1>1, <1>2 DEF Last

\* The smallest of some numbers, if it is known.
LEMMA SmallestIs ==
  ASSUME NEW S \in SUBSET Int, NEW m \in S, \A x \in S : m <= x
  PROVE  SetMin(S) = m
<1>1. SetMin(S) \in S /\ \A y \in S : SetMin(S) <= y
  BY DEF SetMin
<1>2. SetMin(S) <= m /\ m <= SetMin(S) /\ SetMin(S) \in Int /\ m \in Int
  BY <1>1
<1>. QED  BY <1>2

\* The options of a solve never change, and nothing here reads anything else.
LEMMA ScheduleFixed ==
  ASSUME run' = run
  PROVE  /\ PassesPerIteration' = PassesPerIteration /\ Last' = Last
         /\ \A k : /\ PassAt(k)' = PassAt(k)
                   /\ Iterations(k)' = Iterations(k)
                   /\ CheckDue(k)' = CheckDue(k)
                   /\ NextDue(k)' = NextDue(k)
<1>1. PassesPerIteration' = PassesPerIteration /\ Last' = Last
  BY DEF PassesPerIteration, Last
<1>2. ASSUME NEW k
      PROVE  PassAt(k)' = PassAt(k) /\ Iterations(k)' = Iterations(k)
  BY <1>1 DEF PassAt, Iterations
<1>3. ASSUME NEW k PROVE CheckDue(k)' = CheckDue(k)
  BY <1>2 DEF CheckDue
<1>4. ASSUME NEW k PROVE NextDue(k)' = NextDue(k)
  <2>1. {j \in (k + 1)..Last : (j % PassesPerIteration) = 0 /\ CheckDue(j)}'
          = {j \in (k + 1)..Last : (j % PassesPerIteration) = 0 /\ CheckDue(j)}
    BY <1>1, <1>3
  <2>. QED  BY <2>1 DEF NextDue
<1>. QED  BY <1>1, <1>2, <1>3, <1>4

LEMMA OpeningFixed ==
  ASSUME run' = run, NEW n, NEW s, NEW k, NEW o
  PROVE  /\ Opening(n, s, k, o)' = Opening(n, s, k, o)
         /\ OpeningLoop(n, k, o)' = OpeningLoop(n, k, o)
         /\ OpeningAfterPass(n, k, o)' = OpeningAfterPass(n, k, o)
<1>1. ASSUME NEW t PROVE Opening(n, t, k, o)' = Opening(n, t, k, o)
  BY ScheduleFixed DEF Opening
<1>2. OpeningLoop(n, k, o)' = OpeningLoop(n, k, o)
  BY <1>1, ScheduleFixed DEF OpeningLoop
<1>3. OpeningAfterPass(n, k, o)' = OpeningAfterPass(n, k, o)
  BY <1>1, <1>2, ScheduleFixed DEF OpeningAfterPass
<1>. QED  BY <1>1, <1>2, <1>3

LEMMA AheadFixed ==
  ASSUME run' = run, NEW n, NEW s, NEW k, NEW p, NEW o
  PROVE  Ahead(n, s, k, p, o)' = Ahead(n, s, k, p, o)
<1>1. AheadInPass(n, k, p, o)' = AheadInPass(n, k, p, o)
  BY OpeningFixed, ScheduleFixed DEF AheadInPass
<1>2. FinalReason(o.reason)' = FinalReason(o.reason)
  BY DEF FinalReason
<1>. QED  BY <1>1, <1>2, OpeningFixed, ScheduleFixed DEF Ahead

LEMMA AfterFixed ==
  ASSUME run' = run, NEW w, NEW v
  PROVE  After(w, v)' = After(w, v)
<1>1. AfterReduce(w, v)' = AfterReduce(w, v)
  BY OpeningFixed DEF AfterReduce
<1>2. AfterGather(w)' = AfterGather(w)
  BY AheadFixed DEF AfterGather
<1>. QED  BY <1>1, <1>2, OpeningFixed DEF After

\* Only the last barrier of a repetition leads into another one.
LEMMA OpeningRep ==
  ASSUME NEW n, NEW s, NEW k, NEW o
  PROVE  /\ Opening(n, s, k, o).rep = n
         /\ OpeningLoop(n, k, o).rep = n
         /\ OpeningAfterPass(n, k, o).rep = n
<1>1. ASSUME NEW t PROVE Opening(n, t, k, o).rep = n
  BY DEF Opening, Call
<1>2. OpeningLoop(n, k, o).rep = n
  BY <1>1 DEF OpeningLoop
<1>. QED  BY <1>1, <1>2 DEF OpeningAfterPass

LEMMA AheadRep ==
  ASSUME NEW n, NEW s, NEW k, NEW p, NEW o
  PROVE  Ahead(n, s, k, p, o).rep = n
<1>1. AheadInPass(n, k, p, o).rep = n
  BY OpeningRep DEF AheadInPass, Call
<1>. QED  BY <1>1, OpeningRep DEF Ahead, Call

LEMMA AfterRep ==
  ASSUME NEW w, NEW v
  PROVE  After(w, v).rep = IF w.stage = "barrier_out" THEN w.rep + 1 ELSE w.rep
<1>1. AfterReduce(w, v).rep = w.rep
  BY OpeningRep DEF AfterReduce, Call
<1>2. AfterGather(w).rep = w.rep
  BY AheadRep DEF AfterGather, Call
<1>3. Call(w.rep + 1, "barrier_in", 0, "start", w.outcome).rep = w.rep + 1
  BY DEF Call
<1>. QED  BY <1>1, <1>2, <1>3, OpeningRep DEF After

-----------------------------------------------------------------------------
(* A step of one rank along the journey. *)

\* The rank that moves; the others stay where they are, in their calls too.
OthersStay(r) ==
  /\ run' = run
  /\ \A q \in Ranks : q # r =>
       /\ stage'[q] = stage[q] /\ phase'[q] = phase[q] /\ pass'[q] = pass[q]
       /\ rep'[q] = rep[q] /\ outcome'[q] = outcome[q] /\ calls'[q] = calls[q]

\* No log becomes shorter or other than it was.
LogsGrow ==
  /\ run' = run
  /\ \A q \in Ranks : /\ Entered(q) \in Nat /\ Entered(q)' \in Nat
                      /\ Entered(q) <= Entered(q)'
                      /\ \A k \in 1..Entered(q) : calls'[q][k] = calls[q][k]

\* What follows an open place does not depend on what comes later.
LEMMA DueKept ==
  ASSUME LogsGrow, NEW path, NEW k \in Nat, Open(path, k)
  PROVE  Due(path, k)' = Due(path, k) /\ Open(path, k)'
<1>1. Open(path, k)'
  BY DEF Open, AllAt, LogsGrow
<1>2. CASE k = 0
  BY <1>1, <1>2 DEF Due, Call, NotSolved
<1>3. ASSUME k # 0, AllAt(k) PROVE Due(path, k)' = Due(path, k)
  <2>1. \A q \in Ranks : k \in 1..Entered(q) /\ calls'[q][k] = calls[q][k]
    BY <1>3 DEF AllAt, LogsGrow
  <2>2. ResidualAt(k)' = ResidualAt(k)
    BY <2>1 DEF ResidualAt, LogsGrow
  <2>3. run' = run
    BY DEF LogsGrow
  <2>4. After(path[k], ResidualAt(k))' = After(path[k], ResidualAt(k)')
    <3>. DEFINE v == ResidualAt(k)'
    <3>1. \A x : After(path[k], x)' = After(path[k], x)
      BY <2>3, AfterFixed
    <3>. QED  BY <3>1
  <2>. QED  BY <1>3, <2>2, <2>4 DEF Due
<1>4. ASSUME k # 0, path[k].phase = "handed_on" PROVE Due(path, k)' = Due(path, k)
  <2>1. \A u, v : After(path[k], u) = After(path[k], v)
    BY <1>4 DEF After
  <2>2. run' = run
    BY DEF LogsGrow
  <2>3. \A x : After(path[k], x)' = After(path[k], x)
    BY <2>2, AfterFixed
  <2>4. After(path[k], ResidualAt(k))' = After(path[k], ResidualAt(k)')
    BY <2>3
  <2>5. After(path[k], ResidualAt(k)') = After(path[k], ResidualAt(k))
    BY <2>1
  <2>. QED  BY <1>4, <2>4, <2>5 DEF Due
<1>. QED  BY <1>1, <1>2, <1>3, <1>4 DEF Open

\* A place more on a path that everyone may go beyond.
LEMMA PathGoesOn ==
  ASSUME NEW path, NEW n \in Nat, IsPath(path, n), Open(path, n), NEW next,
         next = [k \in 1..(n + 1) |-> IF k = n + 1 THEN Due(path, n) ELSE path[k]]
  PROVE  /\ IsPath(next, n + 1) /\ next[n + 1] = Due(path, n)
         /\ \A k \in 1..n : next[k] = path[k]
         /\ \A k \in 0..n : Due(next, k) = Due(path, k) /\ (Open(path, k) => Open(next, k))
<1>1. next[n + 1] = Due(path, n) /\ \A k \in 1..n : next[k] = path[k]
  OBVIOUS
<1>2. ASSUME NEW k \in 0..n
      PROVE  Due(next, k) = Due(path, k) /\ (Open(path, k) <=> Open(next, k))
  <2>1. k = 0 \/ next[k] = path[k]
    BY <1>1
  <2>. QED  BY <2>1 DEF Due, Open
<1>3. Due(path, n).rep \in Nat
  <2>1. CASE n = 0
    BY <2>1 DEF Due, Call
  <2>2. CASE n # 0
    <3>1. path[n].rep \in Nat
      BY <2>2 DEF IsPath
    <3>2. Due(path, n) = After(path[n], ResidualAt(n))
      BY <2>2 DEF Due
    <3>. QED  BY <3>1, <3>2, AfterRep
  <2>. QED  BY <2>1, <2>2
<1>4. ASSUME NEW k \in 1..n
      PROVE  /\ path[k].rep <= Due(path, n).rep
             /\ path[k].stage = "barrier_out" => path[k].rep < Due(path, n).rep
  <2>1. path[n].rep \in Nat /\ path[k].rep \in Nat /\ n # 0
    BY DEF IsPath
  <2>2. Due(path, n) = After(path[n], ResidualAt(n))
    BY <2>1 DEF Due
  <2>3. Due(path, n).rep = IF path[n].stage = "barrier_out" THEN path[n].rep + 1 ELSE path[n].rep
    BY <2>2, AfterRep
  <2>4. CASE k = n
    BY <2>4, <2>3, <2>1
  <2>5. CASE k < n
    <3>1. path[k].rep <= path[n].rep /\ (path[k].stage = "barrier_out" => path[k].rep < path[n].rep)
      BY <2>5 DEF IsPath
    <3>. QED  BY <3>1, <2>3, <2>1
  <2>. QED  BY <2>4, <2>5
<1>5. ASSUME NEW k \in 1..(n + 1)
      PROVE  next[k].rep \in Nat /\ next[k] = Due(next, k - 1) /\ Open(next, k - 1)
  <2>1. CASE k = n + 1
    BY <2>1, <1>1, <1>2, <1>3
  <2>2. CASE k # n + 1
    <3>1. k \in 1..n /\ k - 1 \in 0..n
      BY <2>2
    <3>2. path[k].rep \in Nat /\ path[k] = Due(path, k - 1) /\ Open(path, k - 1)
      BY <3>1 DEF IsPath
    <3>. QED  BY <3>1, <3>2, <1>1, <1>2
  <2>. QED  BY <2>1, <2>2
<1>6. ASSUME NEW k \in 1..(n + 1), NEW l \in 1..(n + 1), k < l
      PROVE  /\ next[k].rep <= next[l].rep
             /\ next[k].stage = "barrier_out" => next[k].rep < next[l].rep
  <2>1. k \in 1..n
    BY <1>6
  <2>2. CASE l = n + 1
    BY <2>1, <2>2, <1>1, <1>4
  <2>3. CASE l # n + 1
    <3>1. l \in 1..n
      BY <2>3
    <3>2. next[k] = path[k] /\ next[l] = path[l]
      BY <2>1, <3>1, <1>1
    <3>3. /\ path[k].rep <= path[l].rep
          /\ path[k].stage = "barrier_out" => path[k].rep < path[l].rep
      BY <1>6, <2>1, <3>1 DEF IsPath
    <3>. QED  BY <3>2, <3>3
  <2>. QED  BY <2>2, <2>3
<1>7. IsPath(next, n + 1)
  BY <1>5, <1>6 DEF IsPath
<1>. QED  BY <1>1, <1>2, <1>7

\* A path stays one.
LEMMA PathKept ==
  ASSUME LogsGrow, NEW path, NEW n \in Nat, IsPath(path, n)
  PROVE  IsPath(path, n)'
<1>1. ASSUME NEW k \in 1..n
      PROVE  path[k] = Due(path, k - 1)' /\ Open(path, k - 1)'
  <2>1. k - 1 \in Nat /\ path[k] = Due(path, k - 1) /\ Open(path, k - 1)
    BY DEF IsPath
  <2>. QED  BY <2>1, DueKept
<1>. QED  BY <1>1 DEF IsPath

\* Who does not move stays on it.
LEMMA OthersKept ==
  ASSUME LogsGrow, NEW path, NEW n \in Nat, NEW q \in Ranks, IsOn(q, path, n),
         stage'[q] = stage[q], phase'[q] = phase[q], pass'[q] = pass[q],
         rep'[q] = rep[q], outcome'[q] = outcome[q], calls'[q] = calls[q]
  PROVE  IsOn(q, path, n)'
<1>1. /\ Entered(q)' = Entered(q) /\ Entered(q) \in Nat
      /\ Waiting(q)' = Waiting(q) /\ Inside(q)' = Inside(q)
  BY DEF IsOn, Entered, Waiting, Inside, Call
<1>2. \A k \in 1..Entered(q) : calls[q][k].call = CallAt(path[k])
  BY DEF IsOn
<1>3. \A k \in 1..Entered(q)' : calls'[q][k].call = CallAt(path[k])
  BY <1>1, <1>2
<1>4. CASE Waiting(q) \/ stage[q] = "finished"
  BY <1>1, <1>3, <1>4 DEF IsOn
<1>5. CASE ~ (Waiting(q) \/ stage[q] = "finished")
  <2>1. PICK e \in Nat : e = Entered(q)
    BY <1>1
  <2>2. Ahead(rep[q], stage[q], pass[q], phase[q], outcome[q]) = Due(path, e) /\ Open(path, e)
    BY <1>5, <2>1 DEF IsOn
  <2>3. Due(path, e)' = Due(path, e) /\ Open(path, e)'
    BY <2>2, DueKept
  <2>4. Ahead(rep[q], stage[q], pass[q], phase[q], outcome[q])' = Due(path, e)
    <3>1. \A n1, s, k, p, o : Ahead(n1, s, k, p, o)' = Ahead(n1, s, k, p, o)
      BY AheadFixed DEF LogsGrow
    <3>2. PICK n1, s, k, p, o :
            n1 = rep[q] /\ s = stage[q] /\ k = pass[q] /\ p = phase[q] /\ o = outcome[q]
      OBVIOUS
    <3>3. Ahead(rep[q], stage[q], pass[q], phase[q], outcome[q])' = Ahead(n1, s, k, p, o)'
      BY <3>2
    <3>. QED  BY <3>1, <3>2, <3>3, <2>2
  <2>5. Entered(q)' = e /\ ~ (Waiting(q)' \/ stage'[q] = "finished")
    BY <1>1, <1>5, <2>1
  <2>6. Due(path, Entered(q))' = Due(path, e)' /\ (Open(path, Entered(q))' <=> Open(path, e)')
    BY <2>5
  <2>. QED  BY <1>1, <1>3, <2>2, <2>3, <2>4, <2>5, <2>6 DEF IsOn
<1>. QED  BY <1>4, <1>5

\* A rank between two collectives, and one that is in one or past its last.
Resting(r) == Waiting(r) \/ stage[r] = "finished"

AheadOf(r) == Ahead(rep[r], stage[r], pass[r], phase[r], outcome[r])

\* The same, where its step takes it.
AheadNext(r) == Ahead(rep'[r], stage'[r], pass'[r], phase'[r], outcome'[r])

LEMMA LogsStay ==
  ASSUME ControlTypes, NEW r \in Ranks, OthersStay(r), calls' = calls
  PROVE  LogsGrow
<1>1. ASSUME NEW q \in Ranks PROVE Len(calls[q]) \in Nat
  BY DEF ControlTypes, IsSequence
<1>. QED  BY <1>1 DEF LogsGrow, OthersStay, Entered

LEMMA LogsAppended ==
  ASSUME ControlTypes, NEW r \in Ranks, OthersStay(r), NEW c, NEW d, Enter(r, c, d)
  PROVE  /\ LogsGrow /\ Entered(r)' = Entered(r) + 1
         /\ calls'[r][Entered(r) + 1].call = c
         /\ \A q \in Ranks : IsSequence(calls'[q])
         /\ calls' = [q \in Ranks |-> calls'[q]]
<1>. DEFINE e == [call |-> c, data |-> d]
<1>1. calls' = [calls EXCEPT ![r] = Append(calls[r], e)]
  BY DEF Enter
<1>. HIDE DEF e
<1>2. calls'[r] = Append(calls[r], e)
  BY <1>1 DEF ControlTypes
<1>3. ASSUME NEW q \in Ranks PROVE IsSequence(calls[q]) /\ Len(calls[q]) \in Nat
  <2>1. IsSequence(calls[q])
    BY DEF ControlTypes
  <2>. QED  BY <2>1, AppendedList
<1>4. /\ IsSequence(calls'[r]) /\ Len(calls'[r]) = Len(calls[r]) + 1
      /\ \A k \in 1..Len(calls[r]) : calls'[r][k] = calls[r][k]
      /\ calls'[r][Len(calls[r]) + 1] = e
  BY <1>2, <1>3, AppendedList
<1>5. ASSUME NEW q \in Ranks, q # r PROVE calls'[q] = calls[q]
  BY <1>5 DEF OthersStay
<1>6. calls' = [q \in Ranks |-> calls'[q]]
  BY <1>1 DEF ControlTypes
<1>7. e.call = c
  BY DEF e
<1>. QED  BY <1>3, <1>4, <1>5, <1>6, <1>7 DEF LogsGrow, OthersStay, Entered

LEMMA AheadNextIs ==
  ASSUME run' = run, NEW r
  PROVE  AheadOf(r)' = AheadNext(r)
<1>1. \A n, s, k, p, o : Ahead(n, s, k, p, o)' = Ahead(n, s, k, p, o)
  BY AheadFixed
<1>2. PICK n, s, k, p, o :
        n = rep'[r] /\ s = stage'[r] /\ k = pass'[r] /\ p = phase'[r] /\ o = outcome'[r]
  OBVIOUS
<1>3. AheadOf(r)' = Ahead(n, s, k, p, o)'
  BY <1>2 DEF AheadOf
<1>4. AheadNext(r) = Ahead(n, s, k, p, o)
  BY <1>2 DEF AheadNext
<1>. QED  BY <1>1, <1>3, <1>4

\* A rank that stands between two collectives, at a place of a path.
LEMMA Standing ==
  ASSUME NEW path, NEW n \in Nat, IsPath(path, n), NEW r \in Ranks, NEW e \in 0..n,
         LogsGrow, e = Entered(r)', Open(path, e),
         \A k \in 1..e : calls'[r][k].call = CallAt(path[k]),
         ~ Resting(r)', AheadNext(r) = Due(path, e)
  PROVE  IsOn(r, path, n)'
<1>1. Due(path, e)' = Due(path, e) /\ Open(path, e)'
  BY DueKept
<1>2. AheadOf(r)' = AheadNext(r)
  BY AheadNextIs DEF LogsGrow
<1>3. Due(path, Entered(r))' = Due(path, e)' /\ (Open(path, Entered(r))' <=> Open(path, e)')
  OBVIOUS
<1>. QED  BY <1>1, <1>2, <1>3 DEF IsOn, Resting, AheadOf

\* A rank goes on, and makes no collective.
LEMMA SilentStep ==
  ASSUME ControlTypes, OneJourney, NEW r \in Ranks, OthersStay(r), calls' = calls,
         ~ Resting(r), ~ Resting(r)', AheadNext(r) = AheadOf(r)
  PROVE  OneJourney'
<1>1. PICK n \in Nat : \E path : IsPath(path, n) /\ \A q \in Ranks : IsOn(q, path, n)
  BY DEF OneJourney
<1>2. PICK path : IsPath(path, n) /\ \A q \in Ranks : IsOn(q, path, n)
  BY <1>1
<1>3. LogsGrow
  BY LogsStay
<1>4. IsPath(path, n)'
  BY <1>2, <1>3, PathKept
<1>5. ASSUME NEW q \in Ranks, q # r PROVE IsOn(q, path, n)'
  BY <1>2, <1>3, <1>5, OthersKept DEF OthersStay
<1>6. IsOn(r, path, n)'
  <2>1. PICK e \in 0..n : e = Entered(r)
    BY <1>2 DEF IsOn
  <2>2. /\ Open(path, e) /\ AheadOf(r) = Due(path, e)
        /\ \A k \in 1..e : calls[r][k].call = CallAt(path[k])
    BY <1>2, <2>1 DEF IsOn, Resting, AheadOf
  <2>3. e = Entered(r)' /\ AheadNext(r) = Due(path, e)
    BY <2>1, <2>2 DEF Entered
  <2>. QED  BY <1>2, <1>3, <2>1, <2>2, <2>3, Standing
<1>. QED  BY <1>4, <1>5, <1>6 DEF OneJourney

\* A rank leaves a collective: all are in it, or it is a Bcast.
LEMMA LeavingStep ==
  ASSUME ControlTypes, OneJourney, NEW r \in Ranks, OthersStay(r), calls' = calls,
         Resting(r), ~ Resting(r)',
         Inside(r).phase = "handed_on" \/ AllAt(Entered(r)),
         AheadNext(r) = After(Inside(r), ResidualAt(Entered(r)))
  PROVE  OneJourney'
<1>1. PICK n \in Nat : \E path : IsPath(path, n) /\ \A q \in Ranks : IsOn(q, path, n)
  BY DEF OneJourney
<1>2. PICK path : IsPath(path, n) /\ \A q \in Ranks : IsOn(q, path, n)
  BY <1>1
<1>3. LogsGrow
  BY LogsStay
<1>4. IsPath(path, n)'
  BY <1>2, <1>3, PathKept
<1>5. ASSUME NEW q \in Ranks, q # r PROVE IsOn(q, path, n)'
  BY <1>2, <1>3, <1>5, OthersKept DEF OthersStay
<1>6. IsOn(r, path, n)'
  <2>1. PICK e \in 0..n : e = Entered(r)
    BY <1>2 DEF IsOn
  <2>2. /\ e > 0 /\ path[e] = Inside(r)
        /\ \A k \in 1..e : calls[r][k].call = CallAt(path[k])
    BY <1>2, <2>1 DEF IsOn, Resting
  <2>3. e = Entered(r)' /\ AheadNext(r) = Due(path, e) /\ Open(path, e)
    BY <2>1, <2>2 DEF Entered, Due, Open
  <2>. QED  BY <1>2, <1>3, <2>1, <2>2, <2>3, Standing
<1>. QED  BY <1>4, <1>5, <1>6 DEF OneJourney

\* A rank comes to an end in the last collective of the job.
LEMMA LastStep ==
  ASSUME ControlTypes, OneJourney, NEW r \in Ranks, OthersStay(r), calls' = calls,
         Resting(r), Resting(r)', Inside(r)' = Inside(r)
  PROVE  OneJourney'
<1>1. PICK n \in Nat : \E path : IsPath(path, n) /\ \A q \in Ranks : IsOn(q, path, n)
  BY DEF OneJourney
<1>2. PICK path : IsPath(path, n) /\ \A q \in Ranks : IsOn(q, path, n)
  BY <1>1
<1>3. LogsGrow
  BY LogsStay
<1>4. IsPath(path, n)'
  BY <1>2, <1>3, PathKept
<1>5. ASSUME NEW q \in Ranks, q # r PROVE IsOn(q, path, n)'
  BY <1>2, <1>3, <1>5, OthersKept DEF OthersStay
<1>6. IsOn(r, path, n)'
  <2>1. Entered(r)' = Entered(r) /\ calls'[r] = calls[r]
    BY DEF Entered
  <2>2. IsOn(r, path, n)
    BY <1>2
  <2>. QED  BY <2>1, <2>2 DEF IsOn, Resting
<1>. QED  BY <1>4, <1>5, <1>6 DEF OneJourney

\* A rank enters the collective it has come to, or the one that follows the
\* one it leaves.
LEMMA EnteringStep ==
  ASSUME ControlTypes, OneJourney, NEW r \in Ranks, OthersStay(r),
         NEW c, NEW d, Enter(r, c, d),
         NEW w, c = CallAt(w), Resting(r)', Inside(r)' = w,
         \/ ~ Resting(r) /\ w = AheadOf(r)
         \/ Resting(r) /\ AllAt(Entered(r)) /\ w = After(Inside(r), ResidualAt(Entered(r)))
  PROVE  OneJourney'
<1>1. PICK n \in Nat : \E path : IsPath(path, n) /\ \A q \in Ranks : IsOn(q, path, n)
  BY DEF OneJourney
<1>2. PICK path : IsPath(path, n) /\ \A q \in Ranks : IsOn(q, path, n)
  BY <1>1
<1>3. /\ LogsGrow /\ Entered(r)' = Entered(r) + 1
      /\ calls'[r][Entered(r) + 1].call = c
  BY LogsAppended
<1>4. PICK e \in 0..n : e = Entered(r)
  BY <1>2 DEF IsOn
<1>5. \A k \in 1..e : calls[r][k].call = CallAt(path[k]) /\ calls'[r][k] = calls[r][k]
  BY <1>2, <1>3, <1>4 DEF IsOn, LogsGrow
<1>6. Open(path, e) /\ w = Due(path, e)
  <2>1. CASE ~ Resting(r)
    BY <1>2, <1>4, <2>1 DEF IsOn, Resting, AheadOf
  <2>2. CASE Resting(r)
    <3>1. e > 0 /\ path[e] = Inside(r)
      BY <1>2, <1>4, <2>2 DEF IsOn, Resting
    <3>. QED  BY <1>4, <2>2, <3>1 DEF Open, Due
  <2>. QED  BY <2>1, <2>2
<1>7. ASSUME NEW m \in Nat, NEW way, IsPath(way, m), m >= e + 1, way[e + 1] = w,
             \A k \in 1..e : way[k] = path[k],
             \A q \in Ranks : q # r => IsOn(q, way, m)
      PROVE  OneJourney'
  <2>1. IsPath(way, m)'
    BY <1>3, <1>7, PathKept
  <2>2. ASSUME NEW q \in Ranks, q # r PROVE IsOn(q, way, m)'
    BY <1>3, <1>7, <2>2, OthersKept DEF OthersStay
  <2>3. IsOn(r, way, m)'
    <3>1. Entered(r)' = e + 1 /\ e + 1 \in 0..m
      BY <1>3, <1>4, <1>7
    <3>2. ASSUME NEW k \in 1..(e + 1) PROVE calls'[r][k].call = CallAt(way[k])
      <4>1. CASE k = e + 1
        BY <1>3, <1>4, <1>7, <4>1
      <4>2. CASE k # e + 1
        <5>1. k \in 1..e
          BY <4>2
        <5>. QED  BY <1>5, <1>7, <5>1
      <4>. QED  BY <4>1, <4>2
    <3>. QED  BY <3>1, <3>2, <1>7 DEF IsOn, Resting
  <2>. QED  BY <2>1, <2>2, <2>3 DEF OneJourney
<1>8. CASE e < n
  <2>1. e + 1 \in 1..n /\ path[e + 1] = Due(path, e)
    <3>1. e + 1 \in 1..n /\ (e + 1) - 1 = e
      BY <1>8
    <3>. QED  BY <1>2, <3>1 DEF IsPath
  <2>. QED  BY <1>2, <1>6, <1>7, <2>1
<1>9. CASE e = n
  <2>. DEFINE next == [k \in 1..(n + 1) |-> IF k = n + 1 THEN Due(path, n) ELSE path[k]]
  <2>0. \E way : way = next
    OBVIOUS
  <2>. HIDE DEF next
  <2>1. PICK way : way = next
    BY <2>0
  <2>2. /\ IsPath(way, n + 1) /\ way[n + 1] = Due(path, n)
        /\ \A k \in 1..n : way[k] = path[k]
        /\ \A k \in 0..n : Due(way, k) = Due(path, k) /\ (Open(path, k) => Open(way, k))
    BY <1>2, <1>6, <1>9, <2>1, PathGoesOn DEF next
  <2>3. ASSUME NEW q \in Ranks, q # r PROVE IsOn(q, way, n + 1)
    <3>1. IsOn(q, path, n)
      BY <1>2
    <3>2. PICK f \in 0..n : f = Entered(q)
      BY <3>1 DEF IsOn
    <3>3. /\ \A k \in 1..f : calls[q][k].call = CallAt(way[k])
          /\ f > 0 => way[f] = path[f]
      BY <2>2, <3>1, <3>2 DEF IsOn
    <3>4. Due(way, f) = Due(path, f) /\ (Open(path, f) => Open(way, f))
      BY <2>2
    <3>. QED  BY <3>1, <3>2, <3>3, <3>4 DEF IsOn
  <2>. QED  BY <1>6, <1>7, <1>9, <2>2, <2>3
<1>. QED  BY <1>8, <1>9

-----------------------------------------------------------------------------
(* A step of one rank, by where it takes its control. *)

Moves(r, s, p, k, n, o) ==
  /\ run' = run
  /\ stage' = [stage EXCEPT ![r] = s] /\ phase' = [phase EXCEPT ![r] = p]
  /\ pass' = [pass EXCEPT ![r] = k] /\ rep' = [rep EXCEPT ![r] = n]
  /\ outcome' = [outcome EXCEPT ![r] = o]

LEMMA LegalTypes ==
  ASSUME ControlTypes, NEW s, NEW p, NEW k, NEW n, LegalAt(s, p, k, n)
  PROVE  s \in Stages /\ p \in Phases /\ k \in Nat /\ n \in Nat
<1>1. Last \in Nat /\ Repetitions \in Nat
  BY PassCount, SweepAssumption DEF ControlTypes
<1>. QED  BY <1>1 DEF LegalAt

LEMMA MovesTo ==
  ASSUME ControlTypes, \A q \in Ranks : Legal(q), NEW r \in Ranks,
         NEW s, NEW p, NEW k, NEW n, NEW o, LegalAt(s, p, k, n),
         Moves(r, s, p, k, n, o),
         \A q \in Ranks : IsSequence(calls'[q]),
         calls' = [q \in Ranks |-> calls'[q]],
         \A q \in Ranks : q # r => calls'[q] = calls[q]
  PROVE  /\ ControlTypes' /\ (\A q \in Ranks : Legal(q)') /\ OthersStay(r)
         /\ stage'[r] = s /\ phase'[r] = p /\ pass'[r] = k /\ rep'[r] = n /\ outcome'[r] = o
<1>1. s \in Stages /\ p \in Phases /\ k \in Nat /\ n \in Nat
  BY LegalTypes
<1>2. /\ stage \in [Ranks -> Stages] /\ phase \in [Ranks -> Phases]
      /\ pass \in [Ranks -> Nat] /\ rep \in [Ranks -> Nat]
      /\ outcome = [q \in Ranks |-> outcome[q]] /\ run \in Runs
  BY DEF ControlTypes
<1>3. /\ stage' \in [Ranks -> Stages] /\ phase' \in [Ranks -> Phases]
      /\ pass' \in [Ranks -> Nat] /\ rep' \in [Ranks -> Nat]
      /\ outcome' = [q \in Ranks |-> outcome'[q]] /\ run' = run
  BY <1>1, <1>2 DEF Moves
<1>4. stage'[r] = s /\ phase'[r] = p /\ pass'[r] = k /\ rep'[r] = n /\ outcome'[r] = o
  BY <1>2 DEF Moves
<1>5. ASSUME NEW q \in Ranks, q # r
      PROVE  /\ stage'[q] = stage[q] /\ phase'[q] = phase[q] /\ pass'[q] = pass[q]
             /\ rep'[q] = rep[q] /\ outcome'[q] = outcome[q]
  BY <1>2, <1>5 DEF Moves
<1>6. ControlTypes'
  BY <1>2, <1>3 DEF ControlTypes
<1>7. Last' = Last
  BY <1>3, ScheduleFixed
<1>8. ASSUME NEW q \in Ranks PROVE Legal(q)'
  <2>1. CASE q = r
    BY <2>1, <1>4, <1>7 DEF Legal, LegalAt
  <2>2. CASE q # r
    <3>1. Legal(q)
      OBVIOUS
    <3>. QED  BY <2>2, <3>1, <1>5, <1>7 DEF Legal, LegalAt
  <2>. QED  BY <2>1, <2>2
<1>. QED  BY <1>3, <1>4, <1>5, <1>6, <1>8 DEF OthersStay

\* A rank alone has no journey to keep to.
LEMMA AloneMove ==
  ASSUME Control, P = 1, NEW r \in Ranks,
         NEW s, NEW p, NEW k, NEW n, NEW o, LegalAt(s, p, k, n),
         Moves(r, s, p, k, n, o), calls' = calls
  PROVE  Control'
<1>1. ControlTypes' /\ (\A q \in Ranks : Legal(q)')
  BY MovesTo DEF Control, ControlTypes
<1>. QED  BY <1>1 DEF Control

LEMMA SilentMove ==
  ASSUME Control, NEW r \in Ranks,
         NEW s, NEW p, NEW k, NEW n, NEW o, LegalAt(s, p, k, n),
         Moves(r, s, p, k, n, o), calls' = calls,
         ~ Resting(r), s # "finished", p \notin WaitingPhases,
         Ahead(n, s, k, p, o) = AheadOf(r)
  PROVE  Control'
<1>1. /\ ControlTypes' /\ (\A q \in Ranks : Legal(q)') /\ OthersStay(r)
      /\ stage'[r] = s /\ phase'[r] = p /\ pass'[r] = k /\ rep'[r] = n /\ outcome'[r] = o
  BY MovesTo DEF Control, ControlTypes
<1>2. ~ Resting(r)' /\ AheadNext(r) = AheadOf(r)
  BY <1>1 DEF Resting, Waiting, AheadNext
<1>3. ASSUME P # 1 PROVE OneJourney'
  BY <1>1, <1>2, <1>3, SilentStep DEF Control
<1>. QED  BY <1>1, <1>3 DEF Control

LEMMA LeavingMove ==
  ASSUME Control, NEW r \in Ranks,
         NEW s, NEW p, NEW k, NEW n, NEW o, LegalAt(s, p, k, n),
         Moves(r, s, p, k, n, o), calls' = calls,
         Resting(r), s # "finished", p \notin WaitingPhases,
         Inside(r).phase = "handed_on" \/ AllAt(Entered(r)),
         Ahead(n, s, k, p, o) = After(Inside(r), ResidualAt(Entered(r)))
  PROVE  Control'
<1>1. /\ ControlTypes' /\ (\A q \in Ranks : Legal(q)') /\ OthersStay(r)
      /\ stage'[r] = s /\ phase'[r] = p /\ pass'[r] = k /\ rep'[r] = n /\ outcome'[r] = o
  BY MovesTo DEF Control, ControlTypes
<1>2. ~ Resting(r)' /\ AheadNext(r) = After(Inside(r), ResidualAt(Entered(r)))
  BY <1>1 DEF Resting, Waiting, AheadNext
<1>3. ASSUME P # 1 PROVE OneJourney'
  BY <1>1, <1>2, <1>3, LeavingStep DEF Control
<1>. QED  BY <1>1, <1>3 DEF Control

LEMMA EnteringMove ==
  ASSUME Control, NEW r \in Ranks,
         NEW s, NEW p, NEW k, NEW n, NEW o, LegalAt(s, p, k, n),
         Moves(r, s, p, k, n, o), NEW c, NEW d, Enter(r, c, d),
         p \in WaitingPhases, c = CallAt(Within(n, s, k, p, o)),
         \/ ~ Resting(r) /\ Within(n, s, k, p, o) = AheadOf(r)
         \/ /\ Resting(r) /\ AllAt(Entered(r))
            /\ Within(n, s, k, p, o) = After(Inside(r), ResidualAt(Entered(r)))
  PROVE  Control'
<1>0. /\ \A q \in Ranks : IsSequence(calls'[q])
      /\ calls' = [q \in Ranks |-> calls'[q]]
      /\ \A q \in Ranks : q # r => calls'[q] = calls[q]
  <2>1. calls' = [calls EXCEPT ![r] = Append(calls[r], [call |-> c, data |-> d])]
    BY DEF Enter
  <2>2. calls = [q \in Ranks |-> calls[q]] /\ \A q \in Ranks : IsSequence(calls[q])
    BY DEF Control, ControlTypes
  <2>3. /\ calls'[r] = Append(calls[r], [call |-> c, data |-> d])
        /\ calls' = [q \in Ranks |-> calls'[q]]
        /\ \A q \in Ranks : q # r => calls'[q] = calls[q]
    BY <2>1, <2>2
  <2>4. IsSequence(calls'[r])
    BY <2>2, <2>3, AppendedList
  <2>. QED  BY <2>2, <2>3, <2>4
<1>1. /\ ControlTypes' /\ (\A q \in Ranks : Legal(q)') /\ OthersStay(r)
      /\ stage'[r] = s /\ phase'[r] = p /\ pass'[r] = k /\ rep'[r] = n /\ outcome'[r] = o
  BY <1>0, MovesTo DEF Control
<1>2. Resting(r)' /\ Inside(r)' = Within(n, s, k, p, o)
  <2>1. Resting(r)'
    BY <1>1 DEF Resting, Waiting
  <2>. QED  BY <1>1, <2>1 DEF Inside, Within
<1>3. ASSUME P # 1 PROVE OneJourney'
  <2>. DEFINE w == Within(n, s, k, p, o)
  <2>1. Inside(r)' = w /\ c = CallAt(w)
    BY <1>2
  <2>2. \/ ~ Resting(r) /\ w = AheadOf(r)
        \/ Resting(r) /\ AllAt(Entered(r)) /\ w = After(Inside(r), ResidualAt(Entered(r)))
    OBVIOUS
  <2>. HIDE DEF w
  <2>. QED  BY <1>1, <1>2, <1>3, <2>1, <2>2, EnteringStep DEF Control
<1>. QED  BY <1>1, <1>3 DEF Control

-----------------------------------------------------------------------------
(* The steps of a rank, one after the other. *)

LEMMA GotoMoves ==
  ASSUME ControlTypes, NEW r \in Ranks, NEW s, NEW p, Goto(r, s, p),
         run' = run, pass' = pass, rep' = rep, outcome' = outcome
  PROVE  Moves(r, s, p, pass[r], rep[r], outcome[r])
BY DEF ControlTypes, Goto, Moves

LEMMA HereLegal ==
  ASSUME Control, NEW r \in Ranks
  PROVE  LegalAt(stage[r], phase[r], pass[r], rep[r]) /\ ControlTypes
BY DEF Control, Legal

\* All have entered the collective a rank is in.
LEMMA AllEnteredIsAllAt ==
  ASSUME NEW r \in Ranks, AllEntered(r)
  PROVE  AllAt(Entered(r))
BY DEF AllEntered, AllAt

\* A stage begins on the way to its first collective.
LEMMA BeginOpens ==
  ASSUME NEW n, NEW k, NEW o,
         NEW s \in {"rhs_norm", "initial", "pass", "residual", "synchronise"}
  PROVE  /\ Ahead(n, s, k, FirstPhase(s, k), o) = Opening(n, s, k, o)
         /\ FirstPhase(s, k) \notin WaitingPhases
<1>1. CASE s = "rhs_norm"
  BY <1>1 DEF Ahead, Opening, FirstPhase, WaitingPhases, Call
<1>2. CASE s \in {"initial", "residual"}
  BY <1>2 DEF Ahead, Opening, FirstPhase, WaitingPhases, Call
<1>3. CASE s = "synchronise"
  BY <1>3 DEF Ahead, Opening, FirstPhase, WaitingPhases, Call
<1>4. CASE s = "pass"
  BY <1>4 DEF Ahead, AheadInPass, Opening, FirstPhase, WaitingPhases, Call, Ordered
<1>. QED  BY <1>1, <1>2, <1>3, <1>4

LEMMA BeginLegal ==
  ASSUME NEW k \in 0..Last, NEW n \in 0..Repetitions, n # Repetitions,
         NEW s \in {"rhs_norm", "initial", "pass", "residual", "synchronise"},
         s = "pass" => k < Last, NEW j
  PROVE  LegalAt(s, FirstPhase(s, j), k, n)
BY DEF LegalAt, FirstPhase, PhasesOf, Stages, Phases

LEMMA ResetKeeps ==
  ASSUME Control, NEW r \in Ranks, Reset(r)
  PROVE  Control'
<1>1. stage[r] = "reset" /\ phase[r] = "start"
  BY DEF Reset, At
<1>2. Moves(r, "barrier_in", "start", 0, rep[r], outcome[r])
  BY HereLegal DEF Reset, Goto, Moves, ControlTypes
<1>3. LegalAt("barrier_in", "start", 0, rep[r])
  BY <1>1, HereLegal, PassCount DEF LegalAt, PhasesOf, Stages, Phases, ControlTypes
<1>4. ~ Resting(r)
  BY <1>1 DEF Resting, Waiting, WaitingPhases
<1>5. Ahead(rep[r], "barrier_in", 0, "start", outcome[r]) = AheadOf(r)
  BY <1>1 DEF AheadOf, Ahead, Call
<1>6. calls' = calls
  BY DEF Reset
<1>. QED  BY <1>2, <1>3, <1>4, <1>5, <1>6, SilentMove DEF WaitingPhases

LEMMA EnterBarrierKeeps ==
  ASSUME Control, NEW r \in Ranks, EnterBarrier(r)
  PROVE  Control'
<1>1. stage[r] \in {"barrier_in", "barrier_out"} /\ phase[r] = "start"
  BY DEF EnterBarrier
<1>2. Moves(r, stage[r], "wait", pass[r], rep[r], outcome[r])
  BY HereLegal, GotoMoves DEF EnterBarrier, GotoPhase
<1>3. LegalAt(stage[r], "wait", pass[r], rep[r])
  BY <1>1, HereLegal DEF LegalAt, PhasesOf, Phases
<1>4. ~ Resting(r)
  BY <1>1 DEF Resting, Waiting, WaitingPhases
<1>5. Within(rep[r], stage[r], pass[r], "wait", outcome[r]) = AheadOf(r)
  BY <1>1 DEF AheadOf, Ahead, Within, Call
<1>6. "Barrier" = CallAt(Within(rep[r], stage[r], pass[r], "wait", outcome[r]))
  BY <1>1 DEF Within, Call, CallAt
<1>7. Enter(r, "Barrier", 0)
  BY DEF EnterBarrier
<1>. QED  BY <1>2, <1>3, <1>4, <1>5, <1>6, <1>7, EnteringMove DEF WaitingPhases

LEMMA LeaveBarrierKeeps ==
  ASSUME Control, NEW r \in Ranks, LeaveBarrier(r)
  PROVE  Control'
<1>1. /\ stage[r] \in {"barrier_in", "barrier_out"} /\ phase[r] = "wait"
      /\ AllAt(Entered(r)) /\ calls' = calls /\ run' = run
      /\ pass' = pass /\ outcome' = outcome
  BY AllEnteredIsAllAt DEF LeaveBarrier
<1>2. Inside(r) = Call(rep[r], stage[r], pass[r], "start", outcome[r]) /\ Resting(r)
  BY <1>1 DEF Inside, Within, Resting, Waiting, WaitingPhases
<1>3. LegalAt(stage[r], phase[r], pass[r], rep[r]) /\ ControlTypes
  BY HereLegal
<1>4. Repetitions \in Nat /\ rep[r] \in 0..Repetitions /\ rep[r] # Repetitions /\ pass[r] \in 0..Last
  BY <1>1, <1>3, SweepAssumption DEF LegalAt
<1>5. CASE stage[r] = "barrier_in"
  <2>1. Goto(r, "rhs_norm", FirstPhase("rhs_norm", 0)) /\ rep' = rep
    BY <1>5 DEF LeaveBarrier, Begin
  <2>2. FirstPhase("rhs_norm", 0) = FirstPhase("rhs_norm", pass[r])
    BY DEF FirstPhase
  <2>3. Moves(r, "rhs_norm", FirstPhase("rhs_norm", pass[r]), pass[r], rep[r], outcome[r])
    BY <1>1, <1>3, <2>1, <2>2, GotoMoves
  <2>4. LegalAt("rhs_norm", FirstPhase("rhs_norm", pass[r]), pass[r], rep[r])
    BY <1>4, BeginLegal
  <2>5. After(Inside(r), ResidualAt(Entered(r))) = Opening(rep[r], "rhs_norm", pass[r], outcome[r])
    BY <1>2, <1>5 DEF After, Call
  <2>. QED  BY <1>1, <1>2, <2>3, <2>4, <2>5, BeginOpens, LeavingMove
<1>6. CASE stage[r] = "barrier_out" /\ rep[r] + 1 < Repetitions
  <2>1. Moves(r, "reset", "start", pass[r], rep[r] + 1, outcome[r])
    BY <1>1, <1>3, <1>6 DEF LeaveBarrier, Moves, Goto, ControlTypes
  <2>2. LegalAt("reset", "start", pass[r], rep[r] + 1)
    BY <1>4, <1>6 DEF LegalAt, PhasesOf, Stages, Phases
  <2>3. After(Inside(r), ResidualAt(Entered(r)))
          = Ahead(rep[r] + 1, "reset", pass[r], "start", outcome[r])
    BY <1>2, <1>6 DEF After, Ahead, Call
  <2>. QED  BY <1>1, <1>2, <2>1, <2>2, <2>3, LeavingMove DEF WaitingPhases
<1>7. CASE stage[r] = "barrier_out" /\ ~ (rep[r] + 1 < Repetitions)
  <2>1. Moves(r, "finished", "start", pass[r], rep[r] + 1, outcome[r])
    BY <1>1, <1>3, <1>7 DEF LeaveBarrier, Moves, Goto, ControlTypes
  <2>2. LegalAt("finished", "start", pass[r], rep[r] + 1)
    BY <1>4, <1>7 DEF LegalAt, PhasesOf, Stages, Phases
  <2>3. /\ ControlTypes' /\ (\A q \in Ranks : Legal(q)') /\ OthersStay(r)
        /\ stage'[r] = "finished" /\ phase'[r] = "start" /\ pass'[r] = pass[r]
        /\ rep'[r] = rep[r] + 1 /\ outcome'[r] = outcome[r]
    BY <1>1, <1>3, <2>1, <2>2, MovesTo DEF Control, ControlTypes
  <2>4. Resting(r)'
    BY <2>3 DEF Resting
  <2>5. Inside(r)' = Inside(r)
    <3>1. Inside(r)' = Call((rep[r] + 1) - 1, "barrier_out", pass[r], "start", outcome[r])
      BY <2>3 DEF Inside, Within
    <3>2. (rep[r] + 1) - 1 = rep[r]
      BY <1>4
    <3>. QED  BY <3>1, <3>2, <1>2, <1>7
  <2>6. ASSUME P # 1 PROVE OneJourney'
    BY <1>1, <1>2, <1>3, <2>3, <2>4, <2>5, <2>6, LastStep DEF Control
  <2>. QED  BY <2>3, <2>6 DEF Control
<1>. QED  BY <1>1, <1>5, <1>6, <1>7

\* On its way through a halo exchange a rank comes to no collective.
LEMMA HaloKeeps ==
  ASSUME Control, NEW r \in Ranks, NEW p, Grid,
         phase[r] \in HaloPhases \cup {"exchange"},
         p \in HaloPhases \cup {"body"}, GotoPhase(r, p),
         calls' = calls, run' = run, pass' = pass, rep' = rep, outcome' = outcome
  PROVE  Control'
<1>1. LegalAt(stage[r], phase[r], pass[r], rep[r]) /\ ControlTypes
  BY HereLegal
<1>2. stage[r] \in {"initial", "residual", "pass"}
  BY <1>1 DEF LegalAt, PhasesOf, Stages, HaloPhases
<1>3. Moves(r, stage[r], p, pass[r], rep[r], outcome[r])
  BY <1>1, GotoMoves DEF GotoPhase
<1>4. LegalAt(stage[r], p, pass[r], rep[r])
  BY <1>1, <1>2 DEF LegalAt, PhasesOf, Phases, HaloPhases
<1>5. ~ Resting(r) /\ p \notin WaitingPhases /\ stage[r] # "finished"
  BY <1>2 DEF Resting, Waiting, WaitingPhases, HaloPhases
<1>6. Ahead(rep[r], stage[r], pass[r], p, outcome[r]) = AheadOf(r)
  BY <1>2 DEF AheadOf, Ahead
<1>. QED  BY <1>3, <1>4, <1>5, <1>6, SilentMove

LEMMA ExchangeHaloKeeps ==
  ASSUME Control, NEW r \in Ranks, ExchangeHalo(r)
  PROVE  Control'
<1>1. /\ phase[r] = "exchange" /\ calls' = calls /\ run' = run
      /\ pass' = pass /\ rep' = rep /\ outcome' = outcome
  BY DEF ExchangeHalo
<1>2. CASE P = 1
  <2>1. LegalAt(stage[r], phase[r], pass[r], rep[r]) /\ ControlTypes
    BY HereLegal
  <2>2. Moves(r, stage[r], "body", pass[r], rep[r], outcome[r])
    BY <1>1, <1>2, <2>1, GotoMoves DEF GotoPhase, ExchangeHalo
  <2>3. LegalAt(stage[r], "body", pass[r], rep[r])
    BY <1>1, <2>1 DEF LegalAt, PhasesOf, Phases, Stages
  <2>. QED  BY <1>1, <1>2, <2>2, <2>3, AloneMove
<1>3. CASE P # 1 /\ Grid
  BY <1>1, <1>3, HaloKeeps DEF ExchangeHalo, HaloPhases
<1>4. CASE P # 1 /\ ~ Grid
  <2>1. GotoPhase(r, "gather")
    BY <1>4 DEF ExchangeHalo
  <2>2. LegalAt(stage[r], phase[r], pass[r], rep[r]) /\ ControlTypes
    BY HereLegal
  <2>3. stage[r] \in {"initial", "residual", "pass"}
    BY <1>1, <2>2 DEF LegalAt, PhasesOf, Stages
  <2>4. Moves(r, stage[r], "gather", pass[r], rep[r], outcome[r])
    BY <1>1, <2>1, <2>2, GotoMoves DEF GotoPhase
  <2>5. LegalAt(stage[r], "gather", pass[r], rep[r])
    BY <1>4, <2>2, <2>3 DEF LegalAt, PhasesOf, Phases
  <2>6. ~ Resting(r) /\ stage[r] # "finished"
    BY <1>1, <2>3 DEF Resting, Waiting, WaitingPhases
  <2>7. Ahead(rep[r], stage[r], pass[r], "gather", outcome[r]) = AheadOf(r)
    BY <1>1, <1>4, <2>3 DEF AheadOf, Ahead, AheadInPass
  <2>. QED  BY <1>1, <2>4, <2>5, <2>6, <2>7, SilentMove DEF WaitingPhases
<1>. QED  BY <1>2, <1>3, <1>4

LEMMA HaloIsOnGrid ==
  ASSUME Control, NEW r \in Ranks, phase[r] \in HaloPhases
  PROVE  Grid
BY HereLegal DEF LegalAt, PhasesOf, HaloPhases, Stages

LEMMA TakeHaloKeeps ==
  ASSUME Control, NEW r \in Ranks, phase[r] \in HaloPhases,
         NEW src, NEW tag, NEW into, NEW p \in HaloPhases, TakeHalo(r, src, tag, into, p)
  PROVE  Control'
BY HaloIsOnGrid, HaloKeeps DEF TakeHalo

LEMMA HaloStepsKeep ==
  ASSUME Control, NEW r \in Ranks,
         TakeLowerHalo(r) \/ TakeUpperHalo(r) \/ SendHaloDown(r) \/ HaloDone(r)
  PROVE  Control'
<1>1. CASE TakeLowerHalo(r)
  BY <1>1, TakeHaloKeeps DEF TakeLowerHalo, HaloPhases
<1>2. CASE TakeUpperHalo(r)
  BY <1>2, TakeHaloKeeps DEF TakeUpperHalo, HaloPhases
<1>3. CASE SendHaloDown(r)
  BY <1>3, HaloIsOnGrid, HaloKeeps DEF SendHaloDown, HaloPhases
<1>4. CASE HaloDone(r)
  BY <1>4, HaloIsOnGrid, HaloKeeps DEF HaloDone, HaloPhases
<1>. QED  BY <1>1, <1>2, <1>3, <1>4

\* The ranges first ...
LEMMA GatherTogetherKeeps ==
  ASSUME Control, P # 1, NEW r \in Ranks, Gather(r)
  PROVE  Control'
<1>. DEFINE p == IF phase[r] = "gather" THEN "ranges" ELSE "reranges"
            d == GatherRange(r)
<1>1. /\ phase[r] \in {"gather", "regather"} /\ Enter(r, "Allgather_ints", d)
      /\ GotoPhase(r, p) /\ run' = run
      /\ pass' = pass /\ rep' = rep /\ outcome' = outcome
  BY DEF Gather
<1>2. LegalAt(stage[r], phase[r], pass[r], rep[r]) /\ ControlTypes
  BY HereLegal
<1>3. /\ stage[r] \in {"initial", "residual", "pass", "synchronise"}
      /\ stage[r] = "synchronise" \/ ~ Grid
      /\ phase[r] = "regather" => stage[r] = "pass"
  BY <1>1, <1>2 DEF LegalAt, PhasesOf, Stages, HaloPhases
<1>4. Moves(r, stage[r], p, pass[r], rep[r], outcome[r])
  BY <1>1, <1>2, GotoMoves DEF GotoPhase
<1>5. LegalAt(stage[r], p, pass[r], rep[r])
  BY <1>1, <1>2, <1>3 DEF LegalAt, PhasesOf, Phases
<1>6. ~ Resting(r) /\ p \in WaitingPhases
  BY <1>1, <1>3 DEF Resting, Waiting, WaitingPhases
<1>7. /\ Within(rep[r], stage[r], pass[r], p, outcome[r])
           = Call(rep[r], stage[r], pass[r], phase[r], outcome[r])
      /\ AheadOf(r) = Call(rep[r], stage[r], pass[r], phase[r], outcome[r])
  BY <1>1, <1>3 DEF Within, AheadOf, Ahead, AheadInPass
<1>8. "Allgather_ints" = CallAt(Within(rep[r], stage[r], pass[r], p, outcome[r]))
  BY <1>1, <1>7 DEF Call, CallAt
<1>. HIDE DEF p, d
<1>. QED  BY <1>1, <1>4, <1>5, <1>6, <1>7, <1>8, EnteringMove

LEMMA GatherAloneKeeps ==
  ASSUME Control, P = 1, NEW r \in Ranks, Gather(r)
  PROVE  Control'
<1>. DEFINE p == Gathered(r, phase[r] = "regather")
<1>1. /\ phase[r] \in {"gather", "regather"} /\ calls' = calls
      /\ GotoPhase(r, p) /\ run' = run
      /\ pass' = pass /\ rep' = rep /\ outcome' = outcome
  BY DEF Gather
<1>2. LegalAt(stage[r], phase[r], pass[r], rep[r]) /\ ControlTypes
  BY HereLegal
<1>3. Moves(r, stage[r], p, pass[r], rep[r], outcome[r])
  BY <1>1, <1>2, GotoMoves DEF GotoPhase
<1>4. LegalAt(stage[r], p, pass[r], rep[r])
  BY <1>1, <1>2 DEF LegalAt, PhasesOf, Phases, Stages, HaloPhases, Gathered
<1>. HIDE DEF p
<1>. QED  BY <1>1, <1>3, <1>4, AloneMove

LEMMA GatherKeeps ==
  ASSUME Control, NEW r \in Ranks, Gather(r)
  PROVE  Control'
BY GatherTogetherKeeps, GatherAloneKeeps

\* ... then the rows they describe.
LEMMA GatherRowsKeeps ==
  ASSUME Control, NEW r \in Ranks, GatherRows(r)
  PROVE  Control'
<1>. DEFINE p == IF phase[r] = "ranges" THEN "rows" ELSE "rerows"
            d == [u \in UnitsOf(GatherRange(r)) |-> Mine(r)[u]]
<1>1. /\ phase[r] \in {"ranges", "reranges"} /\ Enter(r, "Allgatherv", d)
      /\ GotoPhase(r, p) /\ run' = run /\ AllAt(Entered(r))
      /\ pass' = pass /\ rep' = rep /\ outcome' = outcome
  BY AllEnteredIsAllAt DEF GatherRows
<1>2. LegalAt(stage[r], phase[r], pass[r], rep[r]) /\ ControlTypes
  BY HereLegal
<1>3. /\ stage[r] \in {"initial", "residual", "pass", "synchronise"}
      /\ phase[r] = "reranges" => stage[r] = "pass"
  BY <1>1, <1>2 DEF LegalAt, PhasesOf, Stages, HaloPhases
<1>4. Moves(r, stage[r], p, pass[r], rep[r], outcome[r])
  BY <1>1, <1>2, GotoMoves DEF GotoPhase
<1>5. LegalAt(stage[r], p, pass[r], rep[r])
  BY <1>1, <1>2, <1>3 DEF LegalAt, PhasesOf, Phases, HaloPhases
<1>6. Resting(r) /\ p \in WaitingPhases
  BY <1>1 DEF Resting, Waiting, WaitingPhases
<1>7. CASE phase[r] = "ranges"
  <2>1. /\ Within(rep[r], stage[r], pass[r], p, outcome[r])
             = Call(rep[r], stage[r], pass[r], "ranges", outcome[r])
        /\ Inside(r) = Call(rep[r], stage[r], pass[r], "gather", outcome[r])
    BY <1>3, <1>7 DEF Within, Inside
  <2>2. After(Inside(r), ResidualAt(Entered(r)))
          = Call(rep[r], stage[r], pass[r], "ranges", outcome[r])
    BY <1>3, <2>1 DEF After, AfterGather, Call
  <2>3. "Allgatherv" = CallAt(Within(rep[r], stage[r], pass[r], p, outcome[r]))
    BY <2>1 DEF Call, CallAt
  <2>. HIDE DEF p, d
  <2>. QED  BY <1>1, <1>4, <1>5, <1>6, <2>1, <2>2, <2>3, EnteringMove
<1>8. CASE phase[r] = "reranges"
  <2>1. /\ Within(rep[r], stage[r], pass[r], p, outcome[r])
             = Call(rep[r], stage[r], pass[r], "reranges", outcome[r])
        /\ Inside(r) = Call(rep[r], stage[r], pass[r], "regather", outcome[r])
    BY <1>3, <1>8 DEF Within, Inside
  <2>2. After(Inside(r), ResidualAt(Entered(r)))
          = Call(rep[r], stage[r], pass[r], "reranges", outcome[r])
    BY <1>3, <1>8, <2>1 DEF After, AfterGather, Call
  <2>3. "Allgatherv" = CallAt(Within(rep[r], stage[r], pass[r], p, outcome[r]))
    BY <2>1 DEF Call, CallAt
  <2>. HIDE DEF p, d
  <2>. QED  BY <1>1, <1>4, <1>5, <1>6, <2>1, <2>2, <2>3, EnteringMove
<1>. QED  BY <1>1, <1>7, <1>8

LEMMA StoreRowsKeeps ==
  ASSUME Control, NEW r \in Ranks, StoreRows(r)
  PROVE  Control'
<1>. DEFINE p == Gathered(r, phase[r] = "rerows")
<1>1. /\ phase[r] \in {"rows", "rerows"} /\ calls' = calls
      /\ GotoPhase(r, p) /\ run' = run /\ AllAt(Entered(r))
      /\ pass' = pass /\ rep' = rep /\ outcome' = outcome
  BY AllEnteredIsAllAt DEF StoreRows
<1>2. LegalAt(stage[r], phase[r], pass[r], rep[r]) /\ ControlTypes
  BY HereLegal
<1>3. /\ stage[r] \in {"initial", "residual", "pass", "synchronise"}
      /\ phase[r] = "rerows" => stage[r] = "pass"
  BY <1>1, <1>2 DEF LegalAt, PhasesOf, Stages, HaloPhases
<1>4. Moves(r, stage[r], p, pass[r], rep[r], outcome[r])
  BY <1>1, <1>2, GotoMoves DEF GotoPhase
<1>5. LegalAt(stage[r], p, pass[r], rep[r])
  BY <1>1, <1>2, <1>3 DEF LegalAt, PhasesOf, Phases, HaloPhases, Gathered
<1>6. Resting(r) /\ p \notin WaitingPhases /\ stage[r] # "finished"
  BY <1>1, <1>3 DEF Resting, Waiting, WaitingPhases, Gathered
<1>7. Ahead(rep[r], stage[r], pass[r], p, outcome[r]) = After(Inside(r), ResidualAt(Entered(r)))
  <2>1. CASE phase[r] = "rows"
    <3>1. Inside(r) = Call(rep[r], stage[r], pass[r], "ranges", outcome[r])
      BY <1>3, <2>1 DEF Inside, Within
    <3>2. After(Inside(r), ResidualAt(Entered(r))) = AfterGather(Inside(r))
      BY <1>3, <3>1 DEF After, Call
    <3>. QED  BY <1>3, <2>1, <3>1, <3>2 DEF AfterGather, Call, Gathered
  <2>2. CASE phase[r] = "rerows"
    <3>1. Inside(r) = Call(rep[r], stage[r], pass[r], "reranges", outcome[r])
      BY <1>3, <2>2 DEF Inside, Within
    <3>2. After(Inside(r), ResidualAt(Entered(r))) = AfterGather(Inside(r))
      BY <1>3, <3>1 DEF After, Call
    <3>. QED  BY <1>3, <2>2, <3>1, <3>2 DEF AfterGather, Call, Gathered
  <2>. QED  BY <1>1, <2>1, <2>2
<1>. HIDE DEF p
<1>. QED  BY <1>1, <1>4, <1>5, <1>6, <1>7, LeavingMove

-----------------------------------------------------------------------------
(* A pass and the loop around it. *)

\* Within the body of a pass a rank comes to no collective but the pass's own.
LEMMA BodyKeeps ==
  ASSUME Control, NEW r \in Ranks, stage[r] = "pass",
         phase[r] \in {"body", "turn", "work"},
         NEW p \in {"turn", "work"}, GotoPhase(r, p),
         calls' = calls, run' = run, pass' = pass, rep' = rep, outcome' = outcome
  PROVE  Control'
<1>1. LegalAt(stage[r], phase[r], pass[r], rep[r]) /\ ControlTypes
  BY HereLegal
<1>2. Moves(r, stage[r], p, pass[r], rep[r], outcome[r])
  BY <1>1, GotoMoves DEF GotoPhase
<1>3. LegalAt(stage[r], p, pass[r], rep[r])
  BY <1>1 DEF LegalAt, PhasesOf, Phases
<1>4. ~ Resting(r) /\ p \notin WaitingPhases /\ stage[r] # "finished"
  BY DEF Resting, Waiting, WaitingPhases
<1>5. Ahead(rep[r], stage[r], pass[r], p, outcome[r]) = AheadOf(r)
  BY DEF AheadOf, Ahead, AheadInPass
<1>. QED  BY <1>2, <1>3, <1>4, <1>5, SilentMove

LEMMA StartPassKeeps ==
  ASSUME Control, NEW r \in Ranks, StartPass(r)
  PROVE  Control'
BY BodyKeeps DEF StartPass, At

\* Only a pass has a turn, and work.
LEMMA WorkIsInPass ==
  ASSUME Control, NEW r \in Ranks,
         phase[r] \in {"turn", "work", "handed_on", "bcast", "end_pass"}
  PROVE  /\ stage[r] = "pass" /\ pass[r] \in 0..(Last - 1)
         /\ LegalAt("pass", phase[r], pass[r], rep[r])
         /\ phase[r] = "bcast" => ~ Grid
<1>1. LegalAt(stage[r], phase[r], pass[r], rep[r]) /\ Last \in Nat
  BY HereLegal, PassCount DEF ControlTypes
<1>2. stage[r] = "pass" /\ (phase[r] = "bcast" => ~ Grid)
  BY <1>1 DEF LegalAt, PhasesOf, Stages, HaloPhases
<1>. QED  BY <1>1, <1>2 DEF LegalAt

LEMMA TakeTurnKeeps ==
  ASSUME Control, NEW r \in Ranks, TakeTurn(r)
  PROVE  Control'
<1>1. /\ phase[r] = "turn" /\ GotoPhase(r, "work")
      /\ calls' = calls /\ run' = run /\ pass' = pass /\ rep' = rep /\ outcome' = outcome
  BY DEF TakeTurn
<1>. QED  BY <1>1, WorkIsInPass, BodyKeeps

LEMMA UpdateItemKeeps ==
  ASSUME Control, NEW r \in Ranks, UpdateItem(r)
  PROVE  Control'
<1>1. /\ phase[r] = "work" /\ stage' = stage /\ phase' = phase
      /\ calls' = calls /\ run' = run /\ pass' = pass /\ rep' = rep /\ outcome' = outcome
  BY DEF UpdateItem
<1>2. GotoPhase(r, "work")
  BY <1>1, HereLegal DEF GotoPhase, Goto, ControlTypes
<1>. QED  BY <1>1, <1>2, WorkIsInPass, BodyKeeps

LEMMA HandOnKeeps ==
  ASSUME Control, NEW r \in Ranks, HandOn(r)
  PROVE  Control'
<1>1. /\ phase[r] = "work" /\ GotoPhase(r, "handed_on") /\ Ordered(PassAt(pass[r] + 1))
      /\ calls' = calls /\ run' = run /\ pass' = pass /\ rep' = rep /\ outcome' = outcome
  BY DEF HandOn, Kind
<1>2. stage[r] = "pass" /\ LegalAt("pass", phase[r], pass[r], rep[r]) /\ ControlTypes
  BY <1>1, WorkIsInPass, HereLegal
<1>3. Moves(r, "pass", "handed_on", pass[r], rep[r], outcome[r])
  BY <1>1, <1>2, GotoMoves DEF GotoPhase
<1>4. LegalAt("pass", "handed_on", pass[r], rep[r])
  BY <1>2 DEF LegalAt, PhasesOf, Phases
<1>5. ~ Resting(r)
  BY <1>1, <1>2 DEF Resting, Waiting, WaitingPhases
<1>6. Ahead(rep[r], "pass", pass[r], "handed_on", outcome[r]) = AheadOf(r)
  BY <1>1, <1>2 DEF AheadOf, Ahead, AheadInPass
<1>. QED  BY <1>1, <1>3, <1>4, <1>5, <1>6, SilentMove DEF WaitingPhases

LEMMA HandedOnKeeps ==
  ASSUME Control, NEW r \in Ranks, HandedOn(r)
  PROVE  Control'
<1>1. /\ phase[r] = "handed_on"
      /\ run' = run /\ pass' = pass /\ rep' = rep /\ outcome' = outcome
  BY DEF HandedOn
<1>2. stage[r] = "pass" /\ LegalAt("pass", phase[r], pass[r], rep[r]) /\ ControlTypes
  BY <1>1, WorkIsInPass, HereLegal
<1>3. ~ Resting(r)
  BY <1>1, <1>2 DEF Resting, Waiting, WaitingPhases
<1>4. CASE Grid
  <2>1. GotoPhase(r, "end_pass") /\ calls' = calls
    BY <1>4 DEF HandedOn
  <2>2. Moves(r, "pass", "end_pass", pass[r], rep[r], outcome[r])
    BY <1>1, <1>2, <2>1, GotoMoves DEF GotoPhase
  <2>3. LegalAt("pass", "end_pass", pass[r], rep[r])
    BY <1>2 DEF LegalAt, PhasesOf, Phases
  <2>4. Ahead(rep[r], "pass", pass[r], "end_pass", outcome[r]) = AheadOf(r)
    BY <1>2, <1>4 DEF AheadOf, Ahead
  <2>. QED  BY <1>3, <2>1, <2>2, <2>3, <2>4, SilentMove DEF WaitingPhases
<1>5. CASE ~ Grid
  <2>. DEFINE d == IF r = LastInTurn(r) THEN Mine(r) ELSE <<>>
  <2>1. GotoPhase(r, "bcast") /\ Enter(r, "Bcast", d)
    BY <1>5 DEF HandedOn
  <2>2. Moves(r, "pass", "bcast", pass[r], rep[r], outcome[r])
    BY <1>1, <1>2, <2>1, GotoMoves DEF GotoPhase
  <2>3. LegalAt("pass", "bcast", pass[r], rep[r])
    BY <1>2, <1>5 DEF LegalAt, PhasesOf, Phases
  <2>4. Within(rep[r], "pass", pass[r], "bcast", outcome[r]) = AheadOf(r)
    BY <1>1, <1>2, <1>5 DEF AheadOf, Ahead, AheadInPass, Within
  <2>5. "Bcast" = CallAt(Within(rep[r], "pass", pass[r], "bcast", outcome[r]))
    BY DEF Within, Call, CallAt
  <2>. HIDE DEF d
  <2>. QED  BY <1>3, <2>1, <2>2, <2>3, <2>4, <2>5, EnteringMove DEF WaitingPhases
<1>. QED  BY <1>4, <1>5

LEMMA LeaveBcastKeeps ==
  ASSUME Control, NEW r \in Ranks, LeaveBcast(r)
  PROVE  Control'
<1>1. /\ phase[r] = "bcast" /\ GotoPhase(r, "end_pass")
      /\ calls' = calls /\ run' = run /\ pass' = pass /\ rep' = rep /\ outcome' = outcome
  BY DEF LeaveBcast
<1>2. stage[r] = "pass" /\ LegalAt("pass", phase[r], pass[r], rep[r]) /\ ControlTypes
  BY <1>1, WorkIsInPass, HereLegal
<1>3. Moves(r, "pass", "end_pass", pass[r], rep[r], outcome[r])
  BY <1>1, <1>2, GotoMoves DEF GotoPhase
<1>4. LegalAt("pass", "end_pass", pass[r], rep[r])
  BY <1>2 DEF LegalAt, PhasesOf, Phases
<1>5. Resting(r)
  BY <1>1 DEF Resting, Waiting, WaitingPhases
<1>6. Inside(r) = Call(rep[r], "pass", pass[r], "handed_on", outcome[r])
  BY <1>1, <1>2 DEF Inside, Within
<1>7. Inside(r).phase = "handed_on"
  BY <1>6 DEF Call
<1>8. After(Inside(r), ResidualAt(Entered(r)))
        = Ahead(rep[r], "pass", pass[r], "end_pass", outcome[r])
  <2>1. After(Inside(r), ResidualAt(Entered(r))) = AfterGather(Inside(r))
    BY <1>6 DEF After, Call
  <2>. QED  BY <1>6, <2>1 DEF AfterGather, Call
<1>. QED  BY <1>1, <1>3, <1>4, <1>5, <1>7, <1>8, LeavingMove DEF WaitingPhases

LEMMA WorkDoneKeeps ==
  ASSUME Control, NEW r \in Ranks, WorkDone(r)
  PROVE  Control'
<1>. DEFINE kind == PassAt(pass[r] + 1)
            p == IF FlatBlocks(kind) /\ ~ Ordered(kind) THEN "regather" ELSE "end_pass"
<1>1. /\ phase[r] = "work" /\ GotoPhase(r, p)
      /\ calls' = calls /\ run' = run /\ pass' = pass /\ rep' = rep /\ outcome' = outcome
  BY DEF WorkDone, Kind
<1>2. P # 1 => ~ Ordered(kind)
  BY RanksAssumption DEF WorkDone, Kind
<1>3. stage[r] = "pass" /\ LegalAt("pass", phase[r], pass[r], rep[r]) /\ ControlTypes
  BY <1>1, WorkIsInPass, HereLegal
<1>4. Moves(r, "pass", p, pass[r], rep[r], outcome[r])
  BY <1>1, <1>3, GotoMoves DEF GotoPhase
<1>5. LegalAt("pass", p, pass[r], rep[r])
  BY <1>3 DEF LegalAt, PhasesOf, Phases, FlatBlocks
<1>6. ~ Resting(r) /\ p \notin WaitingPhases
  BY <1>1, <1>3 DEF Resting, Waiting, WaitingPhases
<1>7. ASSUME P # 1 PROVE Ahead(rep[r], "pass", pass[r], p, outcome[r]) = AheadOf(r)
  <2>1. CASE Grid
    BY <1>3, <2>1 DEF AheadOf, Ahead
  <2>2. CASE ~ Grid /\ FlatBlocks(kind)
    BY <1>1, <1>2, <1>3, <1>7, <2>2 DEF AheadOf, Ahead, AheadInPass
  <2>3. CASE ~ Grid /\ ~ FlatBlocks(kind)
    BY <1>1, <1>2, <1>3, <1>7, <2>3 DEF AheadOf, Ahead, AheadInPass
  <2>. QED  BY <2>1, <2>2, <2>3
<1>. HIDE DEF p
<1>. QED  BY <1>1, <1>4, <1>5, <1>6, <1>7, SilentMove, AloneMove

\* The last pass ends an iteration that is due.
LEMMA LastIsDue ==
  ASSUME run \in Runs
  PROVE  (Last % PassesPerIteration) = 0 /\ CheckDue(Last)
<1>. DEFINE m == run.max_iterations
<1>1. PassesPerIteration \in {1, 2} /\ m \in Nat /\ Last = m * PassesPerIteration
  BY PassCount DEF Last
<1>. HIDE DEF m
<1>2. CASE PassesPerIteration = 1
  <2>1. Last = m /\ (m % 1) = 0 /\ (m \div 1) = m
    BY <1>1, <1>2
  <2>. QED  BY <1>2, <2>1 DEF CheckDue, Iterations, m
<1>3. CASE PassesPerIteration = 2
  <2>1. Last = m * 2 /\ ((m * 2) % 2) = 0 /\ ((m * 2) \div 2) = m
    BY <1>1, <1>3
  <2>. QED  BY <1>3, <2>1 DEF CheckDue, Iterations, m
<1>. QED  BY <1>1, <1>2, <1>3

\* While iterations are missing, so are passes.
LEMMA MorePasses ==
  ASSUME run \in Runs, NEW k \in 0..Last
  PROVE  (Iterations(k) < run.max_iterations => k < Last)
         /\ (~ (Iterations(k) < run.max_iterations) /\ (k % PassesPerIteration) = 0
               => Iterations(k) = run.max_iterations)
<1>. DEFINE m == run.max_iterations
<1>1. PassesPerIteration \in {1, 2} /\ m \in Nat /\ Last = m * PassesPerIteration
      /\ Iterations(k) = k \div PassesPerIteration /\ Last \in Nat
  BY PassCount DEF Last, Iterations
<1>. HIDE DEF m
<1>2. CASE PassesPerIteration = 1
  <2>1. Last = m /\ k \in Nat /\ k <= m /\ (k \div 1) = k
    BY <1>1, <1>2
  <2>. QED  BY <1>1, <1>2, <2>1 DEF m
<1>3. CASE PassesPerIteration = 2
  <2>1. Last = m * 2 /\ k \in Nat /\ k <= m * 2
    BY <1>1, <1>3
  <2>2. (k \div 2) < m => k < m * 2
    BY <2>1, <1>1
  <2>3. (k \div 2) <= m
    BY <2>1, <1>1
  <2>4. k \div 2 \in Int
    BY <2>1
  <2>. QED  BY <1>1, <1>3, <2>1, <2>2, <2>3, <2>4 DEF m
<1>. QED  BY <1>1, <1>2, <1>3

DueAt(k) == (k % PassesPerIteration) = 0 /\ CheckDue(k)

LEMMA NextDueIs ==
  ASSUME run \in Runs, NEW k \in Nat, k < Last
  PROVE  /\ DueAt(k + 1) => NextDue(k) = k + 1
         /\ ~ DueAt(k + 1) => k + 1 < Last /\ NextDue(k) = NextDue(k + 1)
<1>0. Last \in Nat /\ DueAt(Last)
  BY PassCount, LastIsDue DEF DueAt
<1>. DEFINE S(j) == {i \in (j + 1)..Last : DueAt(i)}
<1>1. NextDue(k) = SetMin(S(k)) /\ NextDue(k + 1) = SetMin(S(k + 1))
  BY DEF NextDue, DueAt
<1>2. ASSUME DueAt(k + 1) PROVE NextDue(k) = k + 1
  <2>1. k + 1 \in S(k) /\ S(k) \in SUBSET Int /\ \A x \in S(k) : k + 1 <= x
    BY <1>0, <1>2
  <2>. HIDE DEF S
  <2>. QED  BY <1>1, <2>1, SmallestIs
<1>3. ASSUME ~ DueAt(k + 1) PROVE k + 1 < Last /\ NextDue(k) = NextDue(k + 1)
  <2>1. k + 1 # Last
    BY <1>0, <1>3
  <2>2. S(k) = S(k + 1)
    BY <1>0, <1>3
  <2>. HIDE DEF S
  <2>. QED  BY <1>0, <1>1, <2>1, <2>2
<1>. QED  BY <1>2, <1>3

\* Where the loop goes on, and to which collective.
LEMMA LoopOpens ==
  ASSUME Control, NEW r \in Ranks, stage[r] # "finished", NEW k \in 0..Last, NEW o, Loop(r, k)
  PROVE  \E s \in {"pass", "synchronise"} :
           /\ Begin(r, s, k) /\ (s = "pass" => k < Last)
           /\ OpeningLoop(rep[r], k, o) = Opening(rep[r], s, k, o)
<1>1. Iterations(k) < run.max_iterations => k < Last
  BY MorePasses, HereLegal DEF ControlTypes
<1>2. CASE Iterations(k) < run.max_iterations
  BY <1>1, <1>2 DEF Loop, OpeningLoop
<1>3. CASE ~ (Iterations(k) < run.max_iterations)
  BY <1>3 DEF Loop, OpeningLoop
<1>. QED  BY <1>2, <1>3

\* A rank that begins a stage outside of any collective.
LEMMA BeginSilently ==
  ASSUME Control, NEW r \in Ranks, ~ Resting(r), NEW k \in 0..Last,
         NEW s \in {"rhs_norm", "initial", "pass", "residual", "synchronise"},
         s = "pass" => k < Last,
         Begin(r, s, k), run' = run, calls' = calls,
         pass' = [pass EXCEPT ![r] = k], rep' = rep, outcome' = outcome,
         AheadOf(r) = Opening(rep[r], s, k, outcome[r])
  PROVE  Control'
<1>1. LegalAt(stage[r], phase[r], pass[r], rep[r]) /\ ControlTypes
  BY HereLegal
<1>2. Moves(r, s, FirstPhase(s, k), k, rep[r], outcome[r])
  BY <1>1 DEF Moves, Begin, Goto, ControlTypes
<1>3. LegalAt(s, FirstPhase(s, k), k, rep[r])
  <2>1. rep[r] \in 0..Repetitions /\ rep[r] # Repetitions
    BY <1>1 DEF LegalAt, Resting
  <2>. QED  BY <2>1, BeginLegal
<1>4. s # "finished"
  OBVIOUS
<1>. QED  BY <1>2, <1>3, <1>4, BeginOpens, SilentMove

LEMMA EndPassKeeps ==
  ASSUME Control, NEW r \in Ranks, EndPass(r)
  PROVE  Control'
<1>. DEFINE k == pass[r] + 1
<1>1. /\ phase[r] = "end_pass" /\ pass' = [pass EXCEPT ![r] = k]
      /\ calls' = calls /\ run' = run /\ rep' = rep /\ outcome' = outcome
  BY DEF EndPass
<1>2. /\ stage[r] = "pass" /\ pass[r] \in 0..(Last - 1)
      /\ LegalAt("pass", phase[r], pass[r], rep[r]) /\ ControlTypes
  BY <1>1, WorkIsInPass, HereLegal
<1>3. run \in Runs /\ Last \in Nat
  BY <1>2, PassCount DEF ControlTypes
<1>4. k \in 0..Last /\ pass[r] \in Nat /\ pass[r] < Last /\ k \in Nat
  BY <1>2, <1>3
<1>5. ~ Resting(r)
  BY <1>1, <1>2 DEF Resting, Waiting, WaitingPhases
<1>6. /\ DueAt(k) => NextDue(pass[r]) = k
      /\ ~ DueAt(k) => k < Last /\ NextDue(pass[r]) = NextDue(k)
  BY <1>3, <1>4, NextDueIs
<1>7. /\ Grid => AheadOf(r) = Call(rep[r], "residual", NextDue(pass[r]), "body", outcome[r])
      /\ ~ Grid => AheadOf(r) = OpeningAfterPass(rep[r], k, outcome[r])
  BY <1>1, <1>2 DEF AheadOf, Ahead, AheadInPass, Opening
<1>8. /\ Grid => Opening(rep[r], "pass", k, outcome[r])
                   = Call(rep[r], "residual", NextDue(k), "body", outcome[r])
      /\ Grid => Opening(rep[r], "residual", k, outcome[r])
                   = Call(rep[r], "residual", k, "body", outcome[r])
  BY DEF Opening
<1>9. CASE (k % PassesPerIteration) # 0
  <2>1. Begin(r, "pass", k)
    BY <1>9 DEF EndPass
  <2>2. k < Last /\ (Grid => NextDue(pass[r]) = NextDue(k))
    BY <1>6, <1>9 DEF DueAt
  <2>3. AheadOf(r) = Opening(rep[r], "pass", k, outcome[r])
    BY <1>7, <1>8, <1>9, <2>2 DEF OpeningAfterPass
  <2>. HIDE DEF k
  <2>. QED  BY <1>1, <1>4, <1>5, <2>1, <2>2, <2>3, BeginSilently
<1>10. CASE DueAt(k)
  <2>1. Begin(r, "residual", k)
    BY <1>10 DEF EndPass, DueAt
  <2>2. AheadOf(r) = Opening(rep[r], "residual", k, outcome[r])
    BY <1>6, <1>7, <1>8, <1>10 DEF OpeningAfterPass, DueAt
  <2>. HIDE DEF k
  <2>. QED  BY <1>1, <1>4, <1>5, <2>1, <2>2, BeginSilently
<1>11. CASE (k % PassesPerIteration) = 0 /\ ~ CheckDue(k)
  <2>1. Loop(r, k)
    BY <1>11 DEF EndPass
  <2>2. Iterations(k) < run.max_iterations
    BY <1>3, <1>4, <1>11, MorePasses DEF CheckDue
  <2>3. Begin(r, "pass", k) /\ k < Last /\ (Grid => NextDue(pass[r]) = NextDue(k))
    BY <1>6, <1>11, <2>1, <2>2 DEF DueAt, Loop
  <2>4. AheadOf(r) = Opening(rep[r], "pass", k, outcome[r])
    BY <1>7, <1>8, <1>11, <2>2, <2>3 DEF OpeningAfterPass, OpeningLoop
  <2>. HIDE DEF k
  <2>. QED  BY <1>1, <1>4, <1>5, <2>3, <2>4, BeginSilently
<1>. QED  BY <1>9, <1>10, <1>11 DEF DueAt

LEMMA EvaluateKeeps ==
  ASSUME Control, NEW r \in Ranks, Evaluate(r)
  PROVE  Control'
<1>. DEFINE d == IF stage[r] = "rhs_norm" THEN 0 ELSE Partial(r)
<1>1. /\ \/ stage[r] = "rhs_norm" /\ phase[r] = "evaluate"
         \/ stage[r] \in {"initial", "residual"} /\ phase[r] = "body"
      /\ Enter(r, "Allgather_doubles", d) /\ GotoPhase(r, "reduce")
      /\ run' = run /\ pass' = pass /\ rep' = rep /\ outcome' = outcome
  BY DEF Evaluate
<1>2. LegalAt(stage[r], phase[r], pass[r], rep[r]) /\ ControlTypes
  BY HereLegal
<1>3. Moves(r, stage[r], "reduce", pass[r], rep[r], outcome[r])
  BY <1>1, <1>2, GotoMoves DEF GotoPhase
<1>4. LegalAt(stage[r], "reduce", pass[r], rep[r])
  BY <1>1, <1>2 DEF LegalAt, PhasesOf, Phases
<1>5. ~ Resting(r)
  BY <1>1 DEF Resting, Waiting, WaitingPhases
<1>6. Within(rep[r], stage[r], pass[r], "reduce", outcome[r]) = AheadOf(r)
  BY <1>1 DEF AheadOf, Ahead, Within
<1>7. "Allgather_doubles" = CallAt(Within(rep[r], stage[r], pass[r], "reduce", outcome[r]))
  BY <1>1 DEF Within, Call, CallAt
<1>. HIDE DEF d
<1>. QED  BY <1>1, <1>3, <1>4, <1>5, <1>6, <1>7, EnteringMove DEF WaitingPhases

\* A rank that begins a stage out of a collective.
LEMMA BeginAfter ==
  ASSUME Control, NEW r \in Ranks, Waiting(r), stage[r] # "finished", AllAt(Entered(r)),
         NEW s \in {"rhs_norm", "initial", "pass", "residual", "synchronise"}, NEW j, NEW o,
         s = "pass" => pass[r] < Last,
         FirstPhase(s, j) = FirstPhase(s, pass[r]),
         Begin(r, s, j), run' = run, calls' = calls,
         pass' = pass, rep' = rep, outcome' = [outcome EXCEPT ![r] = o],
         After(Inside(r), ResidualAt(Entered(r))) = Opening(rep[r], s, pass[r], o)
  PROVE  Control'
<1>1. LegalAt(stage[r], phase[r], pass[r], rep[r]) /\ ControlTypes
  BY HereLegal
<1>2. Moves(r, s, FirstPhase(s, pass[r]), pass[r], rep[r], o)
  BY <1>1 DEF Moves, Begin, Goto, ControlTypes
<1>3. LegalAt(s, FirstPhase(s, pass[r]), pass[r], rep[r])
  <2>1. rep[r] \in 0..Repetitions /\ rep[r] # Repetitions /\ pass[r] \in 0..Last
    BY <1>1 DEF LegalAt
  <2>. QED  BY <2>1, BeginLegal
<1>4. s # "finished" /\ Resting(r)
  BY DEF Resting
<1>. QED  BY <1>2, <1>3, <1>4, BeginOpens, LeavingMove

LEMMA LeaveReduceKeeps ==
  ASSUME Control, NEW r \in Ranks, LeaveReduce(r)
  PROVE  Control'
<1>1. /\ phase[r] = "reduce" /\ AllAt(Entered(r))
      /\ run' = run /\ calls' = calls /\ pass' = pass /\ rep' = rep
  BY AllEnteredIsAllAt DEF LeaveReduce
<1>2. LegalAt(stage[r], phase[r], pass[r], rep[r]) /\ ControlTypes
  BY HereLegal
<1>3. stage[r] \in {"rhs_norm", "initial", "residual"} /\ Waiting(r)
  BY <1>1, <1>2 DEF LegalAt, PhasesOf, Stages, HaloPhases, Waiting, WaitingPhases
<1>4. Inside(r) = Call(rep[r], stage[r], pass[r],
                       IF stage[r] = "rhs_norm" THEN "evaluate" ELSE "body", outcome[r])
  BY <1>1, <1>3 DEF Inside, Within
<1>. DEFINE v == ResidualAt(Entered(r))
<1>5. Residual(r) = v
  BY DEF Residual, ResidualAt, Brought
<1>6. CASE stage[r] = "rhs_norm"
  <2>1. Begin(r, "initial", 0) /\ outcome' = outcome
    BY <1>6 DEF LeaveReduce
  <2>2. outcome' = [outcome EXCEPT ![r] = outcome[r]]
    BY <1>2, <2>1 DEF ControlTypes
  <2>3. FirstPhase("initial", 0) = FirstPhase("initial", pass[r])
    BY DEF FirstPhase
  <2>4. After(Inside(r), v) = Opening(rep[r], "initial", pass[r], outcome[r])
    BY <1>4, <1>6 DEF After, Call
  <2>. QED  BY <1>1, <1>3, <2>1, <2>2, <2>3, <2>4, BeginAfter
<1>. DEFINE ToStop == run.mode = "ToTolerance" /\ v = "small"
<1>7. ToStop <=> Converged(r)
  BY <1>5 DEF Converged
<1>8. CASE stage[r] = "initial"
  <2>. DEFINE o == [iterations |-> 0, reason |-> IF ToStop THEN "Converged" ELSE "none"]
  <2>1. /\ outcome' = [outcome EXCEPT ![r] = o]
        /\ IF ToStop THEN Goto(r, "barrier_out", "start") ELSE Loop(r, pass[r])
    BY <1>7, <1>8 DEF LeaveReduce
  <2>2. After(Inside(r), v) = AfterReduce(Inside(r), v)
    BY <1>4, <1>8 DEF After, Call
  <2>3. AfterReduce(Inside(r), v)
          = IF ToStop THEN Call(rep[r], "barrier_out", pass[r], "start", o)
                      ELSE OpeningLoop(rep[r], pass[r], o)
    BY <1>4, <1>8 DEF AfterReduce, Call
  <2>4. CASE ToStop
    <3>1. Moves(r, "barrier_out", "start", pass[r], rep[r], o)
      BY <1>1, <1>2, <2>1, <2>4 DEF Moves, Goto, ControlTypes
    <3>2. LegalAt("barrier_out", "start", pass[r], rep[r])
      BY <1>2, <1>8 DEF LegalAt, PhasesOf, Stages, Phases
    <3>3. Ahead(rep[r], "barrier_out", pass[r], "start", o) = After(Inside(r), v)
      BY <2>2, <2>3, <2>4 DEF Ahead
    <3>. HIDE DEF o
    <3>. QED  BY <1>1, <1>3, <3>1, <3>2, <3>3, LeavingMove DEF Resting, WaitingPhases
  <2>5. CASE ~ ToStop
    <3>. HIDE DEF o
    <3>1. pass[r] \in 0..Last /\ stage[r] # "finished"
      BY <1>2, <1>8 DEF LegalAt
    <3>2. PICK s \in {"pass", "synchronise"} :
            /\ Begin(r, s, pass[r]) /\ (s = "pass" => pass[r] < Last)
            /\ OpeningLoop(rep[r], pass[r], o) = Opening(rep[r], s, pass[r], o)
      BY <2>1, <2>5, <3>1, LoopOpens
    <3>3. After(Inside(r), v) = Opening(rep[r], s, pass[r], o)
      BY <2>2, <2>3, <2>5, <3>2
    <3>. QED  BY <1>1, <1>3, <2>1, <3>1, <3>2, <3>3, BeginAfter
  <2>. QED  BY <2>4, <2>5
<1>9. CASE stage[r] = "residual"
  <2>. DEFINE reason == CASE v = "not_finite" -> "Diverged"
                          [] ToStop -> "Converged"
                          [] OTHER -> "none"
              o == [outcome[r] EXCEPT !.reason = reason]
  <2>1. /\ outcome' = [outcome EXCEPT ![r].reason = reason]
        /\ IF reason = "none" THEN Loop(r, pass[r]) ELSE Begin(r, "synchronise", pass[r])
    BY <1>5, <1>7, <1>9 DEF LeaveReduce
  <2>2. outcome' = [outcome EXCEPT ![r] = o]
    BY <2>1
  <2>3. After(Inside(r), v) = AfterReduce(Inside(r), v)
    BY <1>4, <1>9 DEF After, Call
  <2>4. AfterReduce(Inside(r), v)
          = IF reason = "none" THEN OpeningLoop(rep[r], pass[r], o)
                               ELSE Opening(rep[r], "synchronise", pass[r], o)
    BY <1>4, <1>9 DEF AfterReduce, Call
  <2>. HIDE DEF o, reason
  <2>5. CASE reason # "none"
    <3>1. Begin(r, "synchronise", pass[r])
      BY <2>1, <2>5
    <3>2. After(Inside(r), v) = Opening(rep[r], "synchronise", pass[r], o)
      BY <2>3, <2>4, <2>5
    <3>. QED  BY <1>1, <1>3, <1>9, <2>2, <3>1, <3>2, BeginAfter
  <2>6. CASE reason = "none"
    <3>1. pass[r] \in 0..Last /\ stage[r] # "finished"
      BY <1>2, <1>9 DEF LegalAt
    <3>2. PICK s \in {"pass", "synchronise"} :
            /\ Begin(r, s, pass[r]) /\ (s = "pass" => pass[r] < Last)
            /\ OpeningLoop(rep[r], pass[r], o) = Opening(rep[r], s, pass[r], o)
      BY <2>1, <2>6, <3>1, LoopOpens
    <3>3. After(Inside(r), v) = Opening(rep[r], s, pass[r], o)
      BY <2>3, <2>4, <2>6, <3>2
    <3>. QED  BY <1>1, <1>3, <2>2, <3>1, <3>2, <3>3, BeginAfter
  <2>. QED  BY <2>5, <2>6
<1>. QED  BY <1>3, <1>6, <1>8, <1>9

LEMMA FinishKeeps ==
  ASSUME Control, NEW r \in Ranks, Finish(r)
  PROVE  Control'
<1>. DEFINE o == [iterations |-> Iterations(pass[r]), reason |-> FinalReason(outcome[r].reason)]
<1>1. /\ stage[r] = "synchronise" /\ phase[r] = "copy"
      /\ outcome' = [outcome EXCEPT ![r] = o] /\ Goto(r, "barrier_out", "start")
      /\ run' = run /\ calls' = calls /\ pass' = pass /\ rep' = rep
  BY DEF Finish, At
<1>2. LegalAt(stage[r], phase[r], pass[r], rep[r]) /\ ControlTypes
  BY HereLegal
<1>3. Ahead(rep[r], "barrier_out", pass[r], "start", o) = AheadOf(r)
  BY <1>1 DEF AheadOf, Ahead
<1>. HIDE DEF o
<1>4. Moves(r, "barrier_out", "start", pass[r], rep[r], o)
  BY <1>1, <1>2 DEF Moves, Goto, ControlTypes
<1>5. LegalAt("barrier_out", "start", pass[r], rep[r])
  BY <1>1, <1>2 DEF LegalAt, PhasesOf, Stages, Phases
<1>6. ~ Resting(r)
  BY <1>1 DEF Resting, Waiting, WaitingPhases
<1>. QED  BY <1>1, <1>3, <1>4, <1>5, <1>6, SilentMove DEF WaitingPhases

-----------------------------------------------------------------------------
(* The ranks of a solve make the same collectives and stop together. *)

LEMMA ControlStarts == Init => Control
<1>. SUFFICES ASSUME Init PROVE Control
  OBVIOUS
<1>1. ControlTypes
  <2>1. \A r \in Ranks : calls[r] = <<>> /\ <<>> \in Seq({})
    BY DEF Init, MpiInit
  <2>2. \A r \in Ranks : IsSequence(calls[r])
    BY <2>1 DEF IsSequence
  <2>. QED  BY <2>2 DEF Init, MpiInit, ControlTypes, Stages, Phases
<1>2. ASSUME NEW r \in Ranks PROVE Legal(r)
  BY PassCount, SweepAssumption DEF Init, Legal, LegalAt, PhasesOf, Stages, Phases
<1>3. OneJourney
  <2>. DEFINE path == <<>>
  <2>1. IsPath(path, 0)
    BY DEF IsPath
  <2>2. ASSUME NEW r \in Ranks PROVE IsOn(r, path, 0)
    <3>1. Entered(r) = 0
      BY DEF Init, MpiInit, Entered
    <3>2. stage[r] = "reset" /\ phase[r] = "start" /\ rep[r] = 0 /\ outcome[r] = NotSolved
      BY DEF Init
    <3>3. ~ (Waiting(r) \/ stage[r] = "finished")
      BY <3>2 DEF Waiting, WaitingPhases
    <3>4. Ahead(rep[r], stage[r], pass[r], phase[r], outcome[r]) = Due(path, Entered(r))
      BY <3>1, <3>2 DEF Ahead, Due
    <3>. QED  BY <3>1, <3>3, <3>4 DEF IsOn, Open
  <2>. QED  BY <2>1, <2>2 DEF OneJourney
<1>. QED  BY <1>1, <1>2, <1>3 DEF Control

LEMMA ControlKept == Control /\ [Next]_vars => Control'
<1>. SUFFICES ASSUME Control, [Next]_vars PROVE Control'
  OBVIOUS
<1>1. CASE UNCHANGED vars
  <2>1. /\ run' = run /\ stage' = stage /\ phase' = phase /\ pass' = pass
        /\ rep' = rep /\ outcome' = outcome /\ calls' = calls
    BY <1>1 DEF vars
  <2>2. 0 \in Ranks
    BY RanksAssumption DEF Ranks
  <2>3. ControlTypes' /\ OthersStay(0)
    BY <2>1 DEF Control, ControlTypes, OthersStay
  <2>4. ASSUME NEW r \in Ranks PROVE Legal(r)'
    <3>1. Legal(r) /\ Last' = Last
      BY <2>1, ScheduleFixed DEF Control
    <3>. QED  BY <2>1, <3>1 DEF Legal, LegalAt
  <2>5. Resting(0)' = Resting(0) /\ Inside(0)' = Inside(0) /\ AheadNext(0) = AheadOf(0)
    BY <2>1 DEF Resting, Waiting, Inside, AheadNext, AheadOf
  <2>6. ASSUME P # 1 PROVE OneJourney'
    BY <2>1, <2>2, <2>3, <2>5, <2>6, SilentStep, LastStep DEF Control
  <2>. QED  BY <2>3, <2>4, <2>6 DEF Control
<1>2. ASSUME NEW r \in Ranks, Computes(r) PROVE Control'
  BY <1>2, ResetKeeps, EnterBarrierKeeps, LeaveBarrierKeeps, ExchangeHaloKeeps, HaloStepsKeep,
     GatherKeeps, GatherRowsKeeps, StoreRowsKeeps, StartPassKeeps, TakeTurnKeeps,
     UpdateItemKeeps, HandOnKeeps, LeaveBcastKeeps, WorkDoneKeeps, EndPassKeeps,
     EvaluateKeeps, LeaveReduceKeeps, FinishKeeps DEF Computes
<1>3. ASSUME NEW r \in Ranks, LeavesSend(r) PROVE Control'
  BY <1>3, HaloStepsKeep, HandedOnKeeps DEF LeavesSend
<1>. QED  BY <1>1, <1>2, <1>3 DEF Next, AllFinished

\* A single rank agrees with itself.
LEMMA OneRank ==
  ASSUME P = 1
  PROVE  Ranks = {0}
BY RanksAssumption DEF Ranks

LEMMA ControlMatches == Control => CollectivesMatch
<1>. SUFFICES ASSUME Control, NEW q \in Ranks, NEW r \in Ranks PROVE SameCall(q, r)
  BY DEF CollectivesMatch
<1>1. CASE P = 1
  BY <1>1, OneRank DEF SameCall
<1>2. CASE P # 1
  <2>1. PICK n \in Nat : \E path : IsPath(path, n) /\ \A p \in Ranks : IsOn(p, path, n)
    BY <1>2 DEF Control, OneJourney
  <2>2. PICK path : \A p \in Ranks : IsOn(p, path, n)
    BY <2>1
  <2>3. /\ Entered(q) \in Nat /\ Entered(r) \in Nat
        /\ \A k \in 1..Entered(q) : calls[q][k].call = CallAt(path[k])
        /\ \A k \in 1..Entered(r) : calls[r][k].call = CallAt(path[k])
    BY <2>2 DEF IsOn
  <2>. QED  BY <2>3 DEF SameCall
<1>. QED  BY <1>1, <1>2

\* The last barrier of a repetition, as the place of one that has solved.
LastBarrier(r) ==
  Call(IF stage[r] = "finished" THEN Repetitions - 1 ELSE rep[r],
       "barrier_out", pass[r], "start", outcome[r])

LEMMA SolvedIsAtItsBarrier ==
  ASSUME Control, NEW path, NEW n \in Nat, IsPath(path, n),
         NEW r \in Ranks, IsOn(r, path, n), Solved(r)
  PROVE  \/ \E k \in 1..n : path[k] = LastBarrier(r)
         \/ Due(path, n) = LastBarrier(r) /\ Open(path, n)
<1>1. LegalAt(stage[r], phase[r], pass[r], rep[r]) /\ ControlTypes
  BY HereLegal
<1>2. CASE stage[r] = "finished"
  <2>1. Entered(r) \in 1..n /\ path[Entered(r)] = Inside(r)
    BY <1>2 DEF IsOn
  <2>2. Inside(r) = LastBarrier(r)
    BY <1>1, <1>2 DEF Inside, Within, LastBarrier, LegalAt
  <2>. QED  BY <2>1, <2>2
<1>3. CASE stage[r] = "barrier_out" /\ phase[r] = "wait"
  <2>1. Entered(r) \in 1..n /\ path[Entered(r)] = Inside(r)
    BY <1>3 DEF IsOn, Waiting, WaitingPhases
  <2>2. Inside(r) = LastBarrier(r)
    BY <1>3 DEF Inside, Within, LastBarrier
  <2>. QED  BY <2>1, <2>2
<1>4. CASE stage[r] = "barrier_out" /\ phase[r] = "start"
  <2>1. /\ Ahead(rep[r], stage[r], pass[r], phase[r], outcome[r]) = Due(path, Entered(r))
        /\ Open(path, Entered(r)) /\ Entered(r) \in 0..n
    BY <1>4 DEF IsOn, Waiting, WaitingPhases
  <2>2. Ahead(rep[r], stage[r], pass[r], phase[r], outcome[r]) = LastBarrier(r)
    BY <1>4 DEF Ahead, LastBarrier
  <2>3. PICK e \in 0..n : e = Entered(r)
    BY <2>1
  <2>4. Due(path, e) = LastBarrier(r) /\ Open(path, e)
    BY <2>1, <2>2, <2>3
  <2>5. CASE e = n
    BY <2>4, <2>5
  <2>6. CASE e # n
    <3>1. e + 1 \in 1..n /\ (e + 1) - 1 = e
      BY <2>6
    <3>2. path[e + 1] = Due(path, e)
      BY <3>1 DEF IsPath
    <3>. QED  BY <2>4, <3>1, <3>2
  <2>. QED  BY <2>5, <2>6
<1>. QED  BY <1>1, <1>2, <1>3, <1>4 DEF Solved, LegalAt, PhasesOf, Stages

\* The path that holds a place for the last barrier of everyone who has solved.
LEMMA ToTheBarriers ==
  ASSUME Control, P # 1
  PROVE  \E n \in Nat : \E path : IsPath(path, n) /\
           \A r \in Ranks : Solved(r) => \E k \in 1..n : path[k] = LastBarrier(r)
<1>1. PICK n \in Nat : \E path : IsPath(path, n) /\ \A p \in Ranks : IsOn(p, path, n)
  BY DEF Control, OneJourney
<1>2. PICK path : IsPath(path, n) /\ \A p \in Ranks : IsOn(p, path, n)
  BY <1>1
<1>3. CASE Open(path, n)
  <2>. DEFINE next == [k \in 1..(n + 1) |-> IF k = n + 1 THEN Due(path, n) ELSE path[k]]
  <2>1. /\ IsPath(next, n + 1) /\ next[n + 1] = Due(path, n)
        /\ \A k \in 1..n : next[k] = path[k]
    BY <1>2, <1>3, PathGoesOn
  <2>. HIDE DEF next
  <2>2. ASSUME NEW r \in Ranks, Solved(r)
        PROVE  \E k \in 1..(n + 1) : next[k] = LastBarrier(r)
    BY <2>1, <2>2, <1>2, SolvedIsAtItsBarrier
  <2>3. n + 1 \in Nat
    OBVIOUS
  <2>. QED  BY <2>1, <2>2, <2>3
<1>4. CASE ~ Open(path, n)
  BY <1>2, <1>4, SolvedIsAtItsBarrier
<1>. QED  BY <1>3, <1>4

LEMMA ControlAgrees == Control => RanksAgree
<1>. SUFFICES ASSUME Control, NEW q \in Ranks, NEW r \in Ranks,
                     Solved(q), Solved(r), rep[q] = rep[r]
              PROVE  outcome[q] = outcome[r] /\ pass[q] = pass[r]
  BY DEF RanksAgree
<1>0. CASE P = 1
  BY <1>0, OneRank
<1>. SUFFICES ASSUME P # 1 PROVE outcome[q] = outcome[r] /\ pass[q] = pass[r]
  BY <1>0
<1>1. PICK n \in Nat : \E path : IsPath(path, n) /\
        \A p \in Ranks : Solved(p) => \E k \in 1..n : path[k] = LastBarrier(p)
  BY ToTheBarriers
<1>2. PICK path : IsPath(path, n) /\
        \A p \in Ranks : Solved(p) => \E k \in 1..n : path[k] = LastBarrier(p)
  BY <1>1
<1>3. PICK i \in 1..n : path[i] = LastBarrier(q)
  BY <1>2
<1>4. PICK j \in 1..n : path[j] = LastBarrier(r)
  BY <1>2
<1>5. stage[q] = "finished" <=> stage[r] = "finished"
  BY HereLegal DEF LegalAt
<1>6. /\ LastBarrier(q).rep = LastBarrier(r).rep
      /\ LastBarrier(q).stage = "barrier_out" /\ LastBarrier(r).stage = "barrier_out"
  BY <1>5 DEF LastBarrier, Call
<1>7. path[i].rep \in Nat /\ path[j].rep \in Nat
  BY <1>2 DEF IsPath
<1>8. i = j
  <2>1. ~ (i < j)
    BY <1>2, <1>3, <1>4, <1>6, <1>7 DEF IsPath
  <2>2. ~ (j < i)
    BY <1>2, <1>3, <1>4, <1>6, <1>7 DEF IsPath
  <2>. QED  BY <2>1, <2>2
<1>9. /\ LastBarrier(q).pass = LastBarrier(r).pass
      /\ LastBarrier(q).outcome = LastBarrier(r).outcome
  BY <1>3, <1>4, <1>8
<1>. QED  BY <1>9 DEF LastBarrier, Call

-----------------------------------------------------------------------------
(* The theorems. *)

\* Control holds at all times.
LEMMA ControlHolds == Spec => []Control
<1>1. Init => Control
  BY ControlStarts
<1>2. Control /\ [Next]_vars => Control'
  BY ControlKept
<1>. QED  BY <1>1, <1>2, PTL DEF Spec

\* The j-th collective of every rank of a solve is the same call, whatever the
\* method, its options and its partials are: run_stationary picks it by the
\* mode and the verdict, which all ranks share (mpi_runtime.cpp, splitting.hpp).
THEOREM CollectivesMatchHolds == Spec => []CollectivesMatch
<1>1. Control => CollectivesMatch
  BY ControlMatches
<1>. QED  BY <1>1, ControlHolds, PTL

\* Ranks that have come to the end of the same repetition have made the same
\* passes and return the same iteration count and reason: none leaves the loop
\* of run_stationary at an iteration at which another goes on.
THEOREM RanksAgreeHolds == Spec => []RanksAgree
<1>1. Control => RanksAgree
  BY ControlAgrees
<1>. QED  BY <1>1, ControlHolds, PTL

-----------------------------------------------------------------------------
(***************************************************************************)
(* On a grid: the halo exchanges of a solve, and where two neighbours are  *)
(* in them.  Neither can begin an exchange before the other has come to    *)
(* the one before, so at most one message of a kind is ever under way.     *)
(***************************************************************************)

\* The exchange at the start of stage s after k passes.
Exchange(s, k) == [stage |-> s, pass |-> k]
NoExchange == Exchange("none", 0)

\* The exchange begun last in its repetition by a rank at this place.
LastExchange(s, p, k) ==
  CASE s = "initial" /\ p # "exchange" -> Exchange("initial", 0)
    [] s = "pass" /\ p # "exchange" -> Exchange("pass", k)
    [] s = "residual" /\ p # "exchange" -> Exchange("residual", k)
    [] s = "residual" /\ p = "exchange" -> Exchange("pass", k - 1)
    [] s = "pass" /\ p = "exchange" ->
         IF k = 0 THEN Exchange("initial", 0)
         ELSE IF (k % PassesPerIteration) = 0 /\ CheckDue(k) THEN Exchange("residual", k)
         ELSE Exchange("pass", k - 1)
    [] s \in {"synchronise", "barrier_out"} ->
         IF k = 0 THEN Exchange("initial", 0) ELSE Exchange("residual", k)
    [] OTHER -> NoExchange
ExchangeBefore(e) == LastExchange(e.stage, "exchange", e.pass)

\* A residual is only exchanged for where it is due.
LegalExchange(e) ==
  \/ e \in {NoExchange, Exchange("initial", 0)}
  \/ \E k \in Nat : e = Exchange("pass", k)
  \/ \E k \in Nat \ {0} :
       e = Exchange("residual", k) /\ (k % PassesPerIteration) = 0 /\ CheckDue(k)

\* How far a rank is in its exchange, and in the turn of the pass it opens.
HaloStep(p) ==
  CASE p = "halo_up" -> 1
    [] p = "halo_up_sent" -> 2
    [] p = "halo_down" -> 3
    [] OTHER -> 4
TurnStep(s, p) ==
  CASE s = "pass" /\ p \in HaloPhases \cup {"body", "turn"} -> 0
    [] s = "pass" /\ p = "work" -> 1
    [] OTHER -> 2
View(r) ==
  [exchange |-> LastExchange(stage[r], phase[r], pass[r]),
   halo |-> HaloStep(phase[r]),
   turn |-> TurnStep(stage[r], phase[r])]

\* What is under way between rank r and the one below it.
Traffic(r) ==
  [up |-> wire["TAG_HALO_UP"][r + 1][r],
   down |-> wire["TAG_HALO_DOWN"][r][r + 1],
   forward |-> wire["TAG_ORDERED"][r][r + 1],
   backward |-> wire["TAG_ORDERED"][r + 1][r]]

\* One message if so, or none.
Holds(s, so) == IF so THEN \E m : s = <<m>> ELSE s = <<>>

Halos(x, up, down) == Holds(x.up, up) /\ Holds(x.down, down)

\* Exchange e opens a pass in which the ranks take turns, and which way.
Turning(e) == e.stage = "pass" /\ Ordered(PassAt(e.pass + 1))
Upwards(e) == PassAt(e.pass + 1) = "backward"

\* The turns of that pass, if the upper rank is at step t and the lower at u.
Turns(e, t, u, x) ==
  IF ~ Turning(e) THEN x.forward = <<>> /\ x.backward = <<>>
  ELSE IF Upwards(e)
  THEN (t > 0 => u = 2) /\ Holds(x.backward, t = 0 /\ u = 2) /\ x.forward = <<>>
  ELSE (u > 0 => t = 2) /\ Holds(x.forward, t = 2 /\ u = 0) /\ x.backward = <<>>

\* Both are in the same exchange, or one of them has begun the next.
InStep(v, w, x) ==
  \/ /\ v.exchange = w.exchange
     /\ w.halo = 4 => v.halo >= 3
     /\ Halos(x, v.halo = 1, v.halo >= 3 /\ w.halo < 4)
     /\ Turns(v.exchange, v.turn, w.turn, x)
  \/ /\ ExchangeBefore(w.exchange) = v.exchange
     /\ v.halo >= 3 /\ w.halo < 4
     /\ Halos(x, TRUE, FALSE) /\ Turns(v.exchange, v.turn, 2, x)
  \/ /\ ExchangeBefore(v.exchange) = w.exchange
     /\ v.halo = 1
     /\ Halos(x, FALSE, w.halo < 4) /\ Turns(w.exchange, 2, w.turn, x)

\* Rank q is through with a repetition that rank r is about to leave.
Through(q, r) ==
  /\ stage[q] \in {"reset", "barrier_in", "finished"} /\ At(r, "barrier_out", "wait")
  /\ rep[q] = rep[r] + 1

Neighbours(r) ==
  IF rep[r] = rep[r + 1] THEN InStep(View(r), View(r + 1), Traffic(r))
  ELSE /\ Through(r, r + 1) \/ Through(r + 1, r)
       /\ Halos(Traffic(r), FALSE, FALSE) /\ Turns(NoExchange, 2, 2, Traffic(r))

\* Ranks that have one below them.
Uppers == 0..(P - 2)

\* The passes made when a stage begins.
RightAt(s, k) ==
  /\ s \in {"barrier_in", "rhs_norm", "initial"} => k = 0
  /\ s = "residual" => k # 0 /\ (k % PassesPerIteration) = 0 /\ CheckDue(k)
StageRight(r) == RightAt(stage[r], pass[r])

OkView(v) ==
  /\ v.halo \in 1..4 /\ v.turn \in 0..2
  /\ v.halo # 4 => /\ LegalExchange(v.exchange) /\ v.exchange # NoExchange
                   /\ v.exchange.stage = "pass" => v.turn = 0

LEMMA NextExchangeIsOne ==
  ASSUME NEW e, NEW f, LegalExchange(e), LegalExchange(f), e # NoExchange, f # NoExchange,
         ExchangeBefore(e) = ExchangeBefore(f)
  PROVE  e = f
<1>1. \A k \in Nat : /\ ExchangeBefore(Exchange("residual", k)) = Exchange("pass", k - 1)
                     /\ ExchangeBefore(Exchange("pass", k)) =
                          IF k = 0 THEN Exchange("initial", 0)
                          ELSE IF (k % PassesPerIteration) = 0 /\ CheckDue(k)
                          THEN Exchange("residual", k) ELSE Exchange("pass", k - 1)
  BY DEF ExchangeBefore, LastExchange, Exchange
<1>2. ExchangeBefore(Exchange("initial", 0)) = NoExchange
  BY DEF ExchangeBefore, LastExchange, Exchange, NoExchange
<1>3. \A s, t, j, k : Exchange(s, j) = Exchange(t, k) => s = t /\ j = k
  BY DEF Exchange
<1>4. CASE e = Exchange("initial", 0)
  BY <1>1, <1>2, <1>3, <1>4 DEF LegalExchange, NoExchange
<1>5. CASE f = Exchange("initial", 0)
  BY <1>1, <1>2, <1>3, <1>5 DEF LegalExchange, NoExchange
<1>6. ASSUME NEW j \in Nat, NEW k \in Nat, e = Exchange("pass", j), f = Exchange("pass", k)
      PROVE  e = f
  BY <1>1, <1>3, <1>6
<1>7. ASSUME NEW j \in Nat, NEW k \in Nat \ {0}, Exchange("pass", j) = e, Exchange("residual", k) = f,
             (k % PassesPerIteration) = 0, CheckDue(k)
      PROVE  FALSE
  BY <1>1, <1>3, <1>7
<1>8. ASSUME NEW j \in Nat, NEW k \in Nat \ {0}, Exchange("pass", j) = f, Exchange("residual", k) = e,
             (k % PassesPerIteration) = 0, CheckDue(k)
      PROVE  FALSE
  BY <1>1, <1>3, <1>8
<1>9. ASSUME NEW j \in Nat \ {0}, NEW k \in Nat \ {0},
             e = Exchange("residual", j), f = Exchange("residual", k)
      PROVE  e = f
  BY <1>1, <1>3, <1>9
<1>. QED  BY <1>4, <1>5, <1>6, <1>7, <1>8, <1>9 DEF LegalExchange

\* What a message does to a wire that holds at most one.
LEMMA OneMessage ==
  ASSUME NEW s, NEW m
  PROVE  /\ Holds(s, FALSE) => Append(s, m) = <<m>> /\ Holds(Append(s, m), TRUE)
         /\ s = <<m>> => Head(s) = m /\ Tail(s) = <<>> /\ s # <<>>
<1>1. Append(<<>>, m) = <<m>>
  OBVIOUS
<1>2. <<m>> \in Seq({m}) /\ Head(<<m>>) = m /\ Tail(<<m>>) = <<>> /\ <<m>> # <<>>
  OBVIOUS
<1>. QED  BY <1>1, <1>2 DEF Holds

\* The messages of two neighbours, up and down; no other ranks exchange any.
Unused(tag, p, q) ==
  \/ p # q + 1 /\ q # p + 1
  \/ tag = "TAG_HALO_UP" /\ p # q + 1
  \/ tag = "TAG_HALO_DOWN" /\ q # p + 1

Wires ==
  /\ wire = [tag \in Tags |-> [p \in Ranks |-> [q \in Ranks |-> wire[tag][p][q]]]]
  /\ \A tag \in Tags, p, q \in Ranks :
       IsSequence(wire[tag][p][q]) /\ (Unused(tag, p, q) => wire[tag][p][q] = <<>>)

HaloControl ==
  /\ Wires
  /\ \A r \in Ranks : StageRight(r)
  /\ \A r \in Uppers : Neighbours(r)

\* The same, where a step takes them.
NextView(r) ==
  [exchange |-> LastExchange(stage'[r], phase'[r], pass'[r]),
   halo |-> HaloStep(phase'[r]),
   turn |-> TurnStep(stage'[r], phase'[r])]
NextTraffic(r) ==
  [up |-> wire'["TAG_HALO_UP"][r + 1][r],
   down |-> wire'["TAG_HALO_DOWN"][r][r + 1],
   forward |-> wire'["TAG_ORDERED"][r][r + 1],
   backward |-> wire'["TAG_ORDERED"][r + 1][r]]

LEMMA ExchangesFixed ==
  ASSUME run' = run
  PROVE  /\ \A s, p, k : LastExchange(s, p, k)' = LastExchange(s, p, k)
         /\ \A e, t, u, x : Turns(e, t, u, x)' = Turns(e, t, u, x)
         /\ \A v, w, x : InStep(v, w, x)' = InStep(v, w, x)
<1>1. ASSUME NEW s, NEW p, NEW k PROVE LastExchange(s, p, k)' = LastExchange(s, p, k)
  BY ScheduleFixed DEF LastExchange
<1>2. ASSUME NEW e PROVE /\ Turning(e)' = Turning(e) /\ Upwards(e)' = Upwards(e)
                         /\ ExchangeBefore(e)' = ExchangeBefore(e)
  BY <1>1, ScheduleFixed DEF Turning, Upwards, ExchangeBefore
<1>3. ASSUME NEW e, NEW t, NEW u, NEW x PROVE Turns(e, t, u, x)' = Turns(e, t, u, x)
  BY <1>2 DEF Turns
<1>4. ASSUME NEW v, NEW w, NEW x PROVE InStep(v, w, x)' = InStep(v, w, x)
  <2>1. PICK e, f, t, u : e = v.exchange /\ f = w.exchange /\ t = v.turn /\ u = w.turn
    OBVIOUS
  <2>2. /\ ExchangeBefore(e)' = ExchangeBefore(e) /\ ExchangeBefore(f)' = ExchangeBefore(f)
        /\ Turns(e, t, u, x)' = Turns(e, t, u, x)
        /\ Turns(e, t, 2, x)' = Turns(e, t, 2, x) /\ Turns(f, 2, u, x)' = Turns(f, 2, u, x)
    BY <1>2, <1>3
  <2>. QED  BY <2>1, <2>2 DEF InStep, Halos, Holds
<1>. QED  BY <1>1, <1>3, <1>4

LEMMA NextViewIs ==
  ASSUME run' = run, NEW r
  PROVE  View(r)' = NextView(r) /\ Traffic(r)' = NextTraffic(r)
<1>1. PICK s, p, k : s = stage'[r] /\ p = phase'[r] /\ k = pass'[r]
  OBVIOUS
<1>2. LastExchange(stage[r], phase[r], pass[r])' = LastExchange(s, p, k)'
  BY <1>1
<1>3. LastExchange(s, p, k)' = LastExchange(s, p, k)
  BY ExchangesFixed
<1>. QED  BY <1>1, <1>2, <1>3 DEF View, NextView, Traffic, NextTraffic

LEMMA NextNeighbours ==
  ASSUME run' = run, NEW r \in Uppers, rep'[r] = rep'[r + 1],
         InStep(NextView(r), NextView(r + 1), NextTraffic(r))
  PROVE  Neighbours(r)'
<1>1. PICK v, w, x : v = NextView(r) /\ w = NextView(r + 1) /\ x = NextTraffic(r)
  OBVIOUS
<1>2. View(r)' = v /\ View(r + 1)' = w /\ Traffic(r)' = x
  BY <1>1, NextViewIs
<1>3. InStep(v, w, x) /\ InStep(v, w, x)' = InStep(v, w, x)
  BY <1>1, ExchangesFixed
<1>4. InStep(View(r), View(r + 1), Traffic(r))'
  BY <1>2, <1>3
<1>. QED  BY <1>4 DEF Neighbours

LEMMA UpperRanks ==
  ASSUME NEW r \in Uppers
  PROVE  r \in Ranks /\ r + 1 \in Ranks /\ r + 1 # r /\ P > 1
BY RanksAssumption DEF Uppers, Ranks

\* Where a rank in an exchange is.
LEMMA ViewIsOk ==
  ASSUME Control, NEW r \in Ranks, StageRight(r)
  PROVE  OkView(View(r))
<1>1. LegalAt(stage[r], phase[r], pass[r], rep[r]) /\ ControlTypes
  BY HereLegal
<1>2. pass[r] \in Nat
  BY <1>1 DEF ControlTypes
<1>. DEFINE e == LastExchange(stage[r], phase[r], pass[r])
<1>3. CASE phase[r] \in HaloPhases
  <2>1. stage[r] \in {"initial", "pass", "residual"}
    BY <1>1, <1>3 DEF LegalAt, PhasesOf, HaloPhases, Stages
  <2>2. e = Exchange(stage[r], pass[r]) /\ (stage[r] = "initial" => pass[r] = 0)
    BY <1>3, <2>1 DEF LastExchange, HaloPhases, StageRight, RightAt
  <2>3. LegalExchange(e) /\ e # NoExchange
    BY <1>2, <2>1, <2>2 DEF LegalExchange, StageRight, RightAt, Exchange, NoExchange
  <2>4. e.stage = "pass" => TurnStep(stage[r], phase[r]) = 0
    BY <1>3, <2>1, <2>2 DEF TurnStep, Exchange, HaloPhases
  <2>5. HaloStep(phase[r]) \in 1..4 /\ TurnStep(stage[r], phase[r]) \in 0..2
    BY DEF HaloStep, TurnStep
  <2>. HIDE DEF e
  <2>. QED  BY <2>3, <2>4, <2>5 DEF OkView, View, e
<1>4. CASE phase[r] \notin HaloPhases
  <2>1. HaloStep(phase[r]) = 4 /\ TurnStep(stage[r], phase[r]) \in 0..2
    BY <1>4 DEF HaloStep, TurnStep, HaloPhases
  <2>. QED  BY <2>1 DEF OkView, View
<1>. QED  BY <1>3, <1>4
-----------------------------------------------------------------------------
(* The steps of a pair of neighbours; v is the upper one and w the lower. *)

\* A rank stays where it is, or in a pass that nobody takes turns in.
SameStep(v, u) ==
  /\ u.exchange = v.exchange /\ u.halo = v.halo
  /\ u.turn = v.turn \/ ~ Turning(v.exchange)

LEMMA PairStays ==
  ASSUME NEW v, NEW w, NEW x, InStep(v, w, x), NEW u
  PROVE  /\ SameStep(v, u) => InStep(u, w, x)
         /\ SameStep(w, u) => InStep(v, u, x)
BY DEF InStep, SameStep, Turns

\* A rank begins exchange e, and sends its first row up.
Begins(v, u, e) ==
  /\ v.halo = 4 /\ v.turn = 2 /\ ExchangeBefore(e) = v.exchange
  /\ LegalExchange(e) /\ e # NoExchange
  /\ u.exchange = e /\ u.halo = 1 /\ (e.stage = "pass" => u.turn = 0)

LEMMA UpperBegins ==
  ASSUME NEW v, NEW w, NEW x, InStep(v, w, x), OkView(w), NEW e, NEW u, Begins(v, u, e)
  PROVE  InStep(u, w, x)
<1>1. CASE v.exchange = w.exchange /\ Halos(x, v.halo = 1, v.halo >= 3 /\ w.halo < 4)
            /\ Turns(v.exchange, v.turn, w.turn, x)
  BY <1>1 DEF InStep, Begins, Halos, Holds
<1>2. CASE /\ ExchangeBefore(w.exchange) = v.exchange
           /\ v.halo >= 3 /\ w.halo < 4
           /\ Halos(x, TRUE, FALSE) /\ Turns(v.exchange, v.turn, 2, x)
  <2>1. e = w.exchange
    BY <1>2, NextExchangeIsOne DEF OkView, Begins
  <2>2. Turns(e, u.turn, w.turn, x)
    BY <1>2, <2>1 DEF Turns, Turning, OkView, Begins, Holds
  <2>. QED  BY <1>2, <2>1, <2>2 DEF InStep, Begins, Halos, Holds
<1>. QED  BY <1>1, <1>2 DEF InStep, Begins, Halos, Holds

LEMMA LowerBegins ==
  ASSUME NEW v, NEW w, NEW x, InStep(v, w, x), OkView(v), NEW e, NEW u, Begins(w, u, e),
         NEW m,
         NEW y, y.up = Append(x.up, m), y.down = x.down, y.forward = x.forward, y.backward = x.backward
  PROVE  InStep(v, u, y) /\ y.up = <<m>>
<1>1. CASE /\ v.exchange = w.exchange /\ (w.halo = 4 => v.halo >= 3)
           /\ Halos(x, v.halo = 1, v.halo >= 3 /\ w.halo < 4)
           /\ Turns(v.exchange, v.turn, w.turn, x)
  <2>1. y.up = <<m>>
    BY <1>1, OneMessage DEF Begins, Halos, Holds
  <2>2. Turns(v.exchange, v.turn, 2, y)
    BY <1>1 DEF Turns, Begins
  <2>. QED  BY <1>1, <2>1, <2>2 DEF InStep, Begins, Halos, Holds
<1>2. CASE /\ ExchangeBefore(v.exchange) = w.exchange
           /\ v.halo = 1
           /\ Halos(x, FALSE, w.halo < 4) /\ Turns(w.exchange, 2, w.turn, x)
  <2>1. e = v.exchange
    BY <1>2, NextExchangeIsOne DEF OkView, Begins
  <2>2. Turns(e, v.turn, u.turn, y)
    BY <1>2, <2>1 DEF Turns, Turning, OkView, Begins, Holds
  <2>3. y.up = <<m>>
    BY <1>2, OneMessage DEF Halos, Holds
  <2>. QED  BY <1>2, <2>1, <2>2, <2>3 DEF InStep, Begins, Halos, Holds
<1>. QED  BY <1>1, <1>2 DEF InStep, Begins, Halos, Holds

\* A rank takes the row from below ...
GoesOn(v, u, h) ==
  u.exchange = v.exchange /\ u.halo = h /\ u.turn = v.turn

LEMMA UpperTakesUp ==
  ASSUME NEW v, NEW w, NEW x, InStep(v, w, x), v.halo = 1, x.up # <<>>,
         NEW u, GoesOn(v, u, 2),
         NEW y, y.up = Tail(x.up), y.down = x.down, y.forward = x.forward, y.backward = x.backward
  PROVE  InStep(u, w, y) /\ v.exchange = w.exchange
<1>1. /\ v.exchange = w.exchange /\ w.halo # 4
      /\ Halos(x, TRUE, FALSE) /\ Turns(v.exchange, v.turn, w.turn, x)
  BY DEF InStep, Halos, Holds
<1>2. Tail(x.up) = <<>>
  BY <1>1, OneMessage DEF Halos, Holds
<1>. QED  BY <1>1, <1>2 DEF InStep, Halos, Holds, GoesOn, Turns

LEMMA LowerGoesOn ==
  ASSUME NEW v, NEW w, NEW x, InStep(v, w, x), w.halo \in 1..3, NEW h \in 1..3,
         NEW u, GoesOn(w, u, h)
  PROVE  InStep(v, u, x)
BY DEF InStep, Halos, Holds, GoesOn, Turns

\* ... sends its last row down ...
SentOn(x, y, m) ==
  y.down = Append(x.down, m) /\ y.up = x.up /\ y.forward = x.forward /\ y.backward = x.backward

LEMMA UpperSendsDown ==
  ASSUME NEW v, NEW w, NEW x, InStep(v, w, x), v.halo = 2, OkView(w),
         NEW u, GoesOn(v, u, 3), NEW m, NEW y, SentOn(x, y, m)
  PROVE  InStep(u, w, y) /\ y.down = <<m>> /\ v.exchange = w.exchange
<1>1. /\ v.exchange = w.exchange /\ w.halo < 4
      /\ Halos(x, FALSE, FALSE) /\ Turns(v.exchange, v.turn, w.turn, x)
  BY DEF InStep, Halos, Holds, OkView
<1>2. y.down = <<m>>
  BY <1>1, OneMessage DEF Halos, Holds, SentOn
<1>. QED  BY <1>1, <1>2 DEF InStep, Halos, Holds, GoesOn, Turns, SentOn

\* ... and takes the one from above.
LEMMA LowerTakesDown ==
  ASSUME NEW v, NEW w, NEW x, InStep(v, w, x), w.halo = 3, x.down # <<>>,
         NEW u, GoesOn(w, u, 4),
         NEW y, y.down = Tail(x.down), y.up = x.up, y.forward = x.forward, y.backward = x.backward
  PROVE  InStep(v, u, y) /\ (v.exchange = w.exchange \/ ExchangeBefore(v.exchange) = w.exchange)
<1>0. Halos(x, FALSE, TRUE) => Tail(x.down) = <<>>
  BY OneMessage DEF Halos, Holds
<1>1. CASE /\ v.exchange = w.exchange /\ v.halo >= 3
           /\ Halos(x, v.halo = 1, TRUE) /\ Turns(v.exchange, v.turn, w.turn, x)
  BY <1>0, <1>1 DEF InStep, Halos, Holds, GoesOn, Turns
<1>2. CASE /\ ExchangeBefore(v.exchange) = w.exchange /\ v.halo = 1
           /\ Halos(x, FALSE, TRUE) /\ Turns(w.exchange, 2, w.turn, x)
  BY <1>0, <1>2 DEF InStep, Halos, Holds, GoesOn, Turns
<1>. QED  BY <1>1, <1>2 DEF InStep, Halos, Holds

LEMMA UpperIsThrough ==
  ASSUME NEW v, NEW w, NEW x, InStep(v, w, x), v.halo = 3, NEW u, GoesOn(v, u, 4)
  PROVE  InStep(u, w, x)
BY DEF InStep, Halos, Holds, GoesOn, Turns

\* A rank takes its turn or ends it.
Turned(v, u, t) ==
  /\ Turning(v.exchange) /\ v.halo = 4 /\ u.exchange = v.exchange /\ u.halo = 4
  /\ v.turn = t /\ u.turn = t + 1

LEMMA LowerTakesForward ==
  ASSUME NEW v, NEW w, NEW x, InStep(v, w, x), ~ Upwards(w.exchange), x.forward # <<>>,
         NEW u, Turned(w, u, 0),
         NEW y, y.forward = Tail(x.forward), y.up = x.up, y.down = x.down, y.backward = x.backward
  PROVE  InStep(v, u, y)
<1>0. Holds(x.forward, TRUE) => Tail(x.forward) = <<>>
  BY OneMessage DEF Holds
<1>1. CASE /\ v.exchange = w.exchange /\ (w.halo = 4 => v.halo >= 3)
           /\ Halos(x, v.halo = 1, v.halo >= 3 /\ w.halo < 4)
           /\ Turns(v.exchange, v.turn, w.turn, x)
  BY <1>0, <1>1 DEF InStep, Halos, Holds, Turned, Turns
<1>2. CASE /\ ExchangeBefore(v.exchange) = w.exchange /\ v.halo = 1
           /\ Halos(x, FALSE, w.halo < 4) /\ Turns(w.exchange, 2, w.turn, x)
  BY <1>0, <1>2 DEF InStep, Halos, Holds, Turned, Turns
<1>. QED  BY <1>1, <1>2 DEF InStep, Turned, Halos, Holds

LEMMA UpperTakesForward ==
  ASSUME NEW v, NEW w, NEW x, InStep(v, w, x), ~ Upwards(v.exchange),
         NEW u, Turned(v, u, 0)
  PROVE  InStep(u, w, x)
BY DEF InStep, Halos, Holds, Turned, Turns

LEMMA UpperTakesBackward ==
  ASSUME NEW v, NEW w, NEW x, InStep(v, w, x), Upwards(v.exchange), x.backward # <<>>,
         NEW u, Turned(v, u, 0),
         NEW y, y.backward = Tail(x.backward), y.up = x.up, y.down = x.down, y.forward = x.forward
  PROVE  InStep(u, w, y)
<1>0. Holds(x.backward, TRUE) => Tail(x.backward) = <<>>
  BY OneMessage DEF Holds
<1>1. CASE /\ v.exchange = w.exchange
           /\ Halos(x, v.halo = 1, v.halo >= 3 /\ w.halo < 4)
           /\ Turns(v.exchange, v.turn, w.turn, x)
  BY <1>0, <1>1 DEF InStep, Halos, Holds, Turned, Turns
<1>2. CASE /\ ExchangeBefore(w.exchange) = v.exchange
           /\ v.halo >= 3 /\ w.halo < 4
           /\ Halos(x, TRUE, FALSE) /\ Turns(v.exchange, v.turn, 2, x)
  BY <1>0, <1>2 DEF InStep, Halos, Holds, Turned, Turns
<1>. QED  BY <1>1, <1>2 DEF InStep, Turned, Halos, Holds

LEMMA LowerTakesBackward ==
  ASSUME NEW v, NEW w, NEW x, InStep(v, w, x), Upwards(w.exchange),
         NEW u, Turned(w, u, 0)
  PROVE  InStep(v, u, x)
BY DEF InStep, Halos, Holds, Turned, Turns

HandedForward(x, y, m) ==
  y.forward = Append(x.forward, m) /\ y.up = x.up /\ y.down = x.down /\ y.backward = x.backward
HandedBackward(x, y, m) ==
  y.backward = Append(x.backward, m) /\ y.up = x.up /\ y.down = x.down /\ y.forward = x.forward

LEMMA UpperHandsForward ==
  ASSUME NEW v, NEW w, NEW x, InStep(v, w, x), ~ Upwards(v.exchange), OkView(w),
         NEW u, Turned(v, u, 1), NEW m, NEW y, HandedForward(x, y, m)
  PROVE  InStep(u, w, y) /\ y.forward = <<m>> /\ v.exchange = w.exchange
<1>1. /\ v.exchange = w.exchange
      /\ Halos(x, v.halo = 1, v.halo >= 3 /\ w.halo < 4)
      /\ Turns(v.exchange, v.turn, w.turn, x)
  BY DEF InStep, Turned, Turns
<1>2. x.forward = <<>> /\ w.turn = 0
  BY <1>1 DEF Turns, Turned, Holds, OkView
<1>3. y.forward = <<m>>
  BY <1>2, OneMessage DEF Holds, HandedForward
<1>. QED  BY <1>1, <1>2, <1>3 DEF InStep, Halos, Holds, Turned, Turns, HandedForward

LEMMA LowerHandsForward ==
  ASSUME NEW v, NEW w, NEW x, InStep(v, w, x), ~ Upwards(w.exchange),
         NEW u, Turned(w, u, 1)
  PROVE  InStep(v, u, x)
BY DEF InStep, Halos, Holds, Turned, Turns

LEMMA LowerHandsBackward ==
  ASSUME NEW v, NEW w, NEW x, InStep(v, w, x), Upwards(w.exchange), OkView(v),
         NEW u, Turned(w, u, 1), NEW m, NEW y, HandedBackward(x, y, m)
  PROVE  InStep(v, u, y) /\ y.backward = <<m>> /\ v.exchange = w.exchange
<1>1. /\ v.exchange = w.exchange /\ (w.halo = 4 => v.halo >= 3)
      /\ Halos(x, v.halo = 1, v.halo >= 3 /\ w.halo < 4)
      /\ Turns(v.exchange, v.turn, w.turn, x)
  BY DEF InStep, Turned, Turns
<1>2. x.backward = <<>> /\ v.turn = 0
  BY <1>1 DEF Turns, Turned, Holds, OkView
<1>3. y.backward = <<m>>
  BY <1>2, OneMessage DEF Holds, HandedBackward
<1>. QED  BY <1>1, <1>2, <1>3 DEF InStep, Halos, Holds, Turned, Turns, HandedBackward

LEMMA UpperHandsBackward ==
  ASSUME NEW v, NEW w, NEW x, InStep(v, w, x), Upwards(v.exchange),
         NEW u, Turned(v, u, 1)
  PROVE  InStep(u, w, x)
BY DEF InStep, Halos, Holds, Turned, Turns
-----------------------------------------------------------------------------
(* What a rank sends and takes. *)

LEMMA RestOfList ==
  ASSUME NEW s, IsSequence(s), s # <<>>
  PROVE  /\ IsSequence(Tail(s)) /\ Len(s) \in Nat \ {0} /\ Len(Tail(s)) = Len(s) - 1
         /\ Head(s) = s[1] /\ \A k \in 1..Len(Tail(s)) : Tail(s)[k] = s[k + 1]
<1>1. PICK S : s \in Seq(S)
  BY DEF IsSequence
<1>2. /\ Tail(s) \in Seq(S) /\ Len(s) \in Nat \ {0} /\ Len(Tail(s)) = Len(s) - 1
      /\ Head(s) = s[1] /\ \A k \in 1..Len(Tail(s)) : Tail(s)[k] = s[k + 1]
  BY <1>1
<1>. QED  BY <1>2 DEF IsSequence

\* One wire changes.
OnlyWire(tag, p, q, s) ==
  /\ wire'[tag][p][q] = s
  /\ \A t \in Tags, a, b \in Ranks :
       t # tag \/ a # p \/ b # q => wire'[t][a][b] = wire[t][a][b]

LEMMA OneWire ==
  ASSUME Wires, NEW tag \in Tags, NEW p \in Ranks, NEW q \in Ranks, NEW s,
         wire' = [wire EXCEPT ![tag][p][q] = s], ~ Unused(tag, p, q), IsSequence(s)
  PROVE  Wires' /\ OnlyWire(tag, p, q, s)
<1>. DEFINE F(t, a, b) == IF t = tag /\ a = p /\ b = q THEN s ELSE wire[t][a][b]
<1>1. wire = [t \in Tags |-> [a \in Ranks |-> [b \in Ranks |-> wire[t][a][b]]]]
  BY DEF Wires
<1>2. wire' = [t \in Tags |-> [a \in Ranks |-> [b \in Ranks |-> F(t, a, b)]]]
  <2>1. wire[tag] = [a \in Ranks |-> [b \in Ranks |-> wire[tag][a][b]]]
    BY <1>1
  <2>2. wire[tag][p] = [b \in Ranks |-> wire[tag][p][b]]
    BY <2>1
  <2>3. [wire[tag][p] EXCEPT ![q] = s] = [b \in Ranks |-> F(tag, p, b)]
    BY <2>2
  <2>4. [wire[tag] EXCEPT ![p] = [wire[tag][p] EXCEPT ![q] = s]]
          = [a \in Ranks |-> [b \in Ranks |-> F(tag, a, b)]]
    <3>1. ASSUME NEW a \in Ranks, a # p
          PROVE  wire[tag][a] = [b \in Ranks |-> F(tag, a, b)]
      BY <2>1, <3>1
    <3>. HIDE DEF F
    <3>. QED  BY <2>1, <2>3, <3>1
  <2>5. wire' = [wire EXCEPT ![tag] = [wire[tag] EXCEPT ![p] = [wire[tag][p] EXCEPT ![q] = s]]]
    OBVIOUS
  <2>6. ASSUME NEW t \in Tags, t # tag
        PROVE  wire[t] = [a \in Ranks |-> [b \in Ranks |-> F(t, a, b)]]
    BY <1>1, <2>6
  <2>. HIDE DEF F
  <2>7. wire' = [wire EXCEPT ![tag] = [a \in Ranks |-> [b \in Ranks |-> F(tag, a, b)]]]
    BY <2>4, <2>5
  <2>8. wire = [t \in Tags |-> wire[t]]
    BY <1>1
  <2>9. wire' = [t \in Tags |-> IF t = tag THEN [a \in Ranks |-> [b \in Ranks |-> F(tag, a, b)]]
                                 ELSE wire[t]]
    BY <2>7, <2>8
  <2>. DEFINE G(t) == [a \in Ranks |-> [b \in Ranks |-> F(t, a, b)]]
  <2>10. wire' = [t \in Tags |-> IF t = tag THEN G(tag) ELSE wire[t]]
    BY <2>9
  <2>11. \A t \in Tags : t # tag => wire[t] = G(t)
    BY <2>6
  <2>. HIDE DEF G
  <2>12. wire' = [t \in Tags |-> G(t)]
    BY <2>10, <2>11
  <2>. QED  BY <2>12 DEF G
<1>. HIDE DEF F
<1>2a. \A t \in Tags, a, b \in Ranks : wire'[t][a][b] = F(t, a, b)
  BY <1>2
<1>3. OnlyWire(tag, p, q, s)
  BY <1>2a DEF OnlyWire, F
<1>4. wire' = [t \in Tags |-> [a \in Ranks |-> [b \in Ranks |-> wire'[t][a][b]]]]
  <2>1. ASSUME NEW t \in Tags, NEW a \in Ranks
        PROVE  [b \in Ranks |-> F(t, a, b)] = [b \in Ranks |-> wire'[t][a][b]]
    BY <1>2a
  <2>2. ASSUME NEW t \in Tags
        PROVE  [a \in Ranks |-> [b \in Ranks |-> F(t, a, b)]]
                 = [a \in Ranks |-> [b \in Ranks |-> wire'[t][a][b]]]
    BY <2>1
  <2>. QED  BY <1>2, <2>2
<1>5. ASSUME NEW t \in Tags, NEW a \in Ranks, NEW b \in Ranks
      PROVE  IsSequence(wire'[t][a][b]) /\ (Unused(t, a, b) => wire'[t][a][b] = <<>>)
  <2>1. IsSequence(wire[t][a][b]) /\ (Unused(t, a, b) => wire[t][a][b] = <<>>)
    BY DEF Wires
  <2>2. CASE t = tag /\ a = p /\ b = q
    BY <2>2, <1>3 DEF OnlyWire
  <2>3. CASE ~ (t = tag /\ a = p /\ b = q)
    BY <2>1, <2>3, <1>3 DEF OnlyWire
  <2>. QED  BY <2>2, <2>3
<1>. QED  BY <1>3, <1>4, <1>5 DEF Wires, Unused

LEMMA MessageSent ==
  ASSUME Wires, NEW tag \in Tags, NEW p \in Ranks, NEW q \in Ranks, ~ Unused(tag, p, q),
         NEW m, Send(p, q, tag, m)
  PROVE  Wires' /\ OnlyWire(tag, p, q, Append(wire[tag][p][q], m))
<1>1. q # PROC_NULL
  BY DEF Ranks, PROC_NULL
<1>2. wire' = [wire EXCEPT ![tag][p][q] = Append(wire[tag][p][q], m)]
  BY <1>1 DEF Send
<1>3. IsSequence(Append(wire[tag][p][q], m))
  BY AppendedList DEF Wires
<1>. QED  BY <1>2, <1>3, OneWire

LEMMA MessageTaken ==
  ASSUME Wires, NEW tag \in Tags, NEW p \in Ranks, NEW q \in Ranks, ~ Unused(tag, p, q),
         Incoming(q, p, tag), Receive(q, p, tag)
  PROVE  /\ Wires' /\ OnlyWire(tag, p, q, Tail(wire[tag][p][q]))
         /\ wire[tag][p][q] # <<>> /\ Message(q, p, tag) = wire[tag][p][q][1]
<1>1. wire' = [wire EXCEPT ![tag][p][q] = Tail(wire[tag][p][q])]
  BY DEF Receive
<1>2. wire[tag][p][q] # <<>> /\ IsSequence(wire[tag][p][q])
  BY DEF Incoming, Wires
<1>3. IsSequence(Tail(wire[tag][p][q])) /\ Message(q, p, tag) = wire[tag][p][q][1]
  BY <1>2, RestOfList DEF Message
<1>. QED  BY <1>1, <1>2, <1>3, OneWire

-----------------------------------------------------------------------------
(* A step of one rank, and its two neighbours. *)

LEMMA PairElsewhere ==
  ASSUME NEW m \in Ranks, OthersStay(m), NEW q \in Uppers, q # m, q + 1 # m,
         NextTraffic(q) = Traffic(q), Neighbours(q)
  PROVE  Neighbours(q)'
<1>1. /\ run' = run /\ stage'[q] = stage[q] /\ phase'[q] = phase[q] /\ pass'[q] = pass[q] /\ rep'[q] = rep[q]
      /\ stage'[q + 1] = stage[q + 1] /\ phase'[q + 1] = phase[q + 1]
      /\ pass'[q + 1] = pass[q + 1] /\ rep'[q + 1] = rep[q + 1]
  BY UpperRanks DEF OthersStay
<1>2. CASE rep[q] = rep[q + 1]
  <2>1. NextView(q) = View(q) /\ NextView(q + 1) = View(q + 1)
    BY <1>1 DEF NextView, View
  <2>2. InStep(NextView(q), NextView(q + 1), NextTraffic(q))
    BY <1>2, <2>1 DEF Neighbours
  <2>. QED  BY <1>1, <1>2, <2>2, NextNeighbours
<1>3. CASE rep[q] # rep[q + 1]
  <2>1. PICK x : x = Traffic(q)
    OBVIOUS
  <2>2. Halos(x, FALSE, FALSE) /\ Turns(NoExchange, 2, 2, x)
    BY <1>3, <2>1 DEF Neighbours
  <2>3. Traffic(q)' = x
    BY <1>1, <2>1, NextViewIs
  <2>4. Halos(Traffic(q), FALSE, FALSE)' /\ Turns(NoExchange, 2, 2, Traffic(q))'
    BY <2>2, <2>3 DEF Turns, Turning, NoExchange, Exchange
  <2>5. (Through(q, q + 1) \/ Through(q + 1, q))'
    BY <1>1, <1>3 DEF Neighbours, Through, At
  <2>. QED  BY <1>1, <1>3, <2>4, <2>5 DEF Neighbours
<1>. QED  BY <1>2, <1>3

\* In the middle of a repetition.
Solving == {"rhs_norm", "initial", "pass", "residual", "synchronise"}

LEMMA SolvingTogether ==
  ASSUME NEW q, Neighbours(q), stage[q] \in Solving \/ stage[q + 1] \in Solving
  PROVE  rep[q] = rep[q + 1] /\ InStep(View(q), View(q + 1), Traffic(q))
BY DEF Neighbours, Through, At, Solving

LEMMA PairsMove ==
  ASSUME HaloControl, NEW m \in Ranks, OthersStay(m), rep'[m] = rep[m], stage[m] \in Solving,
         m \in Uppers => InStep(NextView(m), View(m + 1), NextTraffic(m)),
         m - 1 \in Uppers => InStep(View(m - 1), NextView(m), NextTraffic(m - 1)),
         \A q \in Uppers : q # m /\ q + 1 # m => NextTraffic(q) = Traffic(q)
  PROVE  \A q \in Uppers : Neighbours(q)'
<1>. SUFFICES ASSUME NEW q \in Uppers PROVE Neighbours(q)'
  OBVIOUS
<1>0. Neighbours(q) /\ run' = run
  BY DEF HaloControl, OthersStay
<1>1. CASE q # m /\ q + 1 # m
  BY <1>0, <1>1, PairElsewhere
<1>2. CASE q = m
  <2>1. rep[m] = rep[m + 1]
    BY <1>0, <1>2, SolvingTogether
  <2>2. rep'[m + 1] = rep[m + 1] /\ NextView(m + 1) = View(m + 1)
    BY <1>2, UpperRanks DEF OthersStay, NextView, View
  <2>. QED  BY <1>0, <1>2, <2>1, <2>2, NextNeighbours
<1>3. CASE q + 1 = m
  <2>0. q = m - 1
    BY <1>3 DEF Uppers
  <2>1. rep[q] = rep[q + 1]
    BY <1>0, <1>3, SolvingTogether
  <2>2. rep'[q] = rep[q] /\ NextView(q) = View(q)
    BY <1>3, UpperRanks DEF OthersStay, NextView, View
  <2>3. InStep(NextView(q), NextView(q + 1), NextTraffic(q))
    BY <1>3, <2>0, <2>2
  <2>. QED  BY <1>0, <1>3, <2>1, <2>2, <2>3, NextNeighbours
<1>. QED  BY <1>1, <1>2, <1>3

\* A step that neither neighbour notices.
LEMMA PairsStay ==
  ASSUME HaloControl, NEW m \in Ranks, OthersStay(m), wire' = wire, rep'[m] = rep[m],
         SameStep(View(m), NextView(m)), ~ At(m, "barrier_out", "wait"),
         \/ stage[m] \in {"reset", "barrier_in", "finished"} =>
              stage'[m] \in {"reset", "barrier_in", "finished"}
         \/ \A q \in Uppers : q = m \/ q + 1 = m => rep[q] = rep[q + 1]
  PROVE  \A q \in Uppers : Neighbours(q)'
<1>. SUFFICES ASSUME NEW q \in Uppers PROVE Neighbours(q)'
  OBVIOUS
<1>0. Neighbours(q) /\ run' = run /\ NextTraffic(q) = Traffic(q)
  BY DEF HaloControl, OthersStay, NextTraffic, Traffic
<1>1. CASE q # m /\ q + 1 # m
  BY <1>0, <1>1, PairElsewhere
<1>2. ASSUME q = m \/ q + 1 = m PROVE Neighbours(q)'
  <2>1. /\ rep'[q] = rep[q] /\ rep'[q + 1] = rep[q + 1]
        /\ q # m => stage'[q] = stage[q] /\ phase'[q] = phase[q] /\ NextView(q) = View(q)
        /\ q + 1 # m => /\ stage'[q + 1] = stage[q + 1] /\ phase'[q + 1] = phase[q + 1]
                        /\ NextView(q + 1) = View(q + 1)
    BY UpperRanks DEF OthersStay, NextView, View
  <2>2. CASE rep[q] = rep[q + 1]
    <3>1. InStep(View(q), View(q + 1), Traffic(q))
      BY <1>0, <2>2 DEF Neighbours
    <3>2. q # q + 1
      BY UpperRanks
    <3>3. InStep(NextView(q), NextView(q + 1), NextTraffic(q))
      BY <1>0, <1>2, <2>1, <3>1, <3>2, PairStays
    <3>. QED  BY <1>0, <2>1, <2>2, <3>3, NextNeighbours
  <2>3. CASE rep[q] # rep[q + 1]
    <3>1. PICK x : x = Traffic(q)
      OBVIOUS
    <3>2. Halos(x, FALSE, FALSE) /\ Turns(NoExchange, 2, 2, x)
      BY <1>0, <2>3, <3>1 DEF Neighbours
    <3>3. Traffic(q)' = x
      BY <1>0, <3>1, NextViewIs
    <3>4. Halos(Traffic(q), FALSE, FALSE)' /\ Turns(NoExchange, 2, 2, Traffic(q))'
      BY <3>2, <3>3 DEF Turns, Turning, NoExchange, Exchange
    <3>5. (Through(q, q + 1) \/ Through(q + 1, q))'
      BY <1>0, <1>2, <2>1, <2>3, UpperRanks DEF Neighbours, Through, At
    <3>. QED  BY <2>1, <2>3, <3>4, <3>5 DEF Neighbours
  <2>. QED  BY <2>2, <2>3
<1>. QED  BY <1>1, <1>2
-----------------------------------------------------------------------------
(* The steps of a rank on a grid, and its neighbours. *)

LEMMA GoneTo ==
  ASSUME ControlTypes, NEW r \in Ranks, NEW s, NEW p, Goto(r, s, p)
  PROVE  /\ stage'[r] = s /\ phase'[r] = p
         /\ \A q \in Ranks : q # r => stage'[q] = stage[q] /\ phase'[q] = phase[q]
BY DEF ControlTypes, Goto

LEMMA GoneToPhase ==
  ASSUME ControlTypes, NEW r \in Ranks, NEW p, GotoPhase(r, p)
  PROVE  /\ stage'[r] = stage[r] /\ phase'[r] = p
         /\ \A q \in Ranks : q # r => stage'[q] = stage[q] /\ phase'[q] = phase[q]
BY GoneTo DEF GotoPhase

LEMMA OthersOut ==
  ASSUME ControlTypes, NEW r \in Ranks, run' = run,
         \A q \in Ranks : q # r => stage'[q] = stage[q] /\ phase'[q] = phase[q],
         pass' = pass \/ (\E k : pass' = [pass EXCEPT ![r] = k]),
         rep' = rep \/ (\E k : rep' = [rep EXCEPT ![r] = k]),
         outcome' = outcome \/ (\E o : outcome' = [outcome EXCEPT ![r] = o]),
         calls' = calls \/ (\E c, d : Enter(r, c, d))
  PROVE  OthersStay(r)
<1>1. ASSUME NEW q \in Ranks, q # r
      PROVE  pass'[q] = pass[q] /\ rep'[q] = rep[q] /\ outcome'[q] = outcome[q] /\ calls'[q] = calls[q]
  <2>1. pass'[q] = pass[q]
    BY <1>1 DEF ControlTypes
  <2>2. rep'[q] = rep[q]
    BY <1>1 DEF ControlTypes
  <2>3. outcome'[q] = outcome[q]
    BY <1>1 DEF ControlTypes
  <2>4. calls'[q] = calls[q]
    BY <1>1 DEF ControlTypes, Enter
  <2>. QED  BY <2>1, <2>2, <2>3, <2>4
<1>. QED  BY <1>1 DEF OthersStay

LEMMA StagesKept ==
  ASSUME \A r \in Ranks : StageRight(r), NEW m \in Ranks, OthersStay(m),
         RightAt(stage'[m], pass'[m])
  PROVE  \A r \in Ranks : StageRight(r)'
<1>. SUFFICES ASSUME NEW r \in Ranks PROVE StageRight(r)'
  OBVIOUS
<1>1. RightAt(stage'[r], pass'[r])
  BY DEF OthersStay, StageRight
<1>2. PICK s, k : s = stage'[r] /\ k = pass'[r]
  OBVIOUS
<1>3. RightAt(s, k)' = RightAt(s, k)
  BY ScheduleFixed DEF RightAt, OthersStay
<1>. QED  BY <1>1, <1>2, <1>3 DEF StageRight

LEMMA QuietMove ==
  ASSUME HaloControl, NEW m \in Ranks, OthersStay(m), wire' = wire, rep'[m] = rep[m],
         SameStep(View(m), NextView(m)), ~ At(m, "barrier_out", "wait"),
         \/ stage[m] \in {"reset", "barrier_in", "finished"} =>
              stage'[m] \in {"reset", "barrier_in", "finished"}
         \/ \A q \in Uppers : q = m \/ q + 1 = m => rep[q] = rep[q + 1],
         RightAt(stage'[m], pass'[m])
  PROVE  HaloControl'
<1>1. \A q \in Uppers : Neighbours(q)'
  BY PairsStay
<1>2. \A q \in Ranks : StageRight(q)'
  BY StagesKept DEF HaloControl
<1>3. Wires'
  BY DEF HaloControl, Wires
<1>. QED  BY <1>1, <1>2, <1>3 DEF HaloControl

\* A rank alone has no neighbours.
LEMMA AloneQuiet ==
  ASSUME HaloControl, P = 1, NEW m \in Ranks, OthersStay(m), wire' = wire,
         RightAt(stage'[m], pass'[m])
  PROVE  HaloControl'
<1>1. Uppers = {}
  BY DEF Uppers
<1>2. \A q \in Ranks : StageRight(q)'
  BY StagesKept DEF HaloControl
<1>3. Wires'
  BY DEF HaloControl, Wires
<1>. QED  BY <1>1, <1>2, <1>3 DEF HaloControl

LEMMA ResetQuiet ==
  ASSUME Control, HaloControl, NEW r \in Ranks, Reset(r)
  PROVE  HaloControl'
<1>1. /\ stage[r] = "reset" /\ phase[r] = "start" /\ wire' = wire /\ run' = run
      /\ calls' = calls /\ rep' = rep /\ outcome' = outcome /\ pass' = [pass EXCEPT ![r] = 0]
      /\ Goto(r, "barrier_in", "start")
  BY DEF Reset, At
<1>2. OthersStay(r) /\ stage'[r] = "barrier_in" /\ phase'[r] = "start" /\ pass'[r] = 0
  BY <1>1, HereLegal, GoneTo, OthersOut DEF ControlTypes
<1>3. SameStep(View(r), NextView(r))
  BY <1>1, <1>2 DEF SameStep, View, NextView, LastExchange, HaloStep, TurnStep
<1>. QED  BY <1>1, <1>2, <1>3, QuietMove DEF At, RightAt

LEMMA EnterBarrierQuiet ==
  ASSUME Control, HaloControl, NEW r \in Ranks, EnterBarrier(r)
  PROVE  HaloControl'
<1>1. /\ stage[r] \in {"barrier_in", "barrier_out"} /\ phase[r] = "start" /\ wire' = wire
      /\ run' = run /\ rep' = rep /\ outcome' = outcome /\ pass' = pass
      /\ Enter(r, "Barrier", 0) /\ GotoPhase(r, "wait")
  BY DEF EnterBarrier
<1>2. OthersStay(r) /\ stage'[r] = stage[r] /\ phase'[r] = "wait"
  BY <1>1, HereLegal, GoneToPhase, OthersOut
<1>3. SameStep(View(r), NextView(r))
  BY <1>1, <1>2 DEF SameStep, View, NextView, LastExchange, HaloStep, TurnStep
<1>4. StageRight(r)
  BY DEF HaloControl
<1>. QED  BY <1>1, <1>2, <1>3, <1>4, QuietMove DEF At, StageRight

\* On a grid only synchronise gathers.
LEMMA GatherStage ==
  ASSUME Control, Grid, NEW r \in Ranks,
         phase[r] \in {"gather", "regather", "ranges", "reranges", "rows", "rerows"}
  PROVE  stage[r] = "synchronise" /\ phase[r] \in {"gather", "ranges", "rows"}
BY HereLegal DEF LegalAt, PhasesOf, Stages, HaloPhases

LEMMA GatherQuiet ==
  ASSUME Control, HaloControl, Grid, NEW r \in Ranks,
         Gather(r) \/ GatherRows(r) \/ StoreRows(r)
  PROVE  HaloControl'
<1>1. stage[r] = "synchronise" /\ phase[r] \in {"gather", "ranges", "rows"}
  BY GatherStage DEF Gather, GatherRows, StoreRows
<1>2. /\ wire' = wire /\ run' = run /\ rep' = rep /\ outcome' = outcome /\ pass' = pass
      /\ calls' = calls \/ (\E c, d : Enter(r, c, d))
  BY DEF Gather, GatherRows, StoreRows
<1>3. \E p \in {"ranges", "rows", "copy"} : GotoPhase(r, p)
  BY <1>1 DEF Gather, GatherRows, StoreRows, Gathered
<1>4. PICK p \in {"ranges", "rows", "copy"} : GotoPhase(r, p)
  BY <1>3
<1>5. OthersStay(r) /\ stage'[r] = stage[r] /\ phase'[r] = p
  BY <1>2, <1>4, HereLegal, GoneToPhase, OthersOut
<1>6. SameStep(View(r), NextView(r))
  BY <1>1, <1>2, <1>5 DEF SameStep, View, NextView, LastExchange, HaloStep, TurnStep
<1>. QED  BY <1>1, <1>2, <1>5, <1>6, QuietMove DEF At, RightAt

LEMMA StartPassQuiet ==
  ASSUME Control, HaloControl, NEW r \in Ranks, StartPass(r)
  PROVE  HaloControl'
<1>1. /\ stage[r] = "pass" /\ phase[r] = "body" /\ wire' = wire /\ run' = run
      /\ rep' = rep /\ outcome' = outcome /\ pass' = pass /\ calls' = calls
      /\ GotoPhase(r, IF Ordered(Kind(r)) /\ P > 1 THEN "turn" ELSE "work")
  BY DEF StartPass, At
<1>. DEFINE p == IF Ordered(Kind(r)) /\ P > 1 THEN "turn" ELSE "work"
<1>2. OthersStay(r) /\ stage'[r] = stage[r] /\ phase'[r] = p
  BY <1>1, HereLegal, GoneToPhase, OthersOut
<1>3. CASE P # 1
  <2>1. P > 1
    BY <1>3, RanksAssumption
  <2>2. CASE Ordered(Kind(r))
    BY <1>1, <1>2, <2>1, <2>2, QuietMove
       DEF SameStep, View, NextView, LastExchange, HaloStep, TurnStep, At, RightAt
  <2>3. CASE ~ Ordered(Kind(r))
    <3>1. ~ Turning(View(r).exchange)
      BY <1>1, <2>3 DEF View, LastExchange, Exchange, Turning, Kind
    <3>2. SameStep(View(r), NextView(r))
      BY <1>1, <1>2, <2>3, <3>1 DEF SameStep, View, NextView, LastExchange, HaloStep
    <3>. QED  BY <1>1, <1>2, <2>3, <3>2, QuietMove DEF At, RightAt
  <2>. QED  BY <2>2, <2>3
<1>4. CASE P = 1
  BY <1>1, <1>2, <1>4, AloneQuiet DEF RightAt
<1>. QED  BY <1>3, <1>4

LEMMA UpdateItemQuiet ==
  ASSUME Control, HaloControl, NEW r \in Ranks, UpdateItem(r)
  PROVE  HaloControl'
<1>1. /\ phase[r] = "work" /\ wire' = wire /\ run' = run /\ stage' = stage /\ phase' = phase
      /\ rep' = rep /\ outcome' = outcome /\ pass' = pass /\ calls' = calls
  BY DEF UpdateItem
<1>2. stage[r] = "pass"
  BY <1>1, WorkIsInPass
<1>3. OthersStay(r)
  BY <1>1 DEF OthersStay
<1>. QED  BY <1>1, <1>2, <1>3, QuietMove
     DEF SameStep, View, NextView, At, RightAt
LEMMA HandedOnQuiet ==
  ASSUME Control, HaloControl, Grid, NEW r \in Ranks, HandedOn(r)
  PROVE  HaloControl'
<1>1. /\ phase[r] = "handed_on" /\ wire' = wire /\ run' = run
      /\ rep' = rep /\ outcome' = outcome /\ pass' = pass /\ calls' = calls
      /\ GotoPhase(r, "end_pass")
  BY DEF HandedOn
<1>2. stage[r] = "pass"
  BY <1>1, WorkIsInPass
<1>3. OthersStay(r) /\ stage'[r] = stage[r] /\ phase'[r] = "end_pass"
  BY <1>1, HereLegal, GoneToPhase, OthersOut
<1>4. SameStep(View(r), NextView(r))
  BY <1>1, <1>2, <1>3 DEF SameStep, View, NextView, LastExchange, HaloStep, TurnStep, HaloPhases
<1>. QED  BY <1>1, <1>2, <1>3, <1>4, QuietMove DEF At, RightAt

LEMMA WorkDoneQuiet ==
  ASSUME Control, HaloControl, Grid, NEW r \in Ranks, WorkDone(r)
  PROVE  HaloControl'
<1>1. /\ phase[r] = "work" /\ wire' = wire /\ run' = run
      /\ rep' = rep /\ outcome' = outcome /\ pass' = pass /\ calls' = calls
      /\ GotoPhase(r, "end_pass") /\ ~ (Ordered(Kind(r)) /\ P > 1)
  BY DEF WorkDone, FlatBlocks
<1>2. stage[r] = "pass"
  BY <1>1, WorkIsInPass
<1>3. OthersStay(r) /\ stage'[r] = stage[r] /\ phase'[r] = "end_pass"
  BY <1>1, HereLegal, GoneToPhase, OthersOut
<1>4. CASE P # 1
  <2>1. ~ Ordered(Kind(r))
    BY <1>1, <1>4, RanksAssumption
  <2>2. ~ Turning(View(r).exchange)
    BY <1>1, <1>2, <2>1 DEF View, LastExchange, Exchange, Turning, Kind
  <2>3. SameStep(View(r), NextView(r))
    BY <1>1, <1>2, <1>3, <2>2 DEF SameStep, View, NextView, LastExchange, HaloStep
  <2>. QED  BY <1>1, <1>2, <1>3, <2>3, QuietMove DEF At, RightAt
<1>5. CASE P = 1
  BY <1>1, <1>2, <1>3, <1>5, AloneQuiet DEF RightAt
<1>. QED  BY <1>4, <1>5

\* On a grid a stage begins with an exchange, but for two.
LEMMA GridFirstPhase ==
  ASSUME Grid, NEW s, NEW k
  PROVE  FirstPhase(s, k) = CASE s = "rhs_norm" -> "evaluate"
                              [] s = "synchronise" -> "gather"
                              [] OTHER -> "exchange"
BY DEF FirstPhase

LEMMA EndPassQuiet ==
  ASSUME Control, HaloControl, Grid, NEW r \in Ranks, EndPass(r)
  PROVE  HaloControl'
<1>. DEFINE k == pass[r] + 1
<1>1. /\ phase[r] = "end_pass" /\ wire' = wire /\ run' = run
      /\ rep' = rep /\ outcome' = outcome /\ pass' = [pass EXCEPT ![r] = k] /\ calls' = calls
  BY DEF EndPass
<1>2. stage[r] = "pass"
  BY <1>1, WorkIsInPass
<1>3. pass[r] \in Nat /\ k \in Nat /\ k # 0 /\ k - 1 = pass[r] /\ ControlTypes
  BY HereLegal DEF ControlTypes
<1>4. \/ (k % PassesPerIteration) # 0 /\ Goto(r, "pass", "exchange")
      \/ (k % PassesPerIteration) = 0 /\ CheckDue(k) /\ Goto(r, "residual", "exchange")
      \/ ~ CheckDue(k) /\ Goto(r, "pass", "exchange")
  <2>1. CASE (k % PassesPerIteration) # 0
    BY <2>1, GridFirstPhase DEF EndPass, Begin
  <2>2. CASE (k % PassesPerIteration) = 0 /\ CheckDue(k)
    BY <2>2, GridFirstPhase DEF EndPass, Begin
  <2>3. CASE (k % PassesPerIteration) = 0 /\ ~ CheckDue(k)
    <3>1. run \in Runs /\ k \in 0..Last
      BY <1>1, <1>3, WorkIsInPass, PassCount DEF ControlTypes
    <3>2. Iterations(k) < run.max_iterations
      <4>1. PassesPerIteration \in {1, 2} /\ run.max_iterations \in Nat /\ Last \in Nat
        BY <3>1, PassCount
      <4>2. Iterations(k) # run.max_iterations
        BY <2>3 DEF CheckDue
      <4>3. CASE PassesPerIteration = 1
        BY <4>1, <4>2, <4>3, <3>1 DEF Iterations, Last
      <4>4. CASE PassesPerIteration = 2
        BY <4>1, <4>2, <4>4, <3>1 DEF Iterations, Last
      <4>. QED  BY <4>1, <4>3, <4>4
    <3>. QED  BY <2>3, <3>2, GridFirstPhase DEF EndPass, Begin, Loop
  <2>. QED  BY <2>1, <2>2, <2>3
<1>5. \E s \in {"pass", "residual"} : Goto(r, s, "exchange") /\ RightAt(s, k)
        /\ LastExchange(s, "exchange", k) = Exchange("pass", pass[r])
  <2>. HIDE DEF k
  <2>1. ((k % PassesPerIteration) # 0 \/ ~ CheckDue(k)) =>
          LastExchange("pass", "exchange", k) = Exchange("pass", pass[r])
    BY <1>3 DEF LastExchange
  <2>2. LastExchange("residual", "exchange", k) = Exchange("pass", pass[r])
    BY <1>3 DEF LastExchange
  <2>. QED  BY <1>3, <1>4, <2>1, <2>2 DEF RightAt
<1>6. PICK s \in {"pass", "residual"} : Goto(r, s, "exchange") /\ RightAt(s, k)
        /\ LastExchange(s, "exchange", k) = Exchange("pass", pass[r])
  BY <1>5
<1>7. OthersStay(r) /\ stage'[r] = s /\ phase'[r] = "exchange" /\ pass'[r] = k
  <2>1. pass'[r] = k
    BY <1>1, <1>3 DEF ControlTypes
  <2>. QED  BY <1>1, <1>3, <1>6, <2>1, GoneTo, OthersOut
<1>8. SameStep(View(r), NextView(r))
  <2>1. LastExchange(stage[r], phase[r], pass[r]) = Exchange("pass", pass[r])
    BY <1>1, <1>2 DEF LastExchange
  <2>2. LastExchange(stage'[r], phase'[r], pass'[r]) = Exchange("pass", pass[r])
    BY <1>6, <1>7
  <2>3. /\ HaloStep(phase[r]) = 4 /\ HaloStep(phase'[r]) = 4
        /\ TurnStep(stage[r], phase[r]) = 2 /\ TurnStep(stage'[r], phase'[r]) = 2
    BY <1>1, <1>2, <1>7 DEF HaloStep, TurnStep, HaloPhases
  <2>. QED  BY <2>1, <2>2, <2>3 DEF SameStep, View, NextView
<1>. QED  BY <1>1, <1>2, <1>6, <1>7, <1>8, QuietMove DEF At

LEMMA EvaluateQuiet ==
  ASSUME Control, HaloControl, NEW r \in Ranks, Evaluate(r)
  PROVE  HaloControl'
<1>1. /\ \/ stage[r] = "rhs_norm" /\ phase[r] = "evaluate"
         \/ stage[r] \in {"initial", "residual"} /\ phase[r] = "body"
      /\ wire' = wire /\ run' = run /\ rep' = rep /\ outcome' = outcome /\ pass' = pass
      /\ \E c, d : Enter(r, c, d)
      /\ GotoPhase(r, "reduce")
  BY DEF Evaluate
<1>2. OthersStay(r) /\ stage'[r] = stage[r] /\ phase'[r] = "reduce"
  BY <1>1, HereLegal, GoneToPhase, OthersOut
<1>3. SameStep(View(r), NextView(r))
  BY <1>1, <1>2 DEF SameStep, View, NextView, LastExchange, HaloStep, TurnStep, HaloPhases
<1>4. StageRight(r)
  BY DEF HaloControl
<1>. QED  BY <1>1, <1>2, <1>3, <1>4, QuietMove DEF At, StageRight

LEMMA FinishQuiet ==
  ASSUME Control, HaloControl, NEW r \in Ranks, Finish(r)
  PROVE  HaloControl'
<1>1. /\ stage[r] = "synchronise" /\ phase[r] = "copy"
      /\ wire' = wire /\ run' = run /\ rep' = rep /\ calls' = calls /\ pass' = pass
      /\ \E o : outcome' = [outcome EXCEPT ![r] = o]
      /\ Goto(r, "barrier_out", "start")
  BY DEF Finish, At
<1>2. OthersStay(r) /\ stage'[r] = "barrier_out" /\ phase'[r] = "start"
  BY <1>1, HereLegal, GoneTo, OthersOut
<1>3. SameStep(View(r), NextView(r))
  BY <1>1, <1>2 DEF SameStep, View, NextView, LastExchange, HaloStep, TurnStep
<1>. QED  BY <1>1, <1>2, <1>3, QuietMove DEF At, RightAt

LEMMA LeaveReduceQuiet ==
  ASSUME Control, HaloControl, Grid, NEW r \in Ranks, LeaveReduce(r)
  PROVE  HaloControl'
<1>1. /\ phase[r] = "reduce" /\ wire' = wire /\ run' = run /\ rep' = rep /\ calls' = calls
      /\ pass' = pass
  BY DEF LeaveReduce
<1>2. LegalAt(stage[r], phase[r], pass[r], rep[r]) /\ ControlTypes /\ StageRight(r)
  BY HereLegal DEF HaloControl
<1>3. stage[r] \in {"rhs_norm", "initial", "residual"} /\ pass[r] \in Nat
  BY <1>1, <1>2 DEF LegalAt, PhasesOf, Stages, HaloPhases, ControlTypes
<1>4. outcome' = outcome \/ \E o : outcome' = [outcome EXCEPT ![r] = o]
  <2>1. stage[r] = "residual" => \E o : outcome' = [outcome EXCEPT ![r].reason = o]
    BY DEF LeaveReduce
  <2>2. \A o : [outcome EXCEPT ![r].reason = o]
                 = [outcome EXCEPT ![r] = [outcome[r] EXCEPT !.reason = o]]
    OBVIOUS
  <2>3. stage[r] = "initial" => \E o : outcome' = [outcome EXCEPT ![r] = o]
    BY DEF LeaveReduce
  <2>4. stage[r] = "rhs_norm" => outcome' = outcome
    BY DEF LeaveReduce
  <2>. QED  BY <1>3, <2>1, <2>2, <2>3, <2>4
<1>5. \E s, p : /\ Goto(r, s, p)
                /\ \/ stage[r] = "rhs_norm" /\ s = "initial" /\ p = "exchange"
                   \/ /\ stage[r] \in {"initial", "residual"}
                      /\ \/ s = "pass" /\ p = "exchange"
                         \/ s = "synchronise" /\ p = "gather"
                         \/ s = "barrier_out" /\ p = "start"
  <2>1. CASE stage[r] = "rhs_norm"
    BY <2>1, GridFirstPhase DEF LeaveReduce, Begin
  <2>2. CASE stage[r] \in {"initial", "residual"}
    <3>1. \/ Loop(r, pass[r]) \/ Goto(r, "barrier_out", "start")
          \/ Begin(r, "synchronise", pass[r])
      BY <2>2 DEF LeaveReduce
    <3>. QED  BY <2>2, <3>1, GridFirstPhase DEF Loop, Begin
  <2>. QED  BY <1>3, <2>1, <2>2
<1>6. PICK s, p : /\ Goto(r, s, p)
                  /\ \/ stage[r] = "rhs_norm" /\ s = "initial" /\ p = "exchange"
                     \/ /\ stage[r] \in {"initial", "residual"}
                        /\ \/ s = "pass" /\ p = "exchange"
                           \/ s = "synchronise" /\ p = "gather"
                           \/ s = "barrier_out" /\ p = "start"
  BY <1>5
<1>7. OthersStay(r) /\ stage'[r] = s /\ phase'[r] = p
  BY <1>1, <1>2, <1>4, <1>6, GoneTo, OthersOut
<1>8. SameStep(View(r), NextView(r)) /\ RightAt(s, pass[r])
  <2>1. LastExchange(stage[r], phase[r], pass[r]) = LastExchange(s, p, pass[r])
    <3>1. CASE stage[r] = "rhs_norm"
      BY <1>6, <3>1 DEF LastExchange
    <3>2. CASE stage[r] = "initial"
      <4>1. pass[r] = 0
        BY <1>2, <3>2 DEF StageRight, RightAt
      <4>. QED  BY <1>1, <1>6, <3>2, <4>1 DEF LastExchange
    <3>3. CASE stage[r] = "residual"
      <4>1. pass[r] # 0 /\ (pass[r] % PassesPerIteration) = 0 /\ CheckDue(pass[r])
        BY <1>2, <3>3 DEF StageRight, RightAt
      <4>. QED  BY <1>1, <1>6, <3>3, <4>1 DEF LastExchange
    <3>. QED  BY <1>3, <3>1, <3>2, <3>3
  <2>2. /\ HaloStep(phase[r]) = 4 /\ HaloStep(p) = 4
        /\ TurnStep(stage[r], phase[r]) = 2 /\ TurnStep(s, p) = 2
    BY <1>1, <1>6 DEF HaloStep, TurnStep, HaloPhases
  <2>3. RightAt(s, pass[r])
    BY <1>2, <1>6 DEF StageRight, RightAt
  <2>. QED  BY <1>1, <1>7, <2>1, <2>2, <2>3 DEF SameStep, View, NextView
<1>. QED  BY <1>1, <1>3, <1>7, <1>8, QuietMove DEF At
-----------------------------------------------------------------------------
(* What a barrier tells of the others. *)

\* A rank is in the repetition of the last place it has come to, or past it.
LEMMA RepAtLeast ==
  ASSUME Control, NEW path, NEW n \in Nat, IsPath(path, n), NEW q \in Ranks, IsOn(q, path, n),
         NEW k \in 1..Entered(q)
  PROVE  /\ rep[q] >= path[k].rep
         /\ path[k].stage = "barrier_out" /\ rep[q] = path[k].rep =>
              /\ Resting(q) /\ stage[q] # "finished" /\ path[k] = Inside(q)
<1>1. PICK e \in 1..n : e = Entered(q)
  BY DEF IsOn
<1>2. ControlTypes /\ rep[q] \in Nat /\ Legal(q)
  BY HereLegal DEF ControlTypes, Control
<1>3. /\ path[k].rep \in Nat /\ path[e].rep \in Nat
      /\ k # e => path[k].rep <= path[e].rep
      /\ k # e /\ path[k].stage = "barrier_out" => path[k].rep < path[e].rep
  BY <1>1 DEF IsPath
<1>4. CASE Resting(q)
  <2>1. path[e] = Inside(q)
    BY <1>1, <1>4 DEF IsOn, Resting
  <2>2. Inside(q).rep = IF stage[q] = "finished" THEN rep[q] - 1 ELSE rep[q]
    BY DEF Inside, Within, Call
  <2>. QED  BY <1>1, <1>2, <1>3, <1>4, <2>1, <2>2
<1>5. CASE ~ Resting(q)
  <2>1. AheadOf(q) = Due(path, e)
    BY <1>1, <1>5 DEF IsOn, Resting, AheadOf
  <2>2. AheadOf(q).rep = rep[q]
    BY AheadRep DEF AheadOf
  <2>3. Due(path, e).rep = IF path[e].stage = "barrier_out" THEN path[e].rep + 1 ELSE path[e].rep
    BY <1>1, AfterRep DEF Due
  <2>. QED  BY <1>1, <1>2, <1>3, <2>1, <2>2, <2>3
<1>. QED  BY <1>4, <1>5

LEMMA BarrierMeets ==
  ASSUME Control, P # 1, NEW r \in Ranks, AllEntered(r), NEW q \in Ranks, Waiting(r),
         phase[r] = "wait"
  PROVE  /\ rep[q] >= rep[r]
         /\ stage[r] = "barrier_out" /\ rep[q] = rep[r] =>
              stage[q] = "barrier_out" /\ phase[q] = "wait" /\ pass[q] = pass[r]
<1>1. PICK n \in Nat : \E path : IsPath(path, n) /\ \A a \in Ranks : IsOn(a, path, n)
  BY DEF Control, OneJourney
<1>2. PICK path : IsPath(path, n) /\ \A a \in Ranks : IsOn(a, path, n)
  BY <1>1
<1>3. LegalAt(stage[r], phase[r], pass[r], rep[r]) /\ LegalAt(stage[q], phase[q], pass[q], rep[q])
  BY HereLegal
<1>4. stage[r] \in {"barrier_in", "barrier_out"}
  BY <1>3 DEF LegalAt, PhasesOf, Stages, HaloPhases
<1>5. Entered(r) \in 1..n /\ path[Entered(r)] = Inside(r)
  BY <1>2 DEF IsOn
<1>6. Inside(r) = Call(rep[r], stage[r], pass[r], "start", outcome[r])
  BY <1>4 DEF Inside, Within
<1>7. Entered(r) \in 1..Entered(q)
  <2>1. Entered(q) >= Entered(r) /\ Entered(q) \in 0..n
    BY <1>2 DEF AllEntered, IsOn
  <2>. QED  BY <1>5, <2>1
<1>8. rep[q] >= rep[r]
  BY <1>2, <1>5, <1>6, <1>7, RepAtLeast DEF Call
<1>9. ASSUME stage[r] = "barrier_out", rep[q] = rep[r]
      PROVE  stage[q] = "barrier_out" /\ phase[q] = "wait" /\ pass[q] = pass[r]
  <2>1. Resting(q) /\ stage[q] # "finished" /\ Inside(q) = Inside(r)
    <3>1. path[Entered(r)].stage = "barrier_out" /\ rep[q] = path[Entered(r)].rep
      BY <1>5, <1>6, <1>9 DEF Call
    <3>. QED  BY <3>1, <1>2, <1>5, <1>7, RepAtLeast
  <2>2. Inside(q).stage = stage[q] /\ Inside(q).pass = pass[q]
    BY <2>1 DEF Inside, Within, Call
  <2>3. stage[q] = "barrier_out" /\ pass[q] = pass[r]
    BY <1>6, <1>9, <2>1, <2>2 DEF Call
  <2>. QED  BY <1>3, <2>1, <2>3 DEF Resting, Waiting, WaitingPhases, LegalAt, PhasesOf
<1>. QED  BY <1>8, <1>9

\* Nothing is under way between two ranks that wait in the last barrier.
LEMMA NothingAtTheEnd ==
  ASSUME NEW q, Neighbours(q), rep[q] = rep[q + 1],
         At(q, "barrier_out", "wait"), At(q + 1, "barrier_out", "wait")
  PROVE  Halos(Traffic(q), FALSE, FALSE) /\ Turns(NoExchange, 2, 2, Traffic(q))
<1>1. InStep(View(q), View(q + 1), Traffic(q))
  BY DEF Neighbours
<1>2. View(q).halo = 4 /\ View(q + 1).halo = 4 /\ View(q).turn = 2 /\ View(q + 1).turn = 2
  BY DEF View, At, HaloStep, TurnStep
<1>. QED  BY <1>1, <1>2 DEF InStep, Halos, Holds, Turns, NoExchange, Exchange, Turning

LEMMA LeaveBarrierQuiet ==
  ASSUME Control, HaloControl, Grid, NEW r \in Ranks, LeaveBarrier(r)
  PROVE  HaloControl'
<1>1. /\ phase[r] = "wait" /\ wire' = wire /\ run' = run /\ outcome' = outcome
      /\ calls' = calls /\ pass' = pass /\ AllEntered(r)
      /\ stage[r] \in {"barrier_in", "barrier_out"}
  BY DEF LeaveBarrier
<1>2. ControlTypes /\ StageRight(r) /\ Waiting(r)
  BY <1>1, HereLegal DEF HaloControl, Waiting, WaitingPhases
<1>3. CASE stage[r] = "barrier_in"
  <2>1. Goto(r, "rhs_norm", "evaluate") /\ rep' = rep
    BY <1>3 DEF LeaveBarrier, Begin, FirstPhase
  <2>2. OthersStay(r) /\ stage'[r] = "rhs_norm" /\ phase'[r] = "evaluate"
    BY <1>1, <1>2, <2>1, GoneTo, OthersOut
  <2>3. SameStep(View(r), NextView(r))
    BY <1>1, <1>3, <2>2 DEF SameStep, View, NextView, LastExchange, HaloStep, TurnStep
  <2>4. ASSUME NEW q \in Uppers, q = r \/ q + 1 = r PROVE rep[q] = rep[q + 1]
    <3>1. q \in Ranks /\ q + 1 \in Ranks /\ P # 1 /\ Neighbours(q) /\ rep[q] \in Nat /\ rep[q + 1] \in Nat
      BY <1>2, UpperRanks DEF HaloControl, ControlTypes
    <3>2. rep[q] >= rep[r] /\ rep[q + 1] >= rep[r]
      BY <1>1, <1>2, <3>1, BarrierMeets
    <3>0. rep[q] = rep[q + 1] \/ Through(q, q + 1) \/ Through(q + 1, q)
      BY <3>1 DEF Neighbours
    <3>3. CASE q = r
      BY <1>3, <3>0, <3>1, <3>2, <3>3 DEF Through, At
    <3>4. CASE q + 1 = r
      BY <1>3, <3>0, <3>1, <3>2, <3>4 DEF Through, At
    <3>. QED  BY <2>4, <3>3, <3>4
  <2>5. RightAt("rhs_norm", pass[r])
    BY <1>2, <1>3 DEF StageRight, RightAt
  <2>. QED  BY <1>1, <1>3, <2>1, <2>2, <2>3, <2>4, <2>5, QuietMove DEF At
<1>4. CASE stage[r] = "barrier_out"
  <2>1. \E s \in {"reset", "finished"} : Goto(r, s, "start") /\ rep' = [rep EXCEPT ![r] = rep[r] + 1]
    BY <1>4 DEF LeaveBarrier
  <2>2. PICK s \in {"reset", "finished"} : Goto(r, s, "start") /\ rep' = [rep EXCEPT ![r] = rep[r] + 1]
    BY <2>1
  <2>3. /\ OthersStay(r) /\ stage'[r] = s /\ phase'[r] = "start" /\ rep'[r] = rep[r] + 1
        /\ \A q \in Ranks : q # r => rep'[q] = rep[q]
    BY <1>1, <1>2, <2>2, GoneTo, OthersOut DEF ControlTypes
  <2>4. NextView(r).exchange = NoExchange /\ NextView(r).halo = 4 /\ NextView(r).turn = 2
    BY <2>3 DEF NextView, LastExchange, HaloStep, TurnStep
  <2>5. ASSUME NEW q \in Uppers, NEW o \in Ranks,
             (q = r /\ o = q + 1) \/ (q + 1 = r /\ o = q)
        PROVE  Neighbours(q)'
    <3>1. /\ q \in Ranks /\ q + 1 \in Ranks /\ P # 1 /\ Neighbours(q)
          /\ rep[o] \in Nat /\ rep[r] \in Nat /\ o # r
      BY <1>2, <2>5, UpperRanks DEF HaloControl, ControlTypes
    <3>2. PICK x : x = Traffic(q)
      OBVIOUS
    <3>3. Traffic(q)' = x /\ NextTraffic(q) = x
      BY <1>1, <3>2 DEF Traffic, NextTraffic
    <3>4. /\ stage'[o] = stage[o] /\ phase'[o] = phase[o] /\ rep'[o] = rep[o]
          /\ NextView(o) = View(o)
      BY <2>3, <3>1 DEF OthersStay, NextView, View
    <3>5. CASE rep[o] = rep[r]
      <4>1. At(o, "barrier_out", "wait") /\ At(r, "barrier_out", "wait")
        BY <1>1, <1>2, <1>4, <3>1, <3>5, BarrierMeets DEF At
      <4>2. Halos(x, FALSE, FALSE) /\ Turns(NoExchange, 2, 2, x)
        BY <2>5, <3>1, <3>2, <3>5, <4>1, NothingAtTheEnd
      <4>3. Halos(Traffic(q), FALSE, FALSE)' /\ Turns(NoExchange, 2, 2, Traffic(q))'
        BY <4>2, <3>3 DEF Turns, Turning, NoExchange, Exchange
      <4>4. Through(r, o)'
        BY <2>3, <3>4, <3>5, <4>1 DEF Through, At
      <4>5. rep'[q] # rep'[q + 1] /\ (Through(q, q + 1) \/ Through(q + 1, q))'
        BY <2>3, <2>5, <3>1, <3>4, <3>5, <4>4
      <4>. QED  BY <4>3, <4>5 DEF Neighbours
    <3>6. CASE rep[o] # rep[r]
      <4>1. Through(o, r) /\ Halos(x, FALSE, FALSE) /\ Turns(NoExchange, 2, 2, x)
        BY <1>4, <2>5, <3>1, <3>2, <3>6 DEF Neighbours, Through, At
      <4>2. View(o).exchange = NoExchange /\ View(o).halo = 4 /\ View(o).turn = 2
        <5>1. stage[o] \in {"reset", "barrier_in", "finished"}
          BY <4>1 DEF Through
        <5>2. LegalAt(stage[o], phase[o], pass[o], rep[o])
          BY HereLegal
        <5>3. phase[o] \notin HaloPhases
          BY <5>1, <5>2 DEF LegalAt, PhasesOf, HaloPhases
        <5>. QED  BY <5>1, <5>3 DEF View, LastExchange, HaloStep, TurnStep, HaloPhases
      <4>3. InStep(NextView(q), NextView(q + 1), NextTraffic(q))
        BY <2>4, <2>5, <3>3, <3>4, <4>1, <4>2 DEF InStep, Halos, Holds
      <4>4. rep'[q] = rep'[q + 1]
        BY <2>3, <2>5, <3>4, <4>1 DEF Through
      <4>. QED  BY <1>1, <4>3, <4>4, NextNeighbours
    <3>. QED  BY <3>5, <3>6
  <2>6. ASSUME NEW q \in Uppers PROVE Neighbours(q)'
    <3>1. q \in Ranks /\ q + 1 \in Ranks
      BY UpperRanks
    <3>2. Neighbours(q) /\ NextTraffic(q) = Traffic(q)
      BY <1>1 DEF HaloControl, NextTraffic, Traffic
    <3>3. CASE q = r
      BY <2>5, <3>1, <3>3
    <3>4. CASE q + 1 = r
      BY <2>5, <3>1, <3>4
    <3>5. CASE q # r /\ q + 1 # r
      BY <2>3, <3>2, <3>5, PairElsewhere
    <3>. QED  BY <3>3, <3>4, <3>5
  <2>7. \A q \in Ranks : StageRight(q)'
    <3>1. RightAt(stage'[r], pass'[r])
      BY <2>3 DEF RightAt
    <3>. QED  BY <2>3, <3>1, StagesKept DEF HaloControl
  <2>8. Wires'
    BY <1>1 DEF HaloControl, Wires
  <2>. QED  BY <2>6, <2>7, <2>8 DEF HaloControl
<1>. QED  BY <1>1, <1>3, <1>4
-----------------------------------------------------------------------------
(* The steps of an exchange and of a turn. *)

LEMMA UpperIndex ==
  ASSUME NEW m \in Ranks
  PROVE  /\ m \in Uppers <=> m + 1 < P
         /\ m - 1 \in Uppers <=> m > 0
         /\ m + 1 < P => m + 1 \in Ranks
         /\ m > 0 => m - 1 \in Ranks
         /\ AboveOf(m) = IF m > 0 THEN m - 1 ELSE PROC_NULL
         /\ BelowOf(m) = IF m + 1 < P THEN m + 1 ELSE PROC_NULL
         /\ m - 1 + 1 = m /\ m - 1 # m /\ m + 1 # m /\ m \in Int
BY RanksAssumption DEF Ranks, Uppers, AboveOf, BelowOf

LEMMA SameTraffic ==
  ASSUME wire' = wire, NEW q
  PROVE  NextTraffic(q) = Traffic(q)
BY DEF NextTraffic, Traffic

\* One wire is in the traffic of one pair of ranks only.
LEMMA OtherTraffic ==
  ASSUME NEW tag \in Tags, NEW a \in Ranks, NEW b \in Ranks, NEW s, OnlyWire(tag, a, b, s),
         NEW q \in Uppers, a # q \/ b # q + 1, a # q + 1 \/ b # q
  PROVE  NextTraffic(q) = Traffic(q)
BY UpperRanks DEF OnlyWire, NextTraffic, Traffic, Tags

LEMMA ThisTraffic ==
  ASSUME NEW q \in Uppers, NEW s
  PROVE  /\ OnlyWire("TAG_HALO_UP", q + 1, q, s) =>
              NextTraffic(q) = [Traffic(q) EXCEPT !.up = s]
         /\ OnlyWire("TAG_HALO_DOWN", q, q + 1, s) =>
              NextTraffic(q) = [Traffic(q) EXCEPT !.down = s]
         /\ OnlyWire("TAG_ORDERED", q, q + 1, s) =>
              NextTraffic(q) = [Traffic(q) EXCEPT !.forward = s]
         /\ OnlyWire("TAG_ORDERED", q + 1, q, s) =>
              NextTraffic(q) = [Traffic(q) EXCEPT !.backward = s]
BY UpperRanks DEF OnlyWire, NextTraffic, Traffic, Tags

LEMMA BusyMove ==
  ASSUME HaloControl, NEW m \in Ranks, OthersStay(m), rep'[m] = rep[m], stage[m] \in Solving,
         stage'[m] = stage[m], pass'[m] = pass[m], Wires',
         m \in Uppers => InStep(NextView(m), View(m + 1), NextTraffic(m)),
         m - 1 \in Uppers => InStep(View(m - 1), NextView(m), NextTraffic(m - 1)),
         \A q \in Uppers : q # m /\ q + 1 # m => NextTraffic(q) = Traffic(q)
  PROVE  HaloControl'
<1>1. \A q \in Uppers : Neighbours(q)'
  BY PairsMove
<1>2. StageRight(m)
  BY DEF HaloControl
<1>3. \A q \in Ranks : StageRight(q)'
  BY <1>2, StagesKept DEF HaloControl, StageRight
<1>. QED  BY <1>1, <1>3 DEF HaloControl

\* Two neighbours, one of them in the middle of a repetition.
LEMMA PairInStep ==
  ASSUME Control, HaloControl, NEW m \in Ranks, stage[m] \in Solving
  PROVE  /\ OkView(View(m))
         /\ m \in Uppers => InStep(View(m), View(m + 1), Traffic(m)) /\ OkView(View(m + 1))
         /\ m - 1 \in Uppers => InStep(View(m - 1), View(m), Traffic(m - 1)) /\ OkView(View(m - 1))
<1>1. \A q \in Ranks : OkView(View(q))
  BY ViewIsOk DEF HaloControl
<1>2. ASSUME m \in Uppers PROVE InStep(View(m), View(m + 1), Traffic(m)) /\ OkView(View(m + 1))
  BY <1>1, <1>2, SolvingTogether, UpperRanks DEF HaloControl
<1>3. ASSUME m - 1 \in Uppers
      PROVE  InStep(View(m - 1), View(m), Traffic(m - 1)) /\ OkView(View(m - 1))
  <2>1. (m - 1) + 1 = m
    BY UpperIndex
  <2>2. InStep(View(m - 1), View((m - 1) + 1), Traffic(m - 1))
    BY <1>3, <2>1, SolvingTogether DEF HaloControl
  <2>. QED  BY <1>1, <1>3, <2>1, <2>2, UpperRanks
<1>. QED  BY <1>1, <1>2, <1>3

\* A message is sent to a neighbour, if there is one.
LEMMA SentUp ==
  ASSUME Wires, NEW m \in Ranks, NEW tag \in {"TAG_HALO_UP", "TAG_ORDERED"}, NEW x,
         Send(m, AboveOf(m), tag, x)
  PROVE  /\ Wires'
         /\ m > 0 => OnlyWire(tag, m, m - 1, Append(wire[tag][m][m - 1], x))
         /\ \A q \in Uppers : q + 1 # m => NextTraffic(q) = Traffic(q)
<1>1. CASE m > 0
  <2>1. m - 1 \in Ranks /\ AboveOf(m) = m - 1 /\ tag \in Tags
    BY <1>1, UpperIndex DEF Tags
  <2>2. ~ Unused(tag, m, m - 1)
    BY <1>1, UpperIndex DEF Unused
  <2>3. Wires' /\ OnlyWire(tag, m, m - 1, Append(wire[tag][m][m - 1], x))
    BY <2>1, <2>2, MessageSent
  <2>4. ASSUME NEW q \in Uppers, q + 1 # m PROVE NextTraffic(q) = Traffic(q)
    <3>1. q \in Int /\ m \in Int
      BY RanksAssumption DEF Uppers, Ranks
    <3>. QED  BY <2>1, <2>3, <2>4, <3>1, OtherTraffic
  <2>. QED  BY <2>3, <2>4
<1>2. CASE ~ (m > 0)
  BY <1>2, UpperIndex, SameTraffic DEF Send, Wires
<1>. QED  BY <1>1, <1>2

LEMMA SentDown ==
  ASSUME Wires, NEW m \in Ranks, NEW tag \in {"TAG_HALO_DOWN", "TAG_ORDERED"}, NEW x,
         Send(m, BelowOf(m), tag, x)
  PROVE  /\ Wires'
         /\ m + 1 < P => OnlyWire(tag, m, m + 1, Append(wire[tag][m][m + 1], x))
         /\ \A q \in Uppers : q # m => NextTraffic(q) = Traffic(q)
<1>1. CASE m + 1 < P
  <2>1. m + 1 \in Ranks /\ BelowOf(m) = m + 1 /\ tag \in Tags
    BY <1>1, UpperIndex DEF Tags
  <2>2. ~ Unused(tag, m, m + 1)
    BY <1>1, UpperIndex DEF Unused
  <2>3. Wires' /\ OnlyWire(tag, m, m + 1, Append(wire[tag][m][m + 1], x))
    BY <2>1, <2>2, MessageSent
  <2>4. ASSUME NEW q \in Uppers, q # m PROVE NextTraffic(q) = Traffic(q)
    <3>1. q \in Int /\ m \in Int
      BY RanksAssumption DEF Uppers, Ranks
    <3>. QED  BY <2>1, <2>3, <2>4, <3>1, OtherTraffic
  <2>. QED  BY <2>3, <2>4
<1>2. CASE ~ (m + 1 < P)
  BY <1>2, UpperIndex, SameTraffic DEF Send, Wires
<1>. QED  BY <1>1, <1>2

\* A message from a neighbour is taken.
LEMMA TakenFromBelow ==
  ASSUME Wires, NEW m \in Ranks, m + 1 < P, NEW tag \in {"TAG_HALO_UP", "TAG_ORDERED"},
         Incoming(m, m + 1, tag), Receive(m, m + 1, tag)
  PROVE  /\ Wires' /\ OnlyWire(tag, m + 1, m, Tail(wire[tag][m + 1][m]))
         /\ wire[tag][m + 1][m] # <<>> /\ Message(m, m + 1, tag) = wire[tag][m + 1][m][1]
         /\ \A q \in Uppers : q # m => NextTraffic(q) = Traffic(q)
<1>1. m + 1 \in Ranks /\ tag \in Tags
  BY UpperIndex DEF Tags
<1>2. ~ Unused(tag, m + 1, m)
  BY UpperIndex DEF Unused
<1>3. /\ Wires' /\ OnlyWire(tag, m + 1, m, Tail(wire[tag][m + 1][m]))
      /\ wire[tag][m + 1][m] # <<>> /\ Message(m, m + 1, tag) = wire[tag][m + 1][m][1]
  BY <1>1, <1>2, MessageTaken
<1>4. ASSUME NEW q \in Uppers, q # m PROVE NextTraffic(q) = Traffic(q)
  <2>1. q \in Int /\ m \in Int
    BY RanksAssumption DEF Uppers, Ranks
  <2>. QED  BY <1>1, <1>3, <1>4, <2>1, OtherTraffic
<1>. QED  BY <1>3, <1>4

LEMMA TakenFromAbove ==
  ASSUME Wires, NEW m \in Ranks, m > 0, NEW tag \in {"TAG_HALO_DOWN", "TAG_ORDERED"},
         Incoming(m, m - 1, tag), Receive(m, m - 1, tag)
  PROVE  /\ Wires' /\ OnlyWire(tag, m - 1, m, Tail(wire[tag][m - 1][m]))
         /\ wire[tag][m - 1][m] # <<>> /\ Message(m, m - 1, tag) = wire[tag][m - 1][m][1]
         /\ \A q \in Uppers : q + 1 # m => NextTraffic(q) = Traffic(q)
<1>1. m - 1 \in Ranks /\ tag \in Tags
  BY UpperIndex DEF Tags
<1>2. ~ Unused(tag, m - 1, m)
  BY UpperIndex DEF Unused
<1>3. /\ Wires' /\ OnlyWire(tag, m - 1, m, Tail(wire[tag][m - 1][m]))
      /\ wire[tag][m - 1][m] # <<>> /\ Message(m, m - 1, tag) = wire[tag][m - 1][m][1]
  BY <1>1, <1>2, MessageTaken
<1>4. ASSUME NEW q \in Uppers, q + 1 # m PROVE NextTraffic(q) = Traffic(q)
  <2>1. q \in Int /\ m \in Int
    BY RanksAssumption DEF Uppers, Ranks
  <2>. QED  BY <1>1, <1>3, <1>4, <2>1, OtherTraffic
<1>. QED  BY <1>3, <1>4
\* A rank that goes on in an exchange or a turn.
Steps(r, p) ==
  /\ run' = run /\ pass' = pass /\ rep' = rep /\ outcome' = outcome /\ calls' = calls
  /\ GotoPhase(r, p)

LEMMA StepsTo ==
  ASSUME Control, NEW r \in Ranks, NEW p, Steps(r, p)
  PROVE  OthersStay(r) /\ stage'[r] = stage[r] /\ phase'[r] = p
BY HereLegal, GoneToPhase, OthersOut DEF Steps

LEMMA ExchangePhases ==
  ASSUME Control, NEW r \in Ranks, phase[r] \in HaloPhases \cup {"exchange"}
  PROVE  stage[r] \in {"initial", "pass", "residual"}
BY HereLegal DEF LegalAt, PhasesOf, HaloPhases, Stages

\* A rank alone goes on.
LEMMA AloneSteps ==
  ASSUME Control, HaloControl, P = 1, NEW r \in Ranks, NEW p, Steps(r, p), wire' = wire
  PROVE  HaloControl'
<1>1. OthersStay(r) /\ stage'[r] = stage[r] /\ pass' = pass
  BY StepsTo DEF Steps
<1>2. StageRight(r)
  BY DEF HaloControl
<1>. QED  BY <1>1, <1>2, AloneQuiet DEF StageRight

LEMMA ExchangeBegins ==
  ASSUME Control, HaloControl, NEW r \in Ranks, phase[r] = "exchange",
         stage'[r] = stage[r], phase'[r] = "halo_up", pass' = pass
  PROVE  Begins(View(r), NextView(r), Exchange(stage[r], pass[r]))
<1>1. stage[r] \in {"initial", "pass", "residual"} /\ StageRight(r) /\ pass[r] \in Nat
  BY ExchangePhases, HereLegal DEF HaloControl, ControlTypes
<1>2. stage[r] = "initial" => pass[r] = 0
  BY <1>1 DEF StageRight, RightAt
<1>. DEFINE e == Exchange(stage[r], pass[r])
<1>3. LegalExchange(e) /\ e # NoExchange
  BY <1>1, <1>2 DEF LegalExchange, NoExchange, Exchange, StageRight, RightAt
<1>4. ExchangeBefore(e) = View(r).exchange
  BY DEF ExchangeBefore, View, Exchange
<1>5. NextView(r).exchange = e
  BY <1>1, <1>2 DEF NextView, LastExchange
<1>6. View(r).halo = 4 /\ NextView(r).halo = 1
  BY DEF View, NextView, HaloStep
<1>7. View(r).turn = 2 /\ (e.stage = "pass" => NextView(r).turn = 0)
  BY DEF View, NextView, TurnStep, HaloPhases, Exchange
<1>. HIDE DEF e
<1>8. Begins(View(r), NextView(r), e)
  BY <1>3, <1>4, <1>5, <1>6, <1>7 DEF Begins
<1>. QED  BY <1>8 DEF e

LEMMA ExchangeHaloPairs ==
  ASSUME Control, HaloControl, Grid, NEW r \in Ranks, ExchangeHalo(r)
  PROVE  HaloControl'
<1>1. CASE P = 1
  <2>1. Steps(r, "body") /\ wire' = wire
    BY <1>1 DEF ExchangeHalo, Steps
  <2>. QED  BY <1>1, <2>1, AloneSteps
<1>2. CASE P # 1
  <2>1. phase[r] = "exchange" /\ Steps(r, "halo_up")
    BY <1>2 DEF ExchangeHalo, Steps
  <2>2. \E row : Send(r, AboveOf(r), "TAG_HALO_UP", row)
    BY <1>2 DEF ExchangeHalo
  <2>3. PICK row : Send(r, AboveOf(r), "TAG_HALO_UP", row)
    BY <2>2
  <2>4. OthersStay(r) /\ stage'[r] = stage[r] /\ phase'[r] = "halo_up" /\ pass' = pass /\ rep' = rep
    BY <2>1, StepsTo DEF Steps
  <2>5. stage[r] \in Solving
    BY <2>1, ExchangePhases DEF Solving
  <2>6. PICK e : Begins(View(r), NextView(r), e)
    BY <2>1, <2>4, ExchangeBegins
  <2>7. /\ Wires'
        /\ r > 0 => OnlyWire("TAG_HALO_UP", r, r - 1, Append(wire["TAG_HALO_UP"][r][r - 1], row))
        /\ \A q \in Uppers : q + 1 # r => NextTraffic(q) = Traffic(q)
    BY <2>3, SentUp DEF HaloControl
  <2>8. ASSUME r \in Uppers PROVE InStep(NextView(r), View(r + 1), NextTraffic(r))
    <3>1. NextTraffic(r) = Traffic(r)
      BY <2>7, <2>8, UpperIndex
    <3>. QED  BY <2>5, <2>6, <2>8, <3>1, PairInStep, UpperBegins
  <2>9. ASSUME r - 1 \in Uppers PROVE InStep(View(r - 1), NextView(r), NextTraffic(r - 1))
    <3>1. NextTraffic(r - 1) = [Traffic(r - 1) EXCEPT !.up = Append(Traffic(r - 1).up, row)]
      <4>1. r > 0 /\ (r - 1) + 1 = r
        BY <2>9, UpperIndex
      <4>2. Traffic(r - 1).up = wire["TAG_HALO_UP"][r][r - 1]
        BY <4>1 DEF Traffic
      <4>. QED  BY <2>7, <2>9, <4>1, <4>2, ThisTraffic
    <3>2. /\ NextTraffic(r - 1).up = Append(Traffic(r - 1).up, row)
          /\ NextTraffic(r - 1).down = Traffic(r - 1).down
          /\ NextTraffic(r - 1).forward = Traffic(r - 1).forward
          /\ NextTraffic(r - 1).backward = Traffic(r - 1).backward
      BY <3>1 DEF Traffic
    <3>3. InStep(View(r - 1), View(r), Traffic(r - 1)) /\ OkView(View(r - 1))
      BY <2>5, <2>9, PairInStep
    <3>. QED  BY <2>6, <3>2, <3>3, LowerBegins
  <2>. QED  BY <2>4, <2>5, <2>7, <2>8, <2>9, BusyMove
<1>. QED  BY <1>1, <1>2

\* On in an exchange.
LEMMA HaloGoesOn ==
  ASSUME Control, NEW r \in Ranks, phase[r] \in HaloPhases,
         stage'[r] = stage[r], phase'[r] \in HaloPhases, pass' = pass
  PROVE  GoesOn(View(r), NextView(r), HaloStep(phase'[r]))
BY DEF GoesOn, View, NextView, LastExchange, TurnStep, HaloPhases

LEMMA TakeLowerHaloPairs ==
  ASSUME Control, HaloControl, Grid, NEW r \in Ranks, TakeLowerHalo(r)
  PROVE  HaloControl'
<1>1. phase[r] = "halo_up" /\ Steps(r, "halo_up_sent")
  BY DEF TakeLowerHalo, TakeHalo, Steps
<1>2. OthersStay(r) /\ stage'[r] = stage[r] /\ phase'[r] = "halo_up_sent" /\ pass' = pass /\ rep' = rep
  BY <1>1, StepsTo DEF Steps
<1>3. stage[r] \in Solving
  BY <1>1, ExchangePhases DEF Solving, HaloPhases
<1>4. GoesOn(View(r), NextView(r), 2) /\ View(r).halo = 1
  BY <1>1, <1>2, HaloGoesOn DEF HaloPhases, HaloStep, View
<1>5. /\ Wires'
      /\ r + 1 < P => /\ OnlyWire("TAG_HALO_UP", r + 1, r, Tail(wire["TAG_HALO_UP"][r + 1][r]))
                      /\ wire["TAG_HALO_UP"][r + 1][r] # <<>>
      /\ \A q \in Uppers : q # r => NextTraffic(q) = Traffic(q)
  <2>1. CASE r + 1 < P
    <3>1. BelowOf(r) = r + 1 /\ r + 1 # PROC_NULL
      BY <2>1, UpperIndex DEF PROC_NULL, Ranks
    <3>2. Incoming(r, r + 1, "TAG_HALO_UP") /\ Receive(r, r + 1, "TAG_HALO_UP")
      BY <3>1 DEF TakeLowerHalo, TakeHalo
    <3>. QED  BY <2>1, <3>2, TakenFromBelow DEF HaloControl
  <2>2. CASE ~ (r + 1 < P)
    <3>1. wire' = wire
      BY <2>2, UpperIndex DEF TakeLowerHalo, TakeHalo
    <3>. QED  BY <2>2, <3>1, SameTraffic DEF HaloControl, Wires
  <2>. QED  BY <2>1, <2>2
<1>6. ASSUME r \in Uppers PROVE InStep(NextView(r), View(r + 1), NextTraffic(r))
  <2>1. NextTraffic(r) = [Traffic(r) EXCEPT !.up = Tail(Traffic(r).up)]
    <3>1. Traffic(r).up = wire["TAG_HALO_UP"][r + 1][r] /\ r + 1 < P
      BY <1>6, UpperIndex DEF Traffic
    <3>. QED  BY <1>5, <1>6, <3>1, ThisTraffic
  <2>2. /\ NextTraffic(r).up = Tail(Traffic(r).up)
        /\ NextTraffic(r).down = Traffic(r).down
        /\ NextTraffic(r).forward = Traffic(r).forward
        /\ NextTraffic(r).backward = Traffic(r).backward
    BY <2>1 DEF Traffic
  <2>3. InStep(View(r), View(r + 1), Traffic(r)) /\ Traffic(r).up # <<>>
    BY <1>3, <1>5, <1>6, PairInStep, UpperIndex DEF Traffic
  <2>. QED  BY <1>4, <2>2, <2>3, UpperTakesUp
<1>7. ASSUME r - 1 \in Uppers PROVE InStep(View(r - 1), NextView(r), NextTraffic(r - 1))
  <2>1. NextTraffic(r - 1) = Traffic(r - 1)
    BY <1>5, <1>7, UpperIndex
  <2>. QED  BY <1>3, <1>4, <1>7, <2>1, PairInStep, LowerGoesOn
<1>. QED  BY <1>2, <1>3, <1>5, <1>6, <1>7, BusyMove

LEMMA SendHaloDownPairs ==
  ASSUME Control, HaloControl, Grid, NEW r \in Ranks, SendHaloDown(r)
  PROVE  HaloControl'
<1>1. phase[r] = "halo_up_sent" /\ Steps(r, "halo_down")
  BY DEF SendHaloDown, Steps
<1>2. OthersStay(r) /\ stage'[r] = stage[r] /\ phase'[r] = "halo_down" /\ pass' = pass /\ rep' = rep
  BY <1>1, StepsTo DEF Steps
<1>3. stage[r] \in Solving
  BY <1>1, ExchangePhases DEF Solving, HaloPhases
<1>4. GoesOn(View(r), NextView(r), 3) /\ View(r).halo = 2
  BY <1>1, <1>2, HaloGoesOn DEF HaloPhases, HaloStep, View
<1>5. PICK row : Send(r, BelowOf(r), "TAG_HALO_DOWN", row)
  BY DEF SendHaloDown
<1>6. /\ Wires'
      /\ r + 1 < P => OnlyWire("TAG_HALO_DOWN", r, r + 1, Append(wire["TAG_HALO_DOWN"][r][r + 1], row))
      /\ \A q \in Uppers : q # r => NextTraffic(q) = Traffic(q)
  BY <1>5, SentDown DEF HaloControl
<1>7. ASSUME r \in Uppers PROVE InStep(NextView(r), View(r + 1), NextTraffic(r))
  <2>1. NextTraffic(r) = [Traffic(r) EXCEPT !.down = Append(Traffic(r).down, row)]
    <3>1. Traffic(r).down = wire["TAG_HALO_DOWN"][r][r + 1] /\ r + 1 < P
      BY <1>7, UpperIndex DEF Traffic
    <3>. QED  BY <1>6, <1>7, <3>1, ThisTraffic
  <2>2. /\ NextTraffic(r).down = Append(Traffic(r).down, row)
        /\ NextTraffic(r).up = Traffic(r).up
        /\ NextTraffic(r).forward = Traffic(r).forward
        /\ NextTraffic(r).backward = Traffic(r).backward
    BY <2>1 DEF Traffic
  <2>3. InStep(View(r), View(r + 1), Traffic(r)) /\ OkView(View(r + 1))
    BY <1>3, <1>7, PairInStep
  <2>4. SentOn(Traffic(r), NextTraffic(r), row)
    BY <2>2 DEF SentOn
  <2>. QED  BY <1>4, <2>3, <2>4, UpperSendsDown
<1>8. ASSUME r - 1 \in Uppers PROVE InStep(View(r - 1), NextView(r), NextTraffic(r - 1))
  <2>1. NextTraffic(r - 1) = Traffic(r - 1)
    BY <1>6, <1>8, UpperIndex
  <2>. QED  BY <1>3, <1>4, <1>8, <2>1, PairInStep, LowerGoesOn
<1>. QED  BY <1>2, <1>3, <1>6, <1>7, <1>8, BusyMove

LEMMA TakeUpperHaloPairs ==
  ASSUME Control, HaloControl, Grid, NEW r \in Ranks, TakeUpperHalo(r)
  PROVE  HaloControl'
<1>1. phase[r] = "halo_down" /\ Steps(r, "halo_down_sent")
  BY DEF TakeUpperHalo, TakeHalo, Steps
<1>2. OthersStay(r) /\ stage'[r] = stage[r] /\ phase'[r] = "halo_down_sent" /\ pass' = pass /\ rep' = rep
  BY <1>1, StepsTo DEF Steps
<1>3. stage[r] \in Solving
  BY <1>1, ExchangePhases DEF Solving, HaloPhases
<1>4. GoesOn(View(r), NextView(r), 4) /\ View(r).halo = 3
  BY <1>1, <1>2, HaloGoesOn DEF HaloPhases, HaloStep, View
<1>5. /\ Wires'
      /\ r > 0 => /\ OnlyWire("TAG_HALO_DOWN", r - 1, r, Tail(wire["TAG_HALO_DOWN"][r - 1][r]))
                  /\ wire["TAG_HALO_DOWN"][r - 1][r] # <<>>
      /\ \A q \in Uppers : q + 1 # r => NextTraffic(q) = Traffic(q)
  <2>1. CASE r > 0
    <3>1. AboveOf(r) = r - 1 /\ r - 1 # PROC_NULL
      BY <2>1, UpperIndex DEF PROC_NULL, Ranks
    <3>2. Incoming(r, r - 1, "TAG_HALO_DOWN") /\ Receive(r, r - 1, "TAG_HALO_DOWN")
      BY <3>1 DEF TakeUpperHalo, TakeHalo
    <3>. QED  BY <2>1, <3>2, TakenFromAbove DEF HaloControl
  <2>2. CASE ~ (r > 0)
    <3>1. wire' = wire
      BY <2>2, UpperIndex DEF TakeUpperHalo, TakeHalo
    <3>. QED  BY <2>2, <3>1, SameTraffic DEF HaloControl, Wires
  <2>. QED  BY <2>1, <2>2
<1>6. ASSUME r \in Uppers PROVE InStep(NextView(r), View(r + 1), NextTraffic(r))
  <2>1. NextTraffic(r) = Traffic(r)
    BY <1>5, <1>6, UpperIndex
  <2>. QED  BY <1>3, <1>4, <1>6, <2>1, PairInStep, UpperIsThrough
<1>7. ASSUME r - 1 \in Uppers PROVE InStep(View(r - 1), NextView(r), NextTraffic(r - 1))
  <2>1. Traffic(r - 1).down = wire["TAG_HALO_DOWN"][r - 1][r] /\ r > 0 /\ (r - 1) + 1 = r
    BY <1>7, UpperIndex DEF Traffic
  <2>2. NextTraffic(r - 1) = [Traffic(r - 1) EXCEPT !.down = Tail(Traffic(r - 1).down)]
    <3>1. OnlyWire("TAG_HALO_DOWN", r - 1, (r - 1) + 1, Tail(Traffic(r - 1).down))
      BY <1>5, <2>1
    <3>. QED  BY <1>7, <3>1, ThisTraffic
  <2>3. /\ NextTraffic(r - 1).down = Tail(Traffic(r - 1).down)
        /\ NextTraffic(r - 1).up = Traffic(r - 1).up
        /\ NextTraffic(r - 1).forward = Traffic(r - 1).forward
        /\ NextTraffic(r - 1).backward = Traffic(r - 1).backward
    BY <2>2 DEF Traffic
  <2>4. InStep(View(r - 1), View(r), Traffic(r - 1)) /\ Traffic(r - 1).down # <<>>
    BY <1>3, <1>5, <1>7, <2>1, PairInStep
  <2>. QED  BY <1>4, <2>3, <2>4, LowerTakesDown
<1>. QED  BY <1>2, <1>3, <1>5, <1>6, <1>7, BusyMove

LEMMA HaloDoneQuiet ==
  ASSUME Control, HaloControl, NEW r \in Ranks, HaloDone(r)
  PROVE  HaloControl'
<1>1. phase[r] = "halo_down_sent" /\ Steps(r, "body") /\ wire' = wire
  BY DEF HaloDone, Steps
<1>2. OthersStay(r) /\ stage'[r] = stage[r] /\ phase'[r] = "body" /\ pass' = pass /\ rep' = rep
  BY <1>1, StepsTo DEF Steps
<1>3. stage[r] \in {"initial", "pass", "residual"} /\ StageRight(r)
  BY <1>1, ExchangePhases DEF HaloPhases, HaloControl
<1>4. SameStep(View(r), NextView(r))
  BY <1>1, <1>2, <1>3 DEF SameStep, View, NextView, LastExchange, HaloStep, TurnStep, HaloPhases
<1>. QED  BY <1>1, <1>2, <1>3, <1>4, QuietMove DEF At, StageRight
\* The pass a rank takes turns in is the one its exchange has opened.
LEMMA TurnView ==
  ASSUME Control, NEW r \in Ranks, phase[r] \in {"turn", "work"}
  PROVE  /\ stage[r] = "pass" /\ View(r).exchange = Exchange("pass", pass[r]) /\ View(r).halo = 4
         /\ View(r).turn = IF phase[r] = "turn" THEN 0 ELSE 1
         /\ Turning(View(r).exchange) <=> Ordered(Kind(r))
         /\ Upwards(View(r).exchange) <=> ~ Forward(r)
<1>1. stage[r] = "pass"
  BY WorkIsInPass
<1>2. View(r).exchange = Exchange("pass", pass[r])
  BY <1>1 DEF View, LastExchange
<1>3. View(r).halo = 4 /\ View(r).turn = IF phase[r] = "turn" THEN 0 ELSE 1
  BY <1>1 DEF View, HaloStep, TurnStep, HaloPhases
<1>. QED  BY <1>1, <1>2, <1>3 DEF Turning, Upwards, Exchange, Kind, Forward

LEMMA TurnGoesOn ==
  ASSUME Control, NEW r \in Ranks, NEW p, Steps(r, p),
         (phase[r] = "turn" /\ p = "work") \/ (phase[r] = "work" /\ p = "handed_on")
  PROVE  /\ NextView(r).exchange = View(r).exchange /\ NextView(r).halo = 4
         /\ NextView(r).turn = View(r).turn + 1
<1>1. stage[r] = "pass"
  BY WorkIsInPass
<1>2. stage'[r] = stage[r] /\ phase'[r] = p /\ pass' = pass
  BY StepsTo DEF Steps
<1>3. /\ LastExchange(stage'[r], phase'[r], pass'[r]) = Exchange("pass", pass[r])
      /\ LastExchange(stage[r], phase[r], pass[r]) = Exchange("pass", pass[r])
  BY <1>1, <1>2 DEF LastExchange
<1>4. /\ HaloStep(phase'[r]) = 4
      /\ TurnStep(stage'[r], phase'[r]) = TurnStep(stage[r], phase[r]) + 1
  BY <1>1, <1>2 DEF HaloStep, TurnStep, HaloPhases
<1>. QED  BY <1>3, <1>4 DEF View, NextView

\* There is something to take only where ranks take turns.
LEMMA TurnComes ==
  ASSUME NEW v, NEW w, NEW x, InStep(v, w, x)
  PROVE  w.halo = 4 /\ x.forward # <<>> => Turning(w.exchange)
BY DEF InStep, Turns, Halos, Holds

LEMMA TakeTurnPairs ==
  ASSUME Control, HaloControl, Grid, NEW r \in Ranks, TakeTurn(r)
  PROVE  HaloControl'
<1>1. phase[r] = "turn" /\ Steps(r, "work")
  BY DEF TakeTurn, Steps
<1>2. OthersStay(r) /\ stage'[r] = stage[r] /\ phase'[r] = "work" /\ pass' = pass /\ rep' = rep
  BY <1>1, StepsTo DEF Steps
<1>. DEFINE v == View(r)
            u == NextView(r)
<1>3. /\ stage[r] = "pass" /\ v.halo = 4 /\ v.turn = 0
      /\ Turning(v.exchange) <=> Ordered(Kind(r))
      /\ Upwards(v.exchange) <=> ~ Forward(r)
  BY <1>1, TurnView
<1>4. u.exchange = v.exchange /\ u.halo = 4 /\ u.turn = 0 + 1
  <2>1. /\ NextView(r).exchange = View(r).exchange /\ NextView(r).halo = 4
        /\ NextView(r).turn = View(r).turn + 1
    BY <1>1, TurnGoesOn
  <2>. QED  BY <1>3, <2>1
<1>5. stage[r] \in Solving
  BY <1>3 DEF Solving
<1>6. /\ r \in Uppers => InStep(v, View(r + 1), Traffic(r))
      /\ r - 1 \in Uppers => InStep(View(r - 1), v, Traffic(r - 1))
  BY <1>5, PairInStep
<1>7. CASE Forward(r) /\ r > 0
  <2>1. Predecessor(r) = r - 1 /\ r - 1 # PROC_NULL /\ r - 1 \in Uppers /\ (r - 1) + 1 = r
    BY <1>7, UpperIndex DEF Predecessor, PROC_NULL, Ranks
  <2>2. Incoming(r, r - 1, "TAG_ORDERED") /\ Receive(r, r - 1, "TAG_ORDERED")
    BY <2>1 DEF TakeTurn
  <2>3. /\ Wires' /\ OnlyWire("TAG_ORDERED", r - 1, r, Tail(wire["TAG_ORDERED"][r - 1][r]))
        /\ wire["TAG_ORDERED"][r - 1][r] # <<>>
        /\ \A q \in Uppers : q + 1 # r => NextTraffic(q) = Traffic(q)
    BY <1>7, <2>2, TakenFromAbove DEF HaloControl
  <2>4. Traffic(r - 1).forward = wire["TAG_ORDERED"][r - 1][r]
    BY <2>1 DEF Traffic
  <2>5. NextTraffic(r - 1) = [Traffic(r - 1) EXCEPT !.forward = Tail(Traffic(r - 1).forward)]
    <3>1. OnlyWire("TAG_ORDERED", r - 1, (r - 1) + 1, Tail(Traffic(r - 1).forward))
      BY <2>1, <2>3, <2>4
    <3>. QED  BY <2>1, <3>1, ThisTraffic
  <2>6. /\ NextTraffic(r - 1).forward = Tail(Traffic(r - 1).forward)
        /\ NextTraffic(r - 1).up = Traffic(r - 1).up
        /\ NextTraffic(r - 1).down = Traffic(r - 1).down
        /\ NextTraffic(r - 1).backward = Traffic(r - 1).backward
    BY <2>5 DEF Traffic
  <2>7. Turned(v, u, 0) /\ ~ Upwards(v.exchange)
    <3>1. Turning(v.exchange)
      BY <1>3, <1>6, <2>1, <2>3, <2>4, TurnComes
    <3>. QED  BY <1>3, <1>4, <1>7, <3>1 DEF Turned
  <2>. HIDE DEF v, u
  <2>8. InStep(View(r - 1), u, NextTraffic(r - 1))
    BY <1>6, <2>1, <2>3, <2>4, <2>6, <2>7, LowerTakesForward
  <2>9. r \in Uppers => InStep(u, View(r + 1), NextTraffic(r))
    <3>1. r \in Uppers => NextTraffic(r) = Traffic(r)
      BY <2>3, UpperIndex
    <3>. QED  BY <1>6, <2>7, <3>1, UpperTakesForward
  <2>. QED  BY <1>2, <1>5, <2>3, <2>8, <2>9, BusyMove DEF u
<1>8. CASE ~ Forward(r) /\ r + 1 < P
  <2>1. Predecessor(r) = r + 1 /\ r + 1 # PROC_NULL /\ r \in Uppers
    BY <1>8, UpperIndex DEF Predecessor, PROC_NULL, Ranks
  <2>2. Incoming(r, r + 1, "TAG_ORDERED") /\ Receive(r, r + 1, "TAG_ORDERED")
    BY <2>1 DEF TakeTurn
  <2>3. /\ Wires' /\ OnlyWire("TAG_ORDERED", r + 1, r, Tail(wire["TAG_ORDERED"][r + 1][r]))
        /\ wire["TAG_ORDERED"][r + 1][r] # <<>>
        /\ \A q \in Uppers : q # r => NextTraffic(q) = Traffic(q)
    BY <1>8, <2>2, TakenFromBelow DEF HaloControl
  <2>4. Traffic(r).backward = wire["TAG_ORDERED"][r + 1][r]
    BY DEF Traffic
  <2>5. NextTraffic(r) = [Traffic(r) EXCEPT !.backward = Tail(Traffic(r).backward)]
    BY <2>1, <2>3, <2>4, ThisTraffic
  <2>6. /\ NextTraffic(r).backward = Tail(Traffic(r).backward)
        /\ NextTraffic(r).up = Traffic(r).up
        /\ NextTraffic(r).down = Traffic(r).down
        /\ NextTraffic(r).forward = Traffic(r).forward
    BY <2>5 DEF Traffic
  <2>7. Turned(v, u, 0) /\ Upwards(v.exchange)
    <3>1. Ordered(Kind(r))
      BY <1>8 DEF Forward, Ordered
    <3>. QED  BY <1>3, <1>4, <1>8, <3>1 DEF Turned
  <2>. HIDE DEF v, u
  <2>8. InStep(u, View(r + 1), NextTraffic(r))
    BY <1>6, <2>1, <2>3, <2>4, <2>6, <2>7, UpperTakesBackward
  <2>9. r - 1 \in Uppers => InStep(View(r - 1), u, NextTraffic(r - 1))
    <3>1. r - 1 \in Uppers => NextTraffic(r - 1) = Traffic(r - 1)
      BY <2>3, UpperIndex
    <3>. QED  BY <1>6, <2>7, <3>1, LowerTakesBackward
  <2>. QED  BY <1>2, <1>5, <2>3, <2>8, <2>9, BusyMove DEF u
<1>9. CASE (Forward(r) /\ ~ (r > 0)) \/ (~ Forward(r) /\ ~ (r + 1 < P))
  <2>1. wire' = wire
    BY <1>9, UpperIndex DEF TakeTurn, Predecessor
  <2>2. \A q : NextTraffic(q) = Traffic(q)
    BY <2>1, SameTraffic
  <2>3. Wires'
    BY <2>1 DEF HaloControl, Wires
  <2>4. CASE Turning(v.exchange)
    <3>1. Turned(v, u, 0)
      BY <1>3, <1>4, <2>4 DEF Turned
    <3>. HIDE DEF v, u
    <3>2. r \in Uppers => InStep(u, View(r + 1), NextTraffic(r))
      BY <1>3, <1>6, <1>9, <2>2, <3>1, UpperTakesForward, UpperIndex
    <3>3. r - 1 \in Uppers => InStep(View(r - 1), u, NextTraffic(r - 1))
      BY <1>3, <1>6, <1>9, <2>2, <3>1, LowerTakesBackward, UpperIndex
    <3>. QED  BY <1>2, <1>5, <2>2, <2>3, <3>2, <3>3, BusyMove DEF u
  <2>5. CASE ~ Turning(v.exchange)
    <3>1. SameStep(v, u)
      BY <1>3, <1>4, <2>5 DEF SameStep
    <3>2. ~ At(r, "barrier_out", "wait") /\ RightAt(stage'[r], pass'[r])
      BY <1>2, <1>3 DEF At, RightAt
    <3>. HIDE DEF v, u
    <3>. QED  BY <1>2, <1>3, <2>1, <3>1, <3>2, QuietMove DEF v, u
  <2>. QED  BY <2>4, <2>5
<1>. QED  BY <1>7, <1>8, <1>9

LEMMA HandOnPairs ==
  ASSUME Control, HaloControl, Grid, NEW r \in Ranks, HandOn(r)
  PROVE  HaloControl'
<1>. DEFINE m == Mine(r)[TurnRowOut(r)]
<1>1. /\ phase[r] = "work" /\ Steps(r, "handed_on") /\ Ordered(Kind(r))
      /\ Send(r, Successor(r), "TAG_ORDERED", m)
  BY DEF HandOn, Steps
<1>2. OthersStay(r) /\ stage'[r] = stage[r] /\ phase'[r] = "handed_on" /\ pass' = pass /\ rep' = rep
  BY <1>1, StepsTo DEF Steps
<1>. DEFINE v == View(r)
            u == NextView(r)
<1>3. /\ stage[r] = "pass" /\ v.halo = 4 /\ v.turn = 1
      /\ Turning(v.exchange) /\ (Upwards(v.exchange) <=> ~ Forward(r))
  BY <1>1, TurnView
<1>4. u.exchange = v.exchange /\ u.halo = 4 /\ u.turn = 1 + 1
  BY <1>1, <1>3, TurnGoesOn
<1>5. Turned(v, u, 1)
  BY <1>3, <1>4 DEF Turned
<1>6. stage[r] \in Solving
  BY <1>3 DEF Solving
<1>. HIDE DEF m, v, u
<1>7. /\ r \in Uppers => InStep(v, View(r + 1), Traffic(r)) /\ OkView(View(r + 1))
      /\ r - 1 \in Uppers => InStep(View(r - 1), v, Traffic(r - 1)) /\ OkView(View(r - 1))
  BY <1>6, PairInStep DEF v
<1>8. CASE Forward(r)
  <2>1. /\ Wires'
        /\ r + 1 < P => OnlyWire("TAG_ORDERED", r, r + 1, Append(wire["TAG_ORDERED"][r][r + 1], m))
        /\ \A q \in Uppers : q # r => NextTraffic(q) = Traffic(q)
    BY <1>1, <1>8, SentDown DEF HaloControl, Successor
  <2>2. ASSUME r \in Uppers PROVE InStep(u, View(r + 1), NextTraffic(r))
    <3>1. Traffic(r).forward = wire["TAG_ORDERED"][r][r + 1] /\ r + 1 < P
      BY <2>2, UpperIndex DEF Traffic
    <3>2. NextTraffic(r) = [Traffic(r) EXCEPT !.forward = Append(Traffic(r).forward, m)]
      BY <2>1, <2>2, <3>1, ThisTraffic
    <3>3. HandedForward(Traffic(r), NextTraffic(r), m)
      BY <3>2 DEF Traffic, HandedForward
    <3>. QED  BY <1>3, <1>5, <1>7, <1>8, <2>2, <3>3, UpperHandsForward
  <2>3. ASSUME r - 1 \in Uppers PROVE InStep(View(r - 1), u, NextTraffic(r - 1))
    <3>1. NextTraffic(r - 1) = Traffic(r - 1)
      BY <2>1, <2>3, UpperIndex
    <3>. QED  BY <1>3, <1>5, <1>7, <1>8, <2>3, <3>1, LowerHandsForward
  <2>. QED  BY <1>2, <1>6, <2>1, <2>2, <2>3, BusyMove DEF u
<1>9. CASE ~ Forward(r)
  <2>1. /\ Wires'
        /\ r > 0 => OnlyWire("TAG_ORDERED", r, r - 1, Append(wire["TAG_ORDERED"][r][r - 1], m))
        /\ \A q \in Uppers : q + 1 # r => NextTraffic(q) = Traffic(q)
    BY <1>1, <1>9, SentUp DEF HaloControl, Successor
  <2>2. ASSUME r \in Uppers PROVE InStep(u, View(r + 1), NextTraffic(r))
    <3>1. NextTraffic(r) = Traffic(r)
      BY <2>1, <2>2, UpperIndex
    <3>. QED  BY <1>3, <1>5, <1>7, <1>9, <2>2, <3>1, UpperHandsBackward
  <2>3. ASSUME r - 1 \in Uppers PROVE InStep(View(r - 1), u, NextTraffic(r - 1))
    <3>1. r > 0 /\ (r - 1) + 1 = r
      BY <2>3, UpperIndex
    <3>2. Traffic(r - 1).backward = wire["TAG_ORDERED"][r][r - 1]
      BY <3>1 DEF Traffic
    <3>3. NextTraffic(r - 1) = [Traffic(r - 1) EXCEPT !.backward = Append(Traffic(r - 1).backward, m)]
      <4>1. OnlyWire("TAG_ORDERED", (r - 1) + 1, r - 1, Append(Traffic(r - 1).backward, m))
        BY <2>1, <3>1, <3>2
      <4>. QED  BY <2>3, <4>1, ThisTraffic
    <3>4. HandedBackward(Traffic(r - 1), NextTraffic(r - 1), m)
      BY <3>3 DEF Traffic, HandedBackward
    <3>. QED  BY <1>3, <1>5, <1>7, <1>9, <2>3, <3>4, LowerHandsBackward
  <2>. QED  BY <1>2, <1>6, <2>1, <2>2, <2>3, BusyMove DEF u
<1>. QED  BY <1>8, <1>9

-----------------------------------------------------------------------------
(* The exchanges stay in step throughout a solve. *)

LEMMA HaloControlStarts == Init => HaloControl
<1>. SUFFICES ASSUME Init PROVE HaloControl
  OBVIOUS
<1>1. \A tag \in Tags, p, q \in Ranks : wire[tag][p][q] = <<>>
  BY DEF Init, MpiInit
<1>2. IsSequence(<<>>)
  <2>1. <<>> \in Seq({})
    OBVIOUS
  <2>. QED  BY <2>1 DEF IsSequence
<1>3. Wires
  BY <1>1, <1>2 DEF Wires, Init, MpiInit
<1>4. ASSUME NEW r \in Ranks
      PROVE  /\ StageRight(r) /\ rep[r] = 0
             /\ View(r) = [exchange |-> NoExchange, halo |-> 4, turn |-> 2]
  BY DEF Init, StageRight, RightAt, View, LastExchange, HaloStep, TurnStep
<1>5. ASSUME NEW r \in Uppers PROVE Neighbours(r)
  <2>1. r \in Ranks /\ r + 1 \in Ranks
    BY UpperRanks
  <2>2. Traffic(r) = [up |-> <<>>, down |-> <<>>, forward |-> <<>>, backward |-> <<>>]
    BY <1>1, <2>1 DEF Traffic, Tags
  <2>3. ~ Turning(NoExchange)
    BY DEF Turning, NoExchange, Exchange
  <2>4. PICK v : v = View(r) /\ v = View(r + 1)
    BY <1>4, <2>1
  <2>5. v.exchange = NoExchange /\ v.halo = 4 /\ v.turn = 2
    BY <1>4, <2>1, <2>4
  <2>6. Halos(Traffic(r), FALSE, FALSE) /\ Turns(NoExchange, 2, 2, Traffic(r))
    BY <2>2, <2>3 DEF Halos, Holds, Turns
  <2>7. InStep(v, v, Traffic(r))
    BY <2>5, <2>6 DEF InStep, Halos, Holds
  <2>. QED  BY <1>4, <2>1, <2>4, <2>7 DEF Neighbours
<1>. QED  BY <1>3, <1>4, <1>5 DEF HaloControl

LEMMA HaloControlStays ==
  ASSUME Control, HaloControl, UNCHANGED vars
  PROVE  HaloControl'
<1>1. /\ wire' = wire /\ run' = run /\ stage' = stage /\ phase' = phase /\ pass' = pass
      /\ rep' = rep
  BY DEF vars
<1>2. Wires'
  BY <1>1 DEF HaloControl, Wires
<1>3. ASSUME NEW r \in Ranks PROVE StageRight(r)'
  <2>1. StageRight(r) /\ RightAt(stage[r], pass[r])' = RightAt(stage'[r], pass'[r])
    BY <1>1, ScheduleFixed DEF HaloControl, RightAt
  <2>. QED  BY <1>1, <2>1 DEF StageRight
<1>4. ASSUME NEW r \in Uppers PROVE Neighbours(r)'
  <2>1. /\ NextView(r) = View(r) /\ NextView(r + 1) = View(r + 1)
        /\ NextTraffic(r) = Traffic(r) /\ Neighbours(r)
    BY <1>1 DEF NextView, View, NextTraffic, Traffic, HaloControl
  <2>2. CASE rep[r] = rep[r + 1]
    <3>1. InStep(NextView(r), NextView(r + 1), NextTraffic(r))
      BY <2>1, <2>2 DEF Neighbours
    <3>. QED  BY <1>1, <2>2, <3>1, NextNeighbours
  <2>3. CASE rep[r] # rep[r + 1]
    <3>1. /\ Through(r, r + 1) \/ Through(r + 1, r)
          /\ Halos(Traffic(r), FALSE, FALSE) /\ Turns(NoExchange, 2, 2, Traffic(r))
      BY <2>1, <2>3 DEF Neighbours
    <3>2. Through(r, r + 1)' \/ Through(r + 1, r)'
      BY <1>1, <3>1 DEF Through, At
    <3>3. PICK x : x = Traffic(r)
      OBVIOUS
    <3>4. Traffic(r)' = x
      BY <1>1, <3>3 DEF Traffic
    <3>5. Turns(NoExchange, 2, 2, x)' = Turns(NoExchange, 2, 2, x)
      BY <1>1, ExchangesFixed
    <3>6. Halos(Traffic(r), FALSE, FALSE)' /\ Turns(NoExchange, 2, 2, Traffic(r))'
      BY <3>1, <3>3, <3>4, <3>5 DEF Halos, Holds
    <3>. QED  BY <1>1, <2>3, <3>2, <3>6 DEF Neighbours
  <2>. QED  BY <2>2, <2>3
<1>. QED  BY <1>2, <1>3, <1>4 DEF HaloControl

LEMMA HaloControlKept == Control /\ (Grid => HaloControl) /\ [Next]_vars => (Grid => HaloControl')
<1>. SUFFICES ASSUME Control, HaloControl, [Next]_vars, Grid PROVE HaloControl'
  OBVIOUS
<1>1. CASE UNCHANGED vars
  BY <1>1, HaloControlStays
<1>2. ASSUME NEW r \in Ranks, Computes(r) PROVE HaloControl'
  <2>1. ~ LeaveBcast(r)
    BY WorkIsInPass DEF LeaveBcast
  <2>. QED  BY <1>2, <2>1, ResetQuiet, EnterBarrierQuiet, LeaveBarrierQuiet, ExchangeHaloPairs,
               TakeLowerHaloPairs, TakeUpperHaloPairs, GatherQuiet, StartPassQuiet,
               TakeTurnPairs, UpdateItemQuiet, HandOnPairs, WorkDoneQuiet, EndPassQuiet,
               EvaluateQuiet, LeaveReduceQuiet, FinishQuiet DEF Computes
<1>3. ASSUME NEW r \in Ranks, LeavesSend(r) PROVE HaloControl'
  BY <1>3, SendHaloDownPairs, HaloDoneQuiet, HandedOnQuiet DEF LeavesSend
<1>. QED  BY <1>1, <1>2, <1>3 DEF Next, AllFinished

LEMMA HaloControlHolds == Spec => [](Grid => HaloControl)
<1>. DEFINE Inv == Control /\ (Grid => HaloControl)
<1>1. Init => Inv
  BY ControlStarts, HaloControlStarts
<1>2. Inv /\ [Next]_vars => Inv'
  BY ControlKept, HaloControlKept
<1>3. Inv => (Grid => HaloControl)
  OBVIOUS
<1>. QED  BY <1>1, <1>2, <1>3, PTL DEF Spec

\* Neighbours who have solved have received every message.
LEMMA NothingLeft ==
  ASSUME Control, HaloControl, \A r \in Ranks : Solved(r)
  PROVE  \A tag \in Tags, q, r \in Ranks : wire[tag][q][r] = <<>>
<1>1. ASSUME NEW r \in Uppers
      PROVE  /\ wire["TAG_HALO_UP"][r + 1][r] = <<>> /\ wire["TAG_HALO_DOWN"][r][r + 1] = <<>>
             /\ wire["TAG_ORDERED"][r][r + 1] = <<>> /\ wire["TAG_ORDERED"][r + 1][r] = <<>>
  <2>1. PICK x : x = Traffic(r)
    OBVIOUS
  <2>2. x.up = <<>> /\ x.down = <<>> /\ x.forward = <<>> /\ x.backward = <<>>
    <3>1. CASE rep[r] = rep[r + 1]
      <4>1. PICK v, w : v = View(r) /\ w = View(r + 1)
        OBVIOUS
      <4>2. InStep(v, w, x)
        BY <1>1, <2>1, <3>1, <4>1 DEF HaloControl, Neighbours
      <4>3. v.halo = 4 /\ w.halo = 4 /\ v.turn = 2 /\ w.turn = 2
        <5>1. ASSUME NEW m \in Ranks PROVE View(m).halo = 4 /\ View(m).turn = 2
          <6>1. stage[m] \in {"barrier_out", "finished"} /\ phase[m] \in {"start", "wait"}
            BY HereLegal DEF Solved, LegalAt, PhasesOf, Stages
          <6>2. HaloStep(phase[m]) = 4 /\ TurnStep(stage[m], phase[m]) = 2
            BY <6>1 DEF HaloStep, TurnStep
          <6>. QED  BY <6>2 DEF View
        <5>. QED  BY <1>1, <4>1, <5>1, UpperRanks
      <4>. QED  BY <4>2, <4>3 DEF InStep, Halos, Holds, Turns
    <3>2. CASE rep[r] # rep[r + 1]
      <4>1. Halos(x, FALSE, FALSE) /\ Turns(NoExchange, 2, 2, x)
        BY <1>1, <2>1, <3>2 DEF HaloControl, Neighbours
      <4>. QED  BY <4>1 DEF Halos, Holds, Turns
    <3>. QED  BY <3>1, <3>2
  <2>. QED  BY <2>1, <2>2 DEF Traffic
<1>. SUFFICES ASSUME NEW tag \in Tags, NEW q \in Ranks, NEW r \in Ranks
     PROVE  wire[tag][q][r] = <<>>
  OBVIOUS
<1>2. CASE Unused(tag, q, r)
  BY <1>2 DEF HaloControl, Wires
<1>3. CASE ~ Unused(tag, q, r)
  <2>1. q = r + 1 \/ r = q + 1
    BY <1>3 DEF Unused
  <2>2. q = r + 1 => r \in Uppers
    BY RanksAssumption DEF Ranks, Uppers
  <2>3. r = q + 1 => q \in Uppers
    BY RanksAssumption DEF Ranks, Uppers
  <2>. QED  BY <1>1, <1>3, <2>1, <2>2, <2>3 DEF Unused, Tags
<1>. QED  BY <1>2, <1>3

-----------------------------------------------------------------------------
(***************************************************************************)
(* On the dense problem: the messages of the ordered passes, counted.  What *)
(* a rank has handed on and its neighbour not yet taken is under way.      *)
(***************************************************************************)

Ascending == {"forward", "block_forward"}
Descending == {"backward"}

\* The turns of these kinds in the first k passes of a solve, handed on or
\* taken by a rank at this place.
TurnsMade(kinds, k) == Cardinality({j \in 1..k : PassAt(j) \in kinds})
PassesMade(s, k) == IF s \in {"reset", "finished"} THEN 0 ELSE k
HandedPhases == {"handed_on", "bcast", "end_pass", "regather", "reranges", "rerows"}
TakenPhases == HandedPhases \cup {"work"}

HandedAt(s, p, k, kinds) ==
  TurnsMade(kinds, PassesMade(s, k))
  + IF s = "pass" /\ p \in HandedPhases /\ PassAt(k + 1) \in kinds THEN 1 ELSE 0
TakenAt(s, p, k, kinds) ==
  TurnsMade(kinds, PassesMade(s, k))
  + IF s = "pass" /\ p \in TakenPhases /\ PassAt(k + 1) \in kinds THEN 1 ELSE 0

\* What a rank has sent and received of either direction, where it is and
\* where a step takes it.
TallyAt(s, p, k) ==
  [down |-> HandedAt(s, p, k, Ascending), fromAbove |-> TakenAt(s, p, k, Ascending),
   up |-> HandedAt(s, p, k, Descending), fromBelow |-> TakenAt(s, p, k, Descending)]
Tally(r) == TallyAt(stage[r], phase[r], pass[r])
NextTally(r) == TallyAt(stage'[r], phase'[r], pass'[r])

\* What is under way between a rank with tally v and the one below it.
Balanced(v, w, x) ==
  /\ Len(x.forward) = v.down - w.fromAbove
  /\ Len(x.backward) = w.up - v.fromBelow

Idle(x) == x.forward = <<>> /\ x.backward = <<>>

PairBalanced(r) ==
  IF rep[r] = rep[r + 1] THEN Balanced(Tally(r), Tally(r + 1), Traffic(r))
  ELSE (Through(r, r + 1) \/ Through(r + 1, r)) /\ Idle(Traffic(r))

\* Only an ordered pass has a turn, and a solve begins with no pass.
PlaceAt(s, p, k) ==
  /\ p = "turn" => Ordered(PassAt(k + 1))
  /\ s = "barrier_in" => k = 0
PlaceRight(r) == PlaceAt(stage[r], phase[r], pass[r])

NoHalos ==
  \A p, q \in Ranks : wire["TAG_HALO_UP"][p][q] = <<>> /\ wire["TAG_HALO_DOWN"][p][q] = <<>>

TurnControl ==
  /\ Wires /\ NoHalos
  /\ \A r \in Ranks : PlaceRight(r)
  /\ \A r \in Uppers : PairBalanced(r)

LEMMA TurnsCount ==
  ASSUME NEW kinds, NEW k \in Nat
  PROVE  /\ TurnsMade(kinds, k) \in Nat
         /\ TurnsMade(kinds, k + 1) = TurnsMade(kinds, k) + IF PassAt(k + 1) \in kinds THEN 1 ELSE 0
         /\ TurnsMade(kinds, 0) = 0
<1>. DEFINE S(n) == {j \in 1..n : PassAt(j) \in kinds}
<1>1. IsFiniteSet(S(k))
  <2>1. IsFiniteSet(1..k) /\ S(k) \subseteq 1..k
    BY FS_Interval
  <2>. QED  BY <2>1, FS_Subset
<1>2. S(k + 1) = IF PassAt(k + 1) \in kinds THEN S(k) \cup {k + 1} ELSE S(k)
  <2>1. 1..(k + 1) = (1..k) \cup {k + 1}
    OBVIOUS
  <2>. QED  BY <2>1
<1>3. k + 1 \notin S(k)
  OBVIOUS
<1>4. Cardinality(S(k)) \in Nat /\ Cardinality(S(k) \cup {k + 1}) = Cardinality(S(k)) + 1
  BY <1>1, <1>3, FS_CardinalityType, FS_AddElement
<1>5. S(0) = {}
  OBVIOUS
<1>6. Cardinality(S(0)) = 0
  BY <1>5, FS_EmptySet
<1>. HIDE DEF S
<1>7. /\ TurnsMade(kinds, k) = Cardinality(S(k)) /\ TurnsMade(kinds, k + 1) = Cardinality(S(k + 1))
      /\ TurnsMade(kinds, 0) = Cardinality(S(0))
  BY DEF TurnsMade, S
<1>. QED  BY <1>2, <1>4, <1>6, <1>7

LEMMA TallyFixed ==
  ASSUME run' = run
  PROVE  /\ \A s, p, k : TallyAt(s, p, k)' = TallyAt(s, p, k)
         /\ \A v, w, x : Balanced(v, w, x)' = Balanced(v, w, x)
<1>1. ASSUME NEW kinds, NEW k PROVE TurnsMade(kinds, k)' = TurnsMade(kinds, k)
  <2>1. {j \in 1..k : PassAt(j) \in kinds}' = {j \in 1..k : PassAt(j) \in kinds}
    BY ScheduleFixed
  <2>. QED  BY <2>1 DEF TurnsMade
<1>2. ASSUME NEW s, NEW p, NEW k, NEW kinds
      PROVE  /\ HandedAt(s, p, k, kinds)' = HandedAt(s, p, k, kinds)
             /\ TakenAt(s, p, k, kinds)' = TakenAt(s, p, k, kinds)
  <2>1. PassAt(k + 1)' = PassAt(k + 1) /\ PassesMade(s, k)' = PassesMade(s, k)
    BY ScheduleFixed DEF PassesMade
  <2>2. TurnsMade(kinds, PassesMade(s, k))' = TurnsMade(kinds, PassesMade(s, k))
    <3>1. PICK n : n = PassesMade(s, k)
      OBVIOUS
    <3>. QED  BY <1>1, <2>1, <3>1
  <2>. QED  BY <2>1, <2>2 DEF HandedAt, TakenAt
<1>3. ASSUME NEW s, NEW p, NEW k PROVE TallyAt(s, p, k)' = TallyAt(s, p, k)
  BY <1>2 DEF TallyAt, Ascending, Descending
<1>4. ASSUME NEW v, NEW w, NEW x PROVE Balanced(v, w, x)' = Balanced(v, w, x)
  BY DEF Balanced
<1>. QED  BY <1>3, <1>4

LEMMA NextTallyIs ==
  ASSUME run' = run, NEW r
  PROVE  Tally(r)' = NextTally(r) /\ Traffic(r)' = NextTraffic(r)
<1>1. PICK s, p, k : s = stage'[r] /\ p = phase'[r] /\ k = pass'[r]
  OBVIOUS
<1>2. TallyAt(s, p, k)' = TallyAt(s, p, k)
  BY TallyFixed
<1>. QED  BY <1>1, <1>2 DEF Tally, NextTally, Traffic, NextTraffic

LEMMA NextBalanced ==
  ASSUME run' = run, NEW r \in Uppers, rep'[r] = rep'[r + 1],
         Balanced(NextTally(r), NextTally(r + 1), NextTraffic(r))
  PROVE  PairBalanced(r)'
<1>1. PICK v, w, x : v = NextTally(r) /\ w = NextTally(r + 1) /\ x = NextTraffic(r)
  OBVIOUS
<1>2. Tally(r)' = v /\ Tally(r + 1)' = w /\ Traffic(r)' = x
  BY <1>1, NextTallyIs
<1>3. Balanced(Tally(r), Tally(r + 1), Traffic(r))' = Balanced(v, w, x)
  BY <1>2, TallyFixed DEF Balanced
<1>. QED  BY <1>1, <1>3 DEF PairBalanced

-----------------------------------------------------------------------------
(* A step of one rank, and the balance with its neighbours. *)

LEMMA BalancedElsewhere ==
  ASSUME NEW m \in Ranks, OthersStay(m), NEW q \in Uppers, q # m, q + 1 # m,
         NextTraffic(q) = Traffic(q), PairBalanced(q)
  PROVE  PairBalanced(q)'
<1>1. /\ stage'[q] = stage[q] /\ phase'[q] = phase[q] /\ pass'[q] = pass[q] /\ rep'[q] = rep[q]
      /\ stage'[q + 1] = stage[q + 1] /\ phase'[q + 1] = phase[q + 1]
      /\ pass'[q + 1] = pass[q + 1] /\ rep'[q + 1] = rep[q + 1] /\ run' = run
  BY UpperRanks DEF OthersStay
<1>2. NextTally(q) = Tally(q) /\ NextTally(q + 1) = Tally(q + 1)
  BY <1>1 DEF NextTally, Tally
<1>3. CASE rep[q] = rep[q + 1]
  BY <1>1, <1>2, <1>3, NextBalanced DEF PairBalanced
<1>4. CASE rep[q] # rep[q + 1]
  <2>1. Idle(Traffic(q)) /\ (Through(q, q + 1) \/ Through(q + 1, q))
    BY <1>4 DEF PairBalanced
  <2>2. Idle(Traffic(q))'
    BY <1>1, <2>1, NextTallyIs DEF Idle
  <2>3. Through(q, q + 1)' \/ Through(q + 1, q)'
    BY <1>1, <2>1 DEF Through, At
  <2>. QED  BY <1>1, <1>4, <2>2, <2>3 DEF PairBalanced
<1>. QED  BY <1>3, <1>4

LEMMA PlacesKept ==
  ASSUME \A r \in Ranks : PlaceRight(r), NEW m \in Ranks, OthersStay(m),
         PlaceAt(stage'[m], phase'[m], pass'[m])
  PROVE  \A r \in Ranks : PlaceRight(r)'
<1>. SUFFICES ASSUME NEW r \in Ranks PROVE PlaceRight(r)'
  OBVIOUS
<1>1. PlaceAt(stage'[r], phase'[r], pass'[r])
  BY DEF OthersStay, PlaceRight
<1>2. PICK s, p, k : s = stage'[r] /\ p = phase'[r] /\ k = pass'[r]
  OBVIOUS
<1>3. PlaceAt(s, p, k)' = PlaceAt(s, p, k)
  BY ScheduleFixed DEF PlaceAt, OthersStay
<1>. QED  BY <1>1, <1>2, <1>3 DEF PlaceRight

LEMMA NoHalosKept ==
  ASSUME NoHalos, wire' = wire
  PROVE  NoHalos'
BY DEF NoHalos

LEMMA QuietTurn ==
  ASSUME TurnControl, NEW m \in Ranks, OthersStay(m), wire' = wire, rep'[m] = rep[m],
         NextTally(m) = Tally(m), ~ At(m, "barrier_out", "wait"),
         \/ stage[m] \in {"reset", "barrier_in", "finished"} =>
              stage'[m] \in {"reset", "barrier_in", "finished"}
         \/ \A q \in Uppers : q = m \/ q + 1 = m => rep[q] = rep[q + 1],
         PlaceAt(stage'[m], phase'[m], pass'[m])
  PROVE  TurnControl'
<1>1. ASSUME NEW q \in Uppers PROVE PairBalanced(q)'
  <2>0. PairBalanced(q) /\ run' = run /\ NextTraffic(q) = Traffic(q)
    BY DEF TurnControl, OthersStay, NextTraffic, Traffic
  <2>1. CASE q # m /\ q + 1 # m
    BY <2>0, <2>1, BalancedElsewhere
  <2>2. ASSUME q = m \/ q + 1 = m PROVE PairBalanced(q)'
    <3>1. /\ rep'[q] = rep[q] /\ rep'[q + 1] = rep[q + 1]
          /\ q # m => stage'[q] = stage[q] /\ phase'[q] = phase[q] /\ NextTally(q) = Tally(q)
          /\ q + 1 # m => /\ stage'[q + 1] = stage[q + 1] /\ phase'[q + 1] = phase[q + 1]
                          /\ NextTally(q + 1) = Tally(q + 1)
      BY UpperRanks DEF OthersStay, NextTally, Tally
    <3>2. NextTally(q) = Tally(q) /\ NextTally(q + 1) = Tally(q + 1)
      BY <3>1
    <3>3. CASE rep[q] = rep[q + 1]
      BY <2>0, <3>1, <3>2, <3>3, NextBalanced DEF PairBalanced
    <3>4. CASE rep[q] # rep[q + 1]
      <4>1. Idle(Traffic(q)) /\ (Through(q, q + 1) \/ Through(q + 1, q))
        BY <2>0, <3>4 DEF PairBalanced
      <4>2. Idle(Traffic(q))'
        BY <2>0, <4>1, NextTallyIs DEF Idle
      <4>3. (Through(q, q + 1) \/ Through(q + 1, q))'
        BY <2>0, <2>2, <3>1, <3>4, <4>1, UpperRanks DEF Through, At
      <4>. QED  BY <3>1, <3>4, <4>2, <4>3 DEF PairBalanced
    <3>. QED  BY <3>3, <3>4
  <2>. QED  BY <2>1, <2>2
<1>2. \A q \in Ranks : PlaceRight(q)'
  BY PlacesKept DEF TurnControl
<1>3. Wires' /\ NoHalos'
  BY NoHalosKept DEF TurnControl, Wires
<1>. QED  BY <1>1, <1>2, <1>3 DEF TurnControl

\* A rank alone has no neighbours.
LEMMA AloneTurn ==
  ASSUME TurnControl, P = 1, NEW m \in Ranks, OthersStay(m), wire' = wire,
         PlaceAt(stage'[m], phase'[m], pass'[m])
  PROVE  TurnControl'
<1>1. Uppers = {}
  BY DEF Uppers
<1>2. \A q \in Ranks : PlaceRight(q)'
  BY PlacesKept DEF TurnControl
<1>3. Wires' /\ NoHalos'
  BY NoHalosKept DEF TurnControl, Wires
<1>. QED  BY <1>1, <1>2, <1>3 DEF TurnControl

\* A message of a turn is sent or taken, and the balance kept.
LEMMA BusyTurn ==
  ASSUME TurnControl, NEW m \in Ranks, OthersStay(m), rep'[m] = rep[m], stage[m] = "pass",
         stage'[m] = "pass", pass'[m] = pass[m], phase'[m] # "turn", Wires', NoHalos',
         m \in Uppers => Balanced(NextTally(m), Tally(m + 1), NextTraffic(m)),
         m - 1 \in Uppers => Balanced(Tally(m - 1), NextTally(m), NextTraffic(m - 1)),
         \A q \in Uppers : q # m /\ q + 1 # m => NextTraffic(q) = Traffic(q)
  PROVE  TurnControl'
<1>1. ASSUME NEW q \in Uppers PROVE PairBalanced(q)'
  <2>0. PairBalanced(q) /\ run' = run /\ q \in Ranks /\ q + 1 \in Ranks
    BY UpperRanks DEF TurnControl, OthersStay
  <2>1. CASE q # m /\ q + 1 # m
    BY <2>0, <2>1, BalancedElsewhere
  <2>2. CASE q = m
    <3>1. rep'[q] = rep'[q + 1] /\ NextTally(q + 1) = Tally(q + 1)
      BY <2>0, <2>2, UpperRanks DEF PairBalanced, Through, At, OthersStay, NextTally, Tally
    <3>. QED  BY <2>0, <2>2, <3>1, NextBalanced
  <2>3. CASE q + 1 = m
    <3>0. q = m - 1 /\ q # m
      BY <2>3, UpperRanks DEF Uppers
    <3>1. rep'[q] = rep'[q + 1] /\ NextTally(q) = Tally(q)
      BY <2>0, <2>3, <3>0 DEF PairBalanced, Through, At, OthersStay, NextTally, Tally
    <3>2. Balanced(NextTally(q), NextTally(q + 1), NextTraffic(q))
      BY <2>3, <3>0, <3>1
    <3>. QED  BY <2>0, <3>1, <3>2, NextBalanced
  <2>. QED  BY <2>1, <2>2, <2>3
<1>2. PlaceAt(stage'[m], phase'[m], pass'[m])
  BY DEF PlaceAt
<1>3. \A q \in Ranks : PlaceRight(q)'
  BY <1>2, PlacesKept DEF TurnControl
<1>. QED  BY <1>1, <1>3 DEF TurnControl

-----------------------------------------------------------------------------
(* The steps of a rank on the dense problem, and the balance. *)

\* A rank goes on to phase p of its stage, and sends nothing.
GoesTo(r, p) ==
  /\ wire' = wire /\ run' = run /\ pass' = pass /\ rep' = rep /\ outcome' = outcome
  /\ calls' = calls \/ (\E c, d : Enter(r, c, d))
  /\ GotoPhase(r, p)

LEMMA GoesToPlace ==
  ASSUME Control, NEW r \in Ranks, NEW p, GoesTo(r, p)
  PROVE  /\ OthersStay(r) /\ stage'[r] = stage[r] /\ phase'[r] = p /\ pass'[r] = pass[r]
         /\ wire' = wire /\ rep'[r] = rep[r]
BY HereLegal, GoneToPhase, OthersOut DEF GoesTo

LEMMA GoesQuietly ==
  ASSUME Control, TurnControl, NEW r \in Ranks, NEW p, GoesTo(r, p),
         phase[r] # "wait", p # "turn",
         stage[r] = "pass" => /\ phase[r] \in HandedPhases <=> p \in HandedPhases
                              /\ phase[r] \in TakenPhases <=> p \in TakenPhases
  PROVE  TurnControl'
<1>1. /\ OthersStay(r) /\ stage'[r] = stage[r] /\ phase'[r] = p /\ pass'[r] = pass[r]
      /\ wire' = wire /\ rep'[r] = rep[r]
  BY GoesToPlace
<1>2. \A kinds : /\ HandedAt(stage[r], p, pass[r], kinds) = HandedAt(stage[r], phase[r], pass[r], kinds)
                 /\ TakenAt(stage[r], p, pass[r], kinds) = TakenAt(stage[r], phase[r], pass[r], kinds)
  BY DEF HandedAt, TakenAt
<1>3. NextTally(r) = Tally(r)
  BY <1>1, <1>2 DEF NextTally, Tally, TallyAt
<1>4. PlaceAt(stage'[r], phase'[r], pass'[r])
  BY <1>1 DEF TurnControl, PlaceRight, PlaceAt
<1>. QED  BY <1>1, <1>3, <1>4, QuietTurn DEF At

LEMMA EnterBarrierBalanced ==
  ASSUME Control, TurnControl, NEW r \in Ranks, EnterBarrier(r)
  PROVE  TurnControl'
<1>1. GoesTo(r, "wait") /\ phase[r] # "wait" /\ stage[r] # "pass"
  BY DEF EnterBarrier, GoesTo
<1>. QED  BY <1>1, GoesQuietly

LEMMA ExchangeHaloBalanced ==
  ASSUME Control, TurnControl, ~ Grid, NEW r \in Ranks, ExchangeHalo(r)
  PROVE  TurnControl'
<1>1. phase[r] = "exchange" /\ \E p \in {"body", "gather"} : GoesTo(r, p)
  BY DEF ExchangeHalo, GoesTo
<1>2. PICK p \in {"body", "gather"} : GoesTo(r, p)
  BY <1>1
<1>. QED  BY <1>1, <1>2, GoesQuietly DEF HandedPhases, TakenPhases

LEMMA GatherBalanced ==
  ASSUME Control, TurnControl, NEW r \in Ranks, Gather(r) \/ GatherRows(r) \/ StoreRows(r)
  PROVE  TurnControl'
<1>1. CASE phase[r] \in {"gather", "ranges", "rows"}
  <2>1. \E p \in {"ranges", "rows", "copy", "body"} : GoesTo(r, p)
    <3>1. CASE Gather(r)
      BY <1>1, <3>1 DEF Gather, GoesTo, Gathered
    <3>2. CASE GatherRows(r)
      BY <1>1, <3>2 DEF GatherRows, GoesTo
    <3>3. CASE StoreRows(r)
      BY <1>1, <3>3 DEF StoreRows, GoesTo, Gathered
    <3>. QED  BY <3>1, <3>2, <3>3
  <2>2. PICK p \in {"ranges", "rows", "copy", "body"} : GoesTo(r, p)
    BY <2>1
  <2>. QED  BY <1>1, <2>2, GoesQuietly DEF HandedPhases, TakenPhases
<1>2. CASE phase[r] \in {"regather", "reranges", "rerows"}
  <2>1. \E p \in {"reranges", "rerows", "end_pass"} : GoesTo(r, p)
    <3>1. CASE Gather(r)
      BY <1>2, <3>1 DEF Gather, GoesTo, Gathered
    <3>2. CASE GatherRows(r)
      BY <1>2, <3>2 DEF GatherRows, GoesTo
    <3>3. CASE StoreRows(r)
      BY <1>2, <3>3 DEF StoreRows, GoesTo, Gathered
    <3>. QED  BY <3>1, <3>2, <3>3
  <2>2. PICK p \in {"reranges", "rerows", "end_pass"} : GoesTo(r, p)
    BY <2>1
  <2>. QED  BY <1>2, <2>2, GoesQuietly DEF HandedPhases, TakenPhases
<1>. QED  BY <1>1, <1>2 DEF Gather, GatherRows, StoreRows

LEMMA BcastBalanced ==
  ASSUME Control, TurnControl, ~ Grid, NEW r \in Ranks, HandedOn(r) \/ LeaveBcast(r)
  PROVE  TurnControl'
<1>1. /\ phase[r] \in {"handed_on", "bcast"}
      /\ \E p \in {"bcast", "end_pass"} : GoesTo(r, p)
  BY DEF HandedOn, LeaveBcast, GoesTo
<1>2. PICK p \in {"bcast", "end_pass"} : GoesTo(r, p)
  BY <1>1
<1>. QED  BY <1>1, <1>2, GoesQuietly DEF HandedPhases, TakenPhases

LEMMA EvaluateBalanced ==
  ASSUME Control, TurnControl, NEW r \in Ranks, Evaluate(r)
  PROVE  TurnControl'
<1>1. GoesTo(r, "reduce") /\ stage[r] # "pass" /\ phase[r] # "wait"
  BY DEF Evaluate, GoesTo
<1>. QED  BY <1>1, GoesQuietly

LEMMA UpdateItemBalanced ==
  ASSUME Control, TurnControl, NEW r \in Ranks, UpdateItem(r)
  PROVE  TurnControl'
<1>1. /\ phase[r] = "work" /\ wire' = wire /\ run' = run /\ stage' = stage /\ phase' = phase
      /\ rep' = rep /\ outcome' = outcome /\ pass' = pass /\ calls' = calls
  BY DEF UpdateItem
<1>2. OthersStay(r)
  BY <1>1 DEF OthersStay
<1>3. NextTally(r) = Tally(r) /\ PlaceAt(stage'[r], phase'[r], pass'[r])
  BY <1>1 DEF NextTally, Tally, TurnControl, PlaceRight
<1>. QED  BY <1>1, <1>2, <1>3, QuietTurn DEF At

LEMMA StartPassBalanced ==
  ASSUME Control, TurnControl, NEW r \in Ranks, StartPass(r)
  PROVE  TurnControl'
<1>. DEFINE p == IF Ordered(Kind(r)) /\ P > 1 THEN "turn" ELSE "work"
<1>1. GoesTo(r, p) /\ stage[r] = "pass" /\ phase[r] = "body"
  BY DEF StartPass, GoesTo, At
<1>2. /\ OthersStay(r) /\ stage'[r] = stage[r] /\ phase'[r] = p /\ pass'[r] = pass[r]
      /\ wire' = wire /\ rep'[r] = rep[r]
  BY <1>1, GoesToPlace
<1>3. PlaceAt(stage'[r], phase'[r], pass'[r])
  BY <1>1, <1>2 DEF PlaceAt, Kind
<1>4. CASE P = 1
  BY <1>2, <1>3, <1>4, AloneTurn
<1>5. CASE P # 1
  <2>1. P > 1
    BY <1>5, RanksAssumption
  <2>2. CASE Ordered(Kind(r))
    <3>1. \A kinds : /\ HandedAt("pass", "turn", pass[r], kinds) = HandedAt("pass", "body", pass[r], kinds)
                     /\ TakenAt("pass", "turn", pass[r], kinds) = TakenAt("pass", "body", pass[r], kinds)
      BY DEF HandedAt, TakenAt, HandedPhases, TakenPhases
    <3>2. NextTally(r) = Tally(r)
      BY <1>1, <1>2, <2>1, <2>2, <3>1 DEF NextTally, Tally, TallyAt
    <3>. QED  BY <1>1, <1>2, <1>3, <3>2, QuietTurn DEF At
  <2>3. CASE ~ Ordered(Kind(r))
    <3>1. \A kinds : PassAt(pass[r] + 1) \notin kinds =>
                     /\ HandedAt("pass", "work", pass[r], kinds) = HandedAt("pass", "body", pass[r], kinds)
                     /\ TakenAt("pass", "work", pass[r], kinds) = TakenAt("pass", "body", pass[r], kinds)
      BY DEF HandedAt, TakenAt
    <3>2. PassAt(pass[r] + 1) \notin Ascending /\ PassAt(pass[r] + 1) \notin Descending
      BY <2>3 DEF Ordered, Kind, Ascending, Descending
    <3>3. NextTally(r) = Tally(r)
      BY <1>1, <1>2, <2>3, <3>1, <3>2 DEF NextTally, Tally, TallyAt
    <3>. QED  BY <1>1, <1>2, <1>3, <3>3, QuietTurn DEF At
  <2>. QED  BY <2>2, <2>3
<1>. QED  BY <1>4, <1>5

LEMMA WorkDoneBalanced ==
  ASSUME Control, TurnControl, NEW r \in Ranks, WorkDone(r)
  PROVE  TurnControl'
<1>1. /\ \E p \in {"regather", "end_pass"} : GoesTo(r, p)
      /\ phase[r] = "work" /\ ~ (Ordered(Kind(r)) /\ P > 1)
  BY DEF WorkDone, GoesTo
<1>2. PICK p \in {"regather", "end_pass"} : GoesTo(r, p)
  BY <1>1
<1>3. /\ OthersStay(r) /\ stage'[r] = stage[r] /\ phase'[r] = p /\ pass'[r] = pass[r]
      /\ wire' = wire /\ rep'[r] = rep[r] /\ stage[r] = "pass"
  BY <1>1, <1>2, GoesToPlace, WorkIsInPass
<1>4. PlaceAt(stage'[r], phase'[r], pass'[r])
  BY <1>2, <1>3 DEF PlaceAt
<1>5. CASE P = 1
  BY <1>3, <1>4, <1>5, AloneTurn
<1>6. CASE P # 1
  <2>1. ~ Ordered(Kind(r))
    BY <1>1, <1>6, RanksAssumption
  <2>2. \A kinds : PassAt(pass[r] + 1) \notin kinds =>
                   /\ HandedAt("pass", "work", pass[r], kinds) = HandedAt("pass", p, pass[r], kinds)
                   /\ TakenAt("pass", "work", pass[r], kinds) = TakenAt("pass", p, pass[r], kinds)
    BY DEF HandedAt, TakenAt
  <2>3. PassAt(pass[r] + 1) \notin Ascending /\ PassAt(pass[r] + 1) \notin Descending
    BY <2>1 DEF Ordered, Kind, Ascending, Descending
  <2>4. NextTally(r) = Tally(r)
    BY <1>1, <1>3, <2>2, <2>3 DEF NextTally, Tally, TallyAt
  <2>. QED  BY <1>1, <1>3, <1>4, <2>4, QuietTurn DEF At
<1>. QED  BY <1>5, <1>6

\* A rank goes on to another stage with the passes it has made.
LEMMA StageBalanced ==
  ASSUME Control, TurnControl, NEW r \in Ranks, NEW s, NEW p, OthersStay(r),
         stage'[r] = s, phase'[r] = p, pass'[r] = pass[r], wire' = wire, rep'[r] = rep[r],
         stage[r] \in {"rhs_norm", "initial", "residual", "synchronise"},
         s \in {"initial", "pass", "synchronise", "barrier_out"},
         phase[r] # "wait", p \notin TakenPhases, p # "turn"
  PROVE  TurnControl'
<1>1. \A kinds : /\ HandedAt(s, p, pass[r], kinds) = HandedAt(stage[r], phase[r], pass[r], kinds)
                 /\ TakenAt(s, p, pass[r], kinds) = TakenAt(stage[r], phase[r], pass[r], kinds)
  BY DEF HandedAt, TakenAt, TakenPhases, PassesMade
<1>2. NextTally(r) = Tally(r)
  BY <1>1 DEF NextTally, Tally, TallyAt
<1>3. PlaceAt(stage'[r], phase'[r], pass'[r])
  BY DEF PlaceAt
<1>. QED  BY <1>2, <1>3, QuietTurn DEF At

LEMMA FinishBalanced ==
  ASSUME Control, TurnControl, NEW r \in Ranks, Finish(r)
  PROVE  TurnControl'
<1>1. /\ stage[r] = "synchronise" /\ phase[r] = "copy"
      /\ wire' = wire /\ run' = run /\ rep' = rep /\ calls' = calls /\ pass' = pass
      /\ \E o : outcome' = [outcome EXCEPT ![r] = o]
      /\ Goto(r, "barrier_out", "start")
  BY DEF Finish, At
<1>2. OthersStay(r) /\ stage'[r] = "barrier_out" /\ phase'[r] = "start"
  BY <1>1, HereLegal, GoneTo, OthersOut
<1>. QED  BY <1>1, <1>2, StageBalanced DEF TakenPhases, HandedPhases

LEMMA FlatFirstPhase ==
  ASSUME NEW s, NEW k
  PROVE  FirstPhase(s, k) \in {"evaluate", "body", "gather", "exchange"}
BY DEF FirstPhase

LEMMA LeaveReduceBalanced ==
  ASSUME Control, TurnControl, NEW r \in Ranks, LeaveReduce(r)
  PROVE  TurnControl'
<1>1. /\ phase[r] = "reduce" /\ wire' = wire /\ run' = run /\ rep' = rep /\ calls' = calls
      /\ pass' = pass
  BY DEF LeaveReduce
<1>2. LegalAt(stage[r], phase[r], pass[r], rep[r]) /\ ControlTypes
  BY HereLegal
<1>3. stage[r] \in {"rhs_norm", "initial", "residual"} /\ pass[r] \in Nat
  BY <1>1, <1>2 DEF LegalAt, PhasesOf, Stages, HaloPhases, ControlTypes
<1>4. outcome' = outcome \/ \E o : outcome' = [outcome EXCEPT ![r] = o]
  <2>1. stage[r] = "residual" => \E o : outcome' = [outcome EXCEPT ![r].reason = o]
    BY DEF LeaveReduce
  <2>2. \A o : [outcome EXCEPT ![r].reason = o]
                 = [outcome EXCEPT ![r] = [outcome[r] EXCEPT !.reason = o]]
    OBVIOUS
  <2>3. stage[r] = "initial" => \E o : outcome' = [outcome EXCEPT ![r] = o]
    BY DEF LeaveReduce
  <2>4. stage[r] = "rhs_norm" => outcome' = outcome
    BY DEF LeaveReduce
  <2>. QED  BY <1>3, <2>1, <2>2, <2>3, <2>4
<1>5. \E s \in {"initial", "pass", "synchronise", "barrier_out"} :
        \E p \in {"evaluate", "body", "gather", "exchange", "start"} : Goto(r, s, p)
  <2>1. CASE stage[r] = "rhs_norm"
    BY <2>1, FlatFirstPhase DEF LeaveReduce, Begin
  <2>2. CASE stage[r] \in {"initial", "residual"}
    <3>1. \/ Loop(r, pass[r]) \/ Goto(r, "barrier_out", "start")
          \/ Begin(r, "synchronise", pass[r])
      BY <2>2 DEF LeaveReduce
    <3>. QED  BY <2>2, <3>1, FlatFirstPhase DEF Loop, Begin
  <2>. QED  BY <1>3, <2>1, <2>2
<1>6. PICK s \in {"initial", "pass", "synchronise", "barrier_out"},
           p \in {"evaluate", "body", "gather", "exchange", "start"} : Goto(r, s, p)
  BY <1>5
<1>7. OthersStay(r) /\ stage'[r] = s /\ phase'[r] = p
  BY <1>1, <1>2, <1>4, <1>6, GoneTo, OthersOut
<1>. QED  BY <1>1, <1>3, <1>7, StageBalanced DEF TakenPhases, HandedPhases

LEMMA ResetBalanced ==
  ASSUME Control, TurnControl, NEW r \in Ranks, Reset(r)
  PROVE  TurnControl'
<1>1. /\ stage[r] = "reset" /\ phase[r] = "start" /\ wire' = wire /\ run' = run
      /\ calls' = calls /\ rep' = rep /\ outcome' = outcome /\ pass' = [pass EXCEPT ![r] = 0]
      /\ Goto(r, "barrier_in", "start")
  BY DEF Reset, At
<1>2. OthersStay(r) /\ stage'[r] = "barrier_in" /\ phase'[r] = "start" /\ pass'[r] = 0
  BY <1>1, HereLegal, GoneTo, OthersOut DEF ControlTypes
<1>3. \A kinds : /\ HandedAt("barrier_in", "start", 0, kinds) = HandedAt("reset", "start", pass[r], kinds)
                 /\ TakenAt("barrier_in", "start", 0, kinds) = TakenAt("reset", "start", pass[r], kinds)
  BY DEF HandedAt, TakenAt, PassesMade
<1>4. NextTally(r) = Tally(r)
  BY <1>1, <1>2, <1>3 DEF NextTally, Tally, TallyAt
<1>. QED  BY <1>1, <1>2, <1>4, QuietTurn DEF At, PlaceAt

LEMMA EndPassBalanced ==
  ASSUME Control, TurnControl, NEW r \in Ranks, EndPass(r)
  PROVE  TurnControl'
<1>. DEFINE k == pass[r] + 1
<1>1. /\ phase[r] = "end_pass" /\ wire' = wire /\ run' = run
      /\ rep' = rep /\ outcome' = outcome /\ pass' = [pass EXCEPT ![r] = k] /\ calls' = calls
  BY DEF EndPass
<1>2. stage[r] = "pass" /\ pass[r] \in Nat /\ ControlTypes
  BY <1>1, WorkIsInPass, HereLegal DEF ControlTypes
<1>3. \E s \in {"pass", "residual", "synchronise"} :
        \E p \in {"evaluate", "body", "gather", "exchange"} : Goto(r, s, p)
  BY FlatFirstPhase DEF EndPass, Begin, Loop
<1>4. PICK s \in {"pass", "residual", "synchronise"},
           p \in {"evaluate", "body", "gather", "exchange"} : Goto(r, s, p)
  BY <1>3
<1>5. OthersStay(r) /\ stage'[r] = s /\ phase'[r] = p /\ pass'[r] = k
  <2>1. pass'[r] = k
    BY <1>1, <1>2 DEF ControlTypes
  <2>. QED  BY <1>1, <1>2, <1>4, <2>1, GoneTo, OthersOut
<1>6. ASSUME NEW kinds
      PROVE  /\ HandedAt(s, p, k, kinds) = HandedAt("pass", "end_pass", pass[r], kinds)
             /\ TakenAt(s, p, k, kinds) = TakenAt("pass", "end_pass", pass[r], kinds)
  <2>1. PassesMade(s, k) = k /\ PassesMade("pass", pass[r]) = pass[r]
    BY DEF PassesMade
  <2>2. TurnsMade(kinds, k) = TurnsMade(kinds, pass[r]) + IF PassAt(k) \in kinds THEN 1 ELSE 0
    BY <1>2, TurnsCount
  <2>3. TurnsMade(kinds, k) \in Nat /\ TurnsMade(kinds, pass[r]) \in Nat
    BY <1>2, TurnsCount
  <2>4. p \notin TakenPhases /\ p \notin HandedPhases
    BY DEF TakenPhases, HandedPhases
  <2>5. "end_pass" \in TakenPhases /\ "end_pass" \in HandedPhases
    BY DEF TakenPhases, HandedPhases
  <2>. HIDE DEF k
  <2>. QED  BY <2>1, <2>2, <2>3, <2>4, <2>5 DEF HandedAt, TakenAt, k
<1>7. NextTally(r) = Tally(r)
  BY <1>1, <1>2, <1>5, <1>6 DEF NextTally, Tally, TallyAt
<1>. QED  BY <1>1, <1>2, <1>5, <1>7, QuietTurn DEF At, PlaceAt

\* What a turn changes of a tally.
LEMMA TurnTallies ==
  ASSUME NEW k \in Nat, Ordered(PassAt(k + 1)), NEW v, NEW w, NEW u,
         v = TallyAt("pass", "turn", k), w = TallyAt("pass", "work", k),
         u = TallyAt("pass", "handed_on", k)
  PROVE  /\ v.down \in Nat /\ v.up \in Nat /\ v.fromAbove \in Nat /\ v.fromBelow \in Nat
         /\ w.down = v.down /\ w.up = v.up
         /\ u.fromAbove = w.fromAbove /\ u.fromBelow = w.fromBelow
         /\ PassAt(k + 1) # "backward" =>
              /\ w.fromAbove = v.fromAbove + 1 /\ w.fromBelow = v.fromBelow
              /\ u.down = w.down + 1 /\ u.up = w.up
         /\ PassAt(k + 1) = "backward" =>
              /\ w.fromAbove = v.fromAbove /\ w.fromBelow = v.fromBelow + 1
              /\ u.down = w.down /\ u.up = w.up + 1
<1>1. \A kinds : TurnsMade(kinds, k) \in Nat
  BY TurnsCount
<1>2. \A kinds : /\ HandedAt("pass", "turn", k, kinds) = TurnsMade(kinds, k)
                 /\ HandedAt("pass", "work", k, kinds) = TurnsMade(kinds, k)
                 /\ TakenAt("pass", "turn", k, kinds) = TurnsMade(kinds, k)
                 /\ HandedAt("pass", "handed_on", k, kinds) =
                      TurnsMade(kinds, k) + IF PassAt(k + 1) \in kinds THEN 1 ELSE 0
                 /\ TakenAt("pass", "work", k, kinds) =
                      TurnsMade(kinds, k) + IF PassAt(k + 1) \in kinds THEN 1 ELSE 0
                 /\ TakenAt("pass", "handed_on", k, kinds) =
                      TurnsMade(kinds, k) + IF PassAt(k + 1) \in kinds THEN 1 ELSE 0
  BY <1>1 DEF HandedAt, TakenAt, HandedPhases, TakenPhases, PassesMade
<1>3. /\ PassAt(k + 1) \in Ascending <=> PassAt(k + 1) # "backward"
      /\ PassAt(k + 1) \in Descending <=> PassAt(k + 1) = "backward"
  BY DEF Ascending, Descending, Ordered
<1>. QED  BY <1>1, <1>2, <1>3 DEF TallyAt

LEMMA TallyTypes ==
  ASSUME NEW r, pass[r] \in Nat
  PROVE  /\ Tally(r).down \in Int /\ Tally(r).up \in Int
         /\ Tally(r).fromAbove \in Int /\ Tally(r).fromBelow \in Int
<1>1. PassesMade(stage[r], pass[r]) \in Nat
  BY DEF PassesMade
<1>2. \A kinds : TurnsMade(kinds, PassesMade(stage[r], pass[r])) \in Nat
  BY <1>1, TurnsCount
<1>. QED  BY <1>2 DEF Tally, TallyAt, HandedAt, TakenAt

\* In a pass a rank is as far as its neighbours in their repetition.
LEMMA BalancedHere ==
  ASSUME TurnControl, NEW m \in Ranks, stage[m] = "pass"
  PROVE  /\ m \in Uppers => Balanced(Tally(m), Tally(m + 1), Traffic(m))
         /\ m - 1 \in Uppers => Balanced(Tally(m - 1), Tally(m), Traffic(m - 1))
<1>1. ASSUME m \in Uppers PROVE Balanced(Tally(m), Tally(m + 1), Traffic(m))
  BY <1>1 DEF TurnControl, PairBalanced, Through, At
<1>2. ASSUME m - 1 \in Uppers PROVE Balanced(Tally(m - 1), Tally(m), Traffic(m - 1))
  <2>1. PICK q \in Uppers : q = m - 1 /\ q + 1 = m
    BY <1>2, UpperIndex
  <2>2. Balanced(Tally(q), Tally(q + 1), Traffic(q))
    BY <2>1 DEF TurnControl, PairBalanced, Through, At
  <2>. QED  BY <2>1, <2>2
<1>. QED  BY <1>1, <1>2

LEMMA NoHalosSent ==
  ASSUME NoHalos, NEW p \in Ranks, NEW q \in Ranks, NEW s, OnlyWire("TAG_ORDERED", p, q, s)
  PROVE  NoHalos'
BY DEF NoHalos, OnlyWire, Tags

LEMMA TakeTurnBalanced ==
  ASSUME Control, TurnControl, ~ Grid, NEW r \in Ranks, TakeTurn(r)
  PROVE  TurnControl'
<1>1. phase[r] = "turn" /\ Steps(r, "work") /\ stage[r] = "pass" /\ pass[r] \in Nat
  BY WorkIsInPass, HereLegal DEF TakeTurn, Steps, ControlTypes
<1>2. OthersStay(r) /\ stage'[r] = stage[r] /\ phase'[r] = "work" /\ pass' = pass /\ rep' = rep
  BY <1>1, StepsTo DEF Steps
<1>3. Ordered(PassAt(pass[r] + 1)) /\ (Forward(r) <=> PassAt(pass[r] + 1) # "backward")
  BY <1>1 DEF TurnControl, PlaceRight, PlaceAt, Forward, Kind
<1>4. PICK v, w : v = Tally(r) /\ w = NextTally(r)
  OBVIOUS
<1>5. v = TallyAt("pass", "turn", pass[r]) /\ w = TallyAt("pass", "work", pass[r])
  BY <1>1, <1>2, <1>4 DEF Tally, NextTally
<1>6. /\ w.down = v.down /\ w.up = v.up /\ v.fromAbove \in Nat /\ v.fromBelow \in Nat
      /\ Forward(r) => w.fromAbove = v.fromAbove + 1 /\ w.fromBelow = v.fromBelow
      /\ ~ Forward(r) => w.fromAbove = v.fromAbove /\ w.fromBelow = v.fromBelow + 1
  BY <1>1, <1>3, <1>5, TurnTallies
<1>7. /\ r \in Uppers => Balanced(v, Tally(r + 1), Traffic(r))
      /\ r - 1 \in Uppers => Balanced(Tally(r - 1), v, Traffic(r - 1))
  BY <1>1, <1>4, BalancedHere
<1>8. CASE Forward(r) /\ r > 0
  <2>1. Predecessor(r) = r - 1 /\ r - 1 # PROC_NULL /\ r - 1 \in Uppers /\ (r - 1) + 1 = r
    BY <1>8, UpperIndex DEF Predecessor, PROC_NULL, Ranks
  <2>2. Incoming(r, r - 1, "TAG_ORDERED") /\ Receive(r, r - 1, "TAG_ORDERED")
    BY <2>1 DEF TakeTurn
  <2>3. /\ Wires' /\ OnlyWire("TAG_ORDERED", r - 1, r, Tail(wire["TAG_ORDERED"][r - 1][r]))
        /\ wire["TAG_ORDERED"][r - 1][r] # <<>>
        /\ \A q \in Uppers : q + 1 # r => NextTraffic(q) = Traffic(q)
    BY <1>8, <2>2, TakenFromAbove DEF TurnControl
  <2>4. NoHalos'
    BY <2>1, <2>3, NoHalosSent, UpperRanks DEF TurnControl
  <2>5. PICK q \in Uppers : q = r - 1 /\ q + 1 = r
    BY <2>1
  <2>6. /\ Traffic(q).forward = wire["TAG_ORDERED"][r - 1][r]
        /\ NextTraffic(q) = [Traffic(q) EXCEPT !.forward = Tail(Traffic(q).forward)]
    <3>1. Traffic(q).forward = wire["TAG_ORDERED"][r - 1][r]
      BY <2>5 DEF Traffic
    <3>2. OnlyWire("TAG_ORDERED", q, q + 1, Tail(Traffic(q).forward))
      BY <2>3, <2>5, <3>1
    <3>. QED  BY <3>1, <3>2, ThisTraffic
  <2>7. /\ NextTraffic(q).forward = Tail(Traffic(q).forward)
        /\ NextTraffic(q).backward = Traffic(q).backward
    BY <2>6 DEF Traffic
  <2>8. IsSequence(Traffic(q).forward) /\ Traffic(q).forward # <<>>
    BY <2>1, <2>3, <2>6, UpperRanks DEF TurnControl, Wires, Tags
  <2>9. /\ Len(Traffic(q).forward) \in Nat
        /\ Len(Tail(Traffic(q).forward)) = Len(Traffic(q).forward) - 1
    BY <2>8, RestOfList
  <2>10. Balanced(Tally(q), v, Traffic(q))
    BY <1>7, <2>1, <2>5
  <2>11. /\ Len(Traffic(q).forward) = Tally(q).down - v.fromAbove
         /\ Len(Traffic(q).backward) = v.up - Tally(q).fromBelow
    BY <2>10 DEF Balanced
  <2>12. Tally(q).down \in Int
    <3>1. q \in Ranks /\ pass[q] \in Nat
      BY UpperRanks, HereLegal DEF ControlTypes
    <3>. QED  BY <3>1, TallyTypes
  <2>13. Balanced(Tally(q), w, NextTraffic(q))
    <3>1. Len(NextTraffic(q).forward) = Tally(q).down - w.fromAbove
      BY <1>6, <1>8, <2>7, <2>9, <2>11, <2>12
    <3>. QED  BY <1>6, <2>7, <2>11, <3>1 DEF Balanced
  <2>14. r \in Uppers => Balanced(w, Tally(r + 1), NextTraffic(r))
    <3>1. r \in Uppers => NextTraffic(r) = Traffic(r)
      BY <2>3, UpperIndex
    <3>. QED  BY <1>6, <1>7, <1>8, <3>1 DEF Balanced
  <2>. QED  BY <1>1, <1>2, <1>4, <2>3, <2>4, <2>5, <2>13, <2>14, BusyTurn
<1>9. CASE ~ Forward(r) /\ r + 1 < P
  <2>1. Predecessor(r) = r + 1 /\ r + 1 # PROC_NULL /\ r \in Uppers
    BY <1>9, UpperIndex DEF Predecessor, PROC_NULL, Ranks
  <2>2. Incoming(r, r + 1, "TAG_ORDERED") /\ Receive(r, r + 1, "TAG_ORDERED")
    BY <2>1 DEF TakeTurn
  <2>3. /\ Wires' /\ OnlyWire("TAG_ORDERED", r + 1, r, Tail(wire["TAG_ORDERED"][r + 1][r]))
        /\ wire["TAG_ORDERED"][r + 1][r] # <<>>
        /\ \A q \in Uppers : q # r => NextTraffic(q) = Traffic(q)
    BY <1>9, <2>2, TakenFromBelow DEF TurnControl
  <2>4. NoHalos'
    BY <2>1, <2>3, NoHalosSent, UpperRanks DEF TurnControl
  <2>6. /\ Traffic(r).backward = wire["TAG_ORDERED"][r + 1][r]
        /\ NextTraffic(r) = [Traffic(r) EXCEPT !.backward = Tail(Traffic(r).backward)]
    BY <2>1, <2>3, ThisTraffic DEF Traffic
  <2>7. /\ NextTraffic(r).backward = Tail(Traffic(r).backward)
        /\ NextTraffic(r).forward = Traffic(r).forward
    BY <2>6 DEF Traffic
  <2>8. IsSequence(Traffic(r).backward) /\ Traffic(r).backward # <<>>
    BY <2>1, <2>3, <2>6, UpperRanks DEF TurnControl, Wires, Tags
  <2>9. /\ Len(Traffic(r).backward) \in Nat
        /\ Len(Tail(Traffic(r).backward)) = Len(Traffic(r).backward) - 1
    BY <2>8, RestOfList
  <2>10. Balanced(v, Tally(r + 1), Traffic(r))
    BY <1>7, <2>1
  <2>11. Len(Traffic(r).backward) = Tally(r + 1).up - v.fromBelow
    BY <2>10 DEF Balanced
  <2>12. Tally(r + 1).up \in Int
    <3>1. r + 1 \in Ranks /\ pass[r + 1] \in Nat
      BY <2>1, UpperRanks, HereLegal DEF ControlTypes
    <3>. QED  BY <3>1, TallyTypes
  <2>13. Balanced(w, Tally(r + 1), NextTraffic(r))
    BY <1>6, <1>9, <2>7, <2>9, <2>10, <2>11, <2>12 DEF Balanced
  <2>14. r - 1 \in Uppers => Balanced(Tally(r - 1), w, NextTraffic(r - 1))
    <3>1. r - 1 \in Uppers => NextTraffic(r - 1) = Traffic(r - 1)
      BY <2>3, UpperIndex
    <3>. QED  BY <1>6, <1>7, <1>9, <3>1 DEF Balanced
  <2>. QED  BY <1>1, <1>2, <1>4, <2>3, <2>4, <2>13, <2>14, BusyTurn
<1>10. CASE (Forward(r) /\ ~ (r > 0)) \/ (~ Forward(r) /\ ~ (r + 1 < P))
  <2>1. wire' = wire
    BY <1>10, UpperIndex DEF TakeTurn, Predecessor
  <2>2. (\A q : NextTraffic(q) = Traffic(q)) /\ Wires' /\ NoHalos'
    BY <2>1, SameTraffic, NoHalosKept DEF TurnControl, Wires
  <2>3. r \in Uppers => Balanced(w, Tally(r + 1), NextTraffic(r))
    BY <1>6, <1>7, <1>10, <2>2, UpperIndex DEF Balanced
  <2>4. r - 1 \in Uppers => Balanced(Tally(r - 1), w, NextTraffic(r - 1))
    BY <1>6, <1>7, <1>10, <2>2, UpperIndex DEF Balanced
  <2>. QED  BY <1>1, <1>2, <1>4, <2>2, <2>3, <2>4, BusyTurn
<1>. QED  BY <1>8, <1>9, <1>10

LEMMA HandOnBalanced ==
  ASSUME Control, TurnControl, ~ Grid, NEW r \in Ranks, HandOn(r)
  PROVE  TurnControl'
<1>1. PICK x : Send(r, Successor(r), "TAG_ORDERED", x)
  BY DEF HandOn
<1>2. /\ phase[r] = "work" /\ Steps(r, "handed_on") /\ stage[r] = "pass" /\ pass[r] \in Nat
      /\ Ordered(PassAt(pass[r] + 1)) /\ (Forward(r) <=> PassAt(pass[r] + 1) # "backward")
  BY WorkIsInPass, HereLegal DEF HandOn, Steps, ControlTypes, Kind, Forward
<1>3. OthersStay(r) /\ stage'[r] = stage[r] /\ phase'[r] = "handed_on" /\ pass' = pass /\ rep' = rep
  BY <1>2, StepsTo DEF Steps
<1>4. PICK v, w : v = Tally(r) /\ w = NextTally(r)
  OBVIOUS
<1>5. v = TallyAt("pass", "work", pass[r]) /\ w = TallyAt("pass", "handed_on", pass[r])
  BY <1>2, <1>3, <1>4 DEF Tally, NextTally
<1>6. /\ w.fromAbove = v.fromAbove /\ w.fromBelow = v.fromBelow
      /\ Forward(r) => w.down = v.down + 1 /\ w.up = v.up
      /\ ~ Forward(r) => w.down = v.down /\ w.up = v.up + 1
  BY <1>2, <1>5, TurnTallies
<1>7. /\ r \in Uppers => Balanced(v, Tally(r + 1), Traffic(r))
      /\ r - 1 \in Uppers => Balanced(Tally(r - 1), v, Traffic(r - 1))
  BY <1>2, <1>4, BalancedHere
<1>8. v.down \in Int /\ v.up \in Int
  BY <1>2, <1>4, TallyTypes
<1>9. CASE Forward(r)
  <2>1. /\ Wires'
        /\ r + 1 < P => OnlyWire("TAG_ORDERED", r, r + 1, Append(wire["TAG_ORDERED"][r][r + 1], x))
        /\ \A q \in Uppers : q # r => NextTraffic(q) = Traffic(q)
    BY <1>1, <1>9, SentDown DEF TurnControl, Successor
  <2>2. NoHalos'
    <3>1. CASE r + 1 < P
      BY <2>1, <3>1, NoHalosSent, UpperIndex DEF TurnControl
    <3>2. CASE ~ (r + 1 < P)
      BY <1>1, <1>9, <3>2, NoHalosKept, UpperIndex DEF TurnControl, Send, Successor
    <3>. QED  BY <3>1, <3>2
  <2>3. ASSUME r \in Uppers PROVE Balanced(w, Tally(r + 1), NextTraffic(r))
    <3>1. Traffic(r).forward = wire["TAG_ORDERED"][r][r + 1] /\ r + 1 < P /\ r + 1 \in Ranks
      BY <2>3, UpperIndex DEF Traffic
    <3>2. NextTraffic(r) = [Traffic(r) EXCEPT !.forward = Append(Traffic(r).forward, x)]
      BY <2>1, <2>3, <3>1, ThisTraffic
    <3>3. /\ NextTraffic(r).forward = Append(Traffic(r).forward, x)
          /\ NextTraffic(r).backward = Traffic(r).backward
      BY <3>2 DEF Traffic
    <3>4. IsSequence(Traffic(r).forward)
      BY <3>1 DEF TurnControl, Wires, Tags
    <3>5. /\ Len(Traffic(r).forward) \in Nat
          /\ Len(Append(Traffic(r).forward, x)) = Len(Traffic(r).forward) + 1
      BY <3>4, AppendedList
    <3>6. /\ Len(Traffic(r).forward) = v.down - Tally(r + 1).fromAbove
          /\ Len(Traffic(r).backward) = Tally(r + 1).up - v.fromBelow
      BY <1>7, <2>3 DEF Balanced
    <3>7. Tally(r + 1).fromAbove \in Int
      <4>1. pass[r + 1] \in Nat
        BY <3>1, HereLegal DEF ControlTypes
      <4>. QED  BY <4>1, TallyTypes
    <3>8. Len(NextTraffic(r).forward) = w.down - Tally(r + 1).fromAbove
      BY <1>6, <1>8, <1>9, <3>3, <3>5, <3>6, <3>7
    <3>. QED  BY <1>6, <3>3, <3>6, <3>8 DEF Balanced
  <2>4. ASSUME r - 1 \in Uppers PROVE Balanced(Tally(r - 1), w, NextTraffic(r - 1))
    <3>1. NextTraffic(r - 1) = Traffic(r - 1)
      BY <2>1, <2>4, UpperIndex
    <3>. QED  BY <1>6, <1>7, <1>9, <2>4, <3>1 DEF Balanced
  <2>. QED  BY <1>2, <1>3, <1>4, <2>1, <2>2, <2>3, <2>4, BusyTurn
<1>10. CASE ~ Forward(r)
  <2>1. /\ Wires'
        /\ r > 0 => OnlyWire("TAG_ORDERED", r, r - 1, Append(wire["TAG_ORDERED"][r][r - 1], x))
        /\ \A q \in Uppers : q + 1 # r => NextTraffic(q) = Traffic(q)
    BY <1>1, <1>10, SentUp DEF TurnControl, Successor
  <2>2. NoHalos'
    <3>1. CASE r > 0
      BY <2>1, <3>1, NoHalosSent, UpperIndex DEF TurnControl
    <3>2. CASE ~ (r > 0)
      BY <1>1, <1>10, <3>2, NoHalosKept, UpperIndex DEF TurnControl, Send, Successor
    <3>. QED  BY <3>1, <3>2
  <2>3. ASSUME r \in Uppers PROVE Balanced(w, Tally(r + 1), NextTraffic(r))
    <3>1. NextTraffic(r) = Traffic(r)
      BY <2>1, <2>3, UpperIndex
    <3>. QED  BY <1>6, <1>7, <1>10, <2>3, <3>1 DEF Balanced
  <2>4. ASSUME r - 1 \in Uppers PROVE Balanced(Tally(r - 1), w, NextTraffic(r - 1))
    <3>0. PICK q \in Uppers : q = r - 1 /\ q + 1 = r /\ q \in Ranks /\ r > 0
      BY <2>4, UpperIndex
    <3>1. Traffic(q).backward = wire["TAG_ORDERED"][r][q]
      BY <3>0 DEF Traffic
    <3>2. NextTraffic(q) = [Traffic(q) EXCEPT !.backward = Append(Traffic(q).backward, x)]
      <4>1. OnlyWire("TAG_ORDERED", q + 1, q, Append(Traffic(q).backward, x))
        BY <2>1, <3>0, <3>1
      <4>. QED  BY <4>1, ThisTraffic
    <3>3. /\ NextTraffic(q).backward = Append(Traffic(q).backward, x)
          /\ NextTraffic(q).forward = Traffic(q).forward
      BY <3>2 DEF Traffic
    <3>4. IsSequence(Traffic(q).backward)
      BY <3>0, <3>1 DEF TurnControl, Wires, Tags
    <3>5. /\ Len(Traffic(q).backward) \in Nat
          /\ Len(Append(Traffic(q).backward, x)) = Len(Traffic(q).backward) + 1
      BY <3>4, AppendedList
    <3>6. /\ Len(Traffic(q).forward) = Tally(q).down - v.fromAbove
          /\ Len(Traffic(q).backward) = v.up - Tally(q).fromBelow
      BY <1>7, <2>4, <3>0 DEF Balanced
    <3>7. Tally(q).fromBelow \in Int
      <4>1. pass[q] \in Nat
        BY <3>0, HereLegal DEF ControlTypes
      <4>. QED  BY <4>1, TallyTypes
    <3>8. Len(NextTraffic(q).backward) = w.up - Tally(q).fromBelow
      BY <1>6, <1>8, <1>10, <3>3, <3>5, <3>6, <3>7
    <3>9. Balanced(Tally(q), w, NextTraffic(q))
      BY <1>6, <3>3, <3>6, <3>8 DEF Balanced
    <3>. QED  BY <3>0, <3>9
  <2>. QED  BY <1>2, <1>3, <1>4, <2>1, <2>2, <2>3, <2>4, BusyTurn
<1>. QED  BY <1>9, <1>10

\* At the last barrier of a repetition what was handed on has been taken.
LEMMA BalancedAtTheEnd ==
  ASSUME NEW v, NEW s \in {"barrier_out", "barrier_in", "reset", "finished"}, NEW p, NEW k \in Nat,
         s = "barrier_in" => k = 0, v = TallyAt(s, p, k)
  PROVE  /\ v.down = v.fromAbove /\ v.up = v.fromBelow
         /\ s # "barrier_out" => v = TallyAt("reset", "start", 0)
         /\ v.down \in Int /\ v.up \in Int
<1>1. \A kinds : /\ HandedAt(s, p, k, kinds) = TurnsMade(kinds, PassesMade(s, k))
                 /\ TakenAt(s, p, k, kinds) = TurnsMade(kinds, PassesMade(s, k))
                 /\ TurnsMade(kinds, PassesMade(s, k)) \in Nat
                 /\ HandedAt("reset", "start", 0, kinds) = TurnsMade(kinds, 0)
                 /\ TakenAt("reset", "start", 0, kinds) = TurnsMade(kinds, 0)
  <2>1. PassesMade(s, k) \in Nat /\ PassesMade("reset", 0) = 0
    BY DEF PassesMade
  <2>2. \A kinds : TurnsMade(kinds, PassesMade(s, k)) \in Nat /\ TurnsMade(kinds, 0) \in Nat
    BY <2>1, TurnsCount
  <2>. QED  BY <2>1, <2>2 DEF HandedAt, TakenAt
<1>2. s # "barrier_out" => PassesMade(s, k) = 0
  BY DEF PassesMade
<1>. QED  BY <1>1, <1>2 DEF TallyAt

LEMMA EmptyList ==
  ASSUME NEW s, IsSequence(s), Len(s) = 0
  PROVE  s = <<>>
BY DEF IsSequence

LEMMA LeaveBarrierBalanced ==
  ASSUME Control, TurnControl, NEW r \in Ranks, LeaveBarrier(r)
  PROVE  TurnControl'
<1>1. /\ phase[r] = "wait" /\ wire' = wire /\ run' = run /\ outcome' = outcome
      /\ calls' = calls /\ pass' = pass /\ AllEntered(r)
      /\ stage[r] \in {"barrier_in", "barrier_out"}
  BY DEF LeaveBarrier
<1>2. ControlTypes /\ PlaceRight(r) /\ Waiting(r) /\ pass[r] \in Nat
  BY <1>1, HereLegal DEF TurnControl, Waiting, WaitingPhases, ControlTypes
<1>3. CASE stage[r] = "barrier_in"
  <2>1. Goto(r, "rhs_norm", "evaluate") /\ rep' = rep
    BY <1>3 DEF LeaveBarrier, Begin, FirstPhase
  <2>2. OthersStay(r) /\ stage'[r] = "rhs_norm" /\ phase'[r] = "evaluate"
    BY <1>1, <1>2, <2>1, GoneTo, OthersOut
  <2>3. NextTally(r) = Tally(r)
    <3>1. \A kinds : /\ HandedAt("rhs_norm", "evaluate", pass[r], kinds)
                          = HandedAt("barrier_in", "wait", pass[r], kinds)
                     /\ TakenAt("rhs_norm", "evaluate", pass[r], kinds)
                          = TakenAt("barrier_in", "wait", pass[r], kinds)
      BY DEF HandedAt, TakenAt, PassesMade
    <3>. QED  BY <1>1, <1>3, <2>2, <3>1 DEF NextTally, Tally, TallyAt
  <2>4. ASSUME NEW q \in Uppers, q = r \/ q + 1 = r PROVE rep[q] = rep[q + 1]
    <3>1. /\ q \in Ranks /\ q + 1 \in Ranks /\ P # 1 /\ PairBalanced(q)
          /\ rep[q] \in Nat /\ rep[q + 1] \in Nat
      BY <1>2, UpperRanks DEF TurnControl, ControlTypes
    <3>2. rep[q] >= rep[r] /\ rep[q + 1] >= rep[r]
      BY <1>1, <1>2, <3>1, BarrierMeets
    <3>0. rep[q] = rep[q + 1] \/ Through(q, q + 1) \/ Through(q + 1, q)
      BY <3>1 DEF PairBalanced
    <3>3. CASE q = r
      BY <1>3, <3>0, <3>1, <3>2, <3>3 DEF Through, At
    <3>4. CASE q + 1 = r
      BY <1>3, <3>0, <3>1, <3>2, <3>4 DEF Through, At
    <3>. QED  BY <2>4, <3>3, <3>4
  <2>5. PlaceAt("rhs_norm", "evaluate", pass'[r])
    BY DEF PlaceAt
  <2>. QED  BY <1>1, <1>3, <2>1, <2>2, <2>3, <2>4, <2>5, QuietTurn DEF At
<1>4. CASE stage[r] = "barrier_out"
  <2>1. \E s \in {"reset", "finished"} : Goto(r, s, "start") /\ rep' = [rep EXCEPT ![r] = rep[r] + 1]
    BY <1>4 DEF LeaveBarrier
  <2>2. PICK s \in {"reset", "finished"} : Goto(r, s, "start") /\ rep' = [rep EXCEPT ![r] = rep[r] + 1]
    BY <2>1
  <2>3. /\ OthersStay(r) /\ stage'[r] = s /\ phase'[r] = "start" /\ rep'[r] = rep[r] + 1
        /\ \A q \in Ranks : q # r => rep'[q] = rep[q]
    BY <1>1, <1>2, <2>2, GoneTo, OthersOut DEF ControlTypes
  <2>4. NextTally(r) = TallyAt("reset", "start", 0)
    BY <1>1, <1>2, <2>3, BalancedAtTheEnd DEF NextTally
  <2>5. ASSUME NEW q \in Uppers, NEW o \in Ranks,
             (q = r /\ o = q + 1) \/ (q + 1 = r /\ o = q)
        PROVE  PairBalanced(q)'
    <3>1. /\ q \in Ranks /\ q + 1 \in Ranks /\ P # 1 /\ PairBalanced(q)
          /\ rep[o] \in Nat /\ rep[r] \in Nat /\ o # r /\ pass[o] \in Nat /\ PlaceRight(o)
      BY <1>2, <2>5, UpperRanks DEF TurnControl, ControlTypes
    <3>2. /\ Traffic(q)' = Traffic(q) /\ NextTraffic(q) = Traffic(q)
          /\ IsSequence(Traffic(q).forward) /\ IsSequence(Traffic(q).backward)
      BY <1>1, <3>1 DEF Traffic, NextTraffic, TurnControl, Wires, Tags
    <3>3. /\ stage'[o] = stage[o] /\ phase'[o] = phase[o] /\ rep'[o] = rep[o]
          /\ NextTally(o) = Tally(o)
      BY <2>3, <3>1 DEF OthersStay, NextTally, Tally
    <3>4. CASE rep[o] = rep[r]
      <4>1. At(o, "barrier_out", "wait") /\ At(r, "barrier_out", "wait") /\ pass[o] = pass[r]
        BY <1>1, <1>2, <1>4, <3>1, <3>4, BarrierMeets DEF At
      <4>2. Tally(o) = Tally(r)
        BY <4>1 DEF Tally, At
      <4>3. PICK v : v = Tally(r)
        OBVIOUS
      <4>4. v.down = v.fromAbove /\ v.up = v.fromBelow /\ v.down \in Int /\ v.up \in Int
        BY <1>2, <4>1, <4>3, BalancedAtTheEnd DEF Tally, At
      <4>5. Balanced(v, v, Traffic(q))
        BY <2>5, <3>1, <3>4, <4>2, <4>3 DEF PairBalanced
      <4>6. Len(Traffic(q).forward) = 0 /\ Len(Traffic(q).backward) = 0
        BY <4>4, <4>5 DEF Balanced
      <4>7. Idle(Traffic(q))
        BY <3>2, <4>6, EmptyList DEF Idle
      <4>8. Idle(Traffic(q))'
        BY <3>2, <4>7 DEF Idle
      <4>9. Through(r, o)'
        BY <2>3, <3>3, <3>4, <4>1 DEF Through, At
      <4>10. rep'[q] # rep'[q + 1] /\ (Through(q, q + 1) \/ Through(q + 1, q))'
        BY <2>3, <2>5, <3>1, <3>3, <3>4, <4>9
      <4>. QED  BY <4>8, <4>10 DEF PairBalanced
    <3>5. CASE rep[o] # rep[r]
      <4>1. Through(o, r) /\ Idle(Traffic(q))
        BY <1>4, <2>5, <3>1, <3>5 DEF PairBalanced, Through, At
      <4>2. stage[o] \in {"reset", "barrier_in", "finished"} /\ (stage[o] = "barrier_in" => pass[o] = 0)
        BY <3>1, <4>1 DEF Through, PlaceRight, PlaceAt
      <4>3. Tally(o) = TallyAt("reset", "start", 0)
        BY <3>1, <4>2, BalancedAtTheEnd DEF Tally
      <4>4. PICK v : v = TallyAt("reset", "start", 0)
        OBVIOUS
      <4>5. NextTally(q) = v /\ NextTally(q + 1) = v
        BY <2>4, <2>5, <3>3, <4>3, <4>4
      <4>6. v.down = v.fromAbove /\ v.up = v.fromBelow /\ v.down \in Int /\ v.up \in Int
        BY <4>4, BalancedAtTheEnd
      <4>7. Len(Traffic(q).forward) = 0 /\ Len(Traffic(q).backward) = 0
        BY <4>1 DEF Idle
      <4>8. Balanced(v, v, Traffic(q))
        BY <4>6, <4>7 DEF Balanced
      <4>9. rep'[q] = rep'[q + 1]
        BY <2>3, <2>5, <3>3, <4>1 DEF Through
      <4>. QED  BY <1>1, <3>2, <4>5, <4>8, <4>9, NextBalanced
    <3>. QED  BY <3>4, <3>5
  <2>6. ASSUME NEW q \in Uppers PROVE PairBalanced(q)'
    <3>1. q \in Ranks /\ q + 1 \in Ranks
      BY UpperRanks
    <3>2. PairBalanced(q) /\ NextTraffic(q) = Traffic(q)
      BY <1>1 DEF TurnControl, NextTraffic, Traffic
    <3>3. CASE q = r
      BY <2>5, <3>1, <3>3
    <3>4. CASE q + 1 = r
      BY <2>5, <3>1, <3>4
    <3>5. CASE q # r /\ q + 1 # r
      BY <2>3, <3>2, <3>5, BalancedElsewhere
    <3>. QED  BY <3>3, <3>4, <3>5
  <2>7. \A q \in Ranks : PlaceRight(q)'
    <3>1. PlaceAt(stage'[r], phase'[r], pass'[r])
      BY <2>3 DEF PlaceAt
    <3>. QED  BY <2>3, <3>1, PlacesKept DEF TurnControl
  <2>8. Wires' /\ NoHalos'
    BY <1>1, NoHalosKept DEF TurnControl, Wires
  <2>. QED  BY <2>6, <2>7, <2>8 DEF TurnControl
<1>. QED  BY <1>1, <1>3, <1>4

LEMMA TurnControlStarts == Init => TurnControl
<1>. SUFFICES ASSUME Init PROVE TurnControl
  OBVIOUS
<1>1. \A tag \in Tags, p, q \in Ranks : wire[tag][p][q] = <<>>
  BY DEF Init, MpiInit
<1>2. IsSequence(<<>>)
  <2>1. <<>> \in Seq({})
    OBVIOUS
  <2>. QED  BY <2>1 DEF IsSequence
<1>3. Wires /\ NoHalos
  BY <1>1, <1>2 DEF Wires, NoHalos, Tags, Init, MpiInit
<1>4. ASSUME NEW r \in Ranks
      PROVE  PlaceRight(r) /\ rep[r] = 0 /\ Tally(r) = TallyAt("reset", "start", 0)
  BY DEF Init, PlaceRight, PlaceAt, Tally
<1>5. ASSUME NEW r \in Uppers PROVE PairBalanced(r)
  <2>1. r \in Ranks /\ r + 1 \in Ranks
    BY UpperRanks
  <2>2. Traffic(r).forward = <<>> /\ Traffic(r).backward = <<>>
    BY <1>1, <2>1 DEF Traffic, Tags
  <2>3. PICK v : v = Tally(r) /\ v = Tally(r + 1) /\ v = TallyAt("reset", "start", 0)
    BY <1>4, <2>1
  <2>4. v.down = v.fromAbove /\ v.up = v.fromBelow /\ v.down \in Int /\ v.up \in Int
    BY <2>3, BalancedAtTheEnd
  <2>5. Balanced(v, v, Traffic(r))
    BY <2>2, <2>4 DEF Balanced
  <2>. QED  BY <1>4, <2>1, <2>3, <2>5 DEF PairBalanced
<1>. QED  BY <1>3, <1>4, <1>5 DEF TurnControl

LEMMA TurnControlStays ==
  ASSUME Control, TurnControl, UNCHANGED vars
  PROVE  TurnControl'
<1>1. /\ wire' = wire /\ run' = run /\ stage' = stage /\ phase' = phase /\ pass' = pass
      /\ rep' = rep
  BY DEF vars
<1>2. Wires' /\ NoHalos'
  BY <1>1, NoHalosKept DEF TurnControl, Wires
<1>3. ASSUME NEW r \in Ranks PROVE PlaceRight(r)'
  <2>1. PlaceRight(r) /\ PlaceAt(stage[r], phase[r], pass[r])' = PlaceAt(stage[r], phase[r], pass[r])
    BY <1>1, ScheduleFixed DEF TurnControl, PlaceAt
  <2>. QED  BY <2>1 DEF PlaceRight
<1>4. ASSUME NEW r \in Uppers PROVE PairBalanced(r)'
  <2>1. /\ NextTally(r) = Tally(r) /\ NextTally(r + 1) = Tally(r + 1)
        /\ NextTraffic(r) = Traffic(r) /\ PairBalanced(r)
    BY <1>1 DEF NextTally, Tally, NextTraffic, Traffic, TurnControl
  <2>2. CASE rep[r] = rep[r + 1]
    BY <1>1, <2>1, <2>2, NextBalanced DEF PairBalanced
  <2>3. CASE rep[r] # rep[r + 1]
    <3>1. Idle(Traffic(r)) /\ (Through(r, r + 1) \/ Through(r + 1, r))
      BY <2>1, <2>3 DEF PairBalanced
    <3>2. Idle(Traffic(r))'
      BY <1>1, <3>1 DEF Idle, Traffic
    <3>3. Through(r, r + 1)' \/ Through(r + 1, r)'
      BY <1>1, <3>1 DEF Through, At
    <3>. QED  BY <1>1, <2>3, <3>2, <3>3 DEF PairBalanced
  <2>. QED  BY <2>2, <2>3
<1>. QED  BY <1>2, <1>3, <1>4 DEF TurnControl

LEMMA TurnControlKept == Control /\ (Grid \/ TurnControl) /\ [Next]_vars => (Grid \/ TurnControl')
<1>. SUFFICES ASSUME Control, TurnControl, [Next]_vars, ~ Grid PROVE TurnControl'
  OBVIOUS
<1>1. CASE UNCHANGED vars
  BY <1>1, TurnControlStays
<1>2. ASSUME NEW r \in Ranks, Computes(r) PROVE TurnControl'
  <2>1. ~ TakeLowerHalo(r) /\ ~ TakeUpperHalo(r)
    BY HaloIsOnGrid DEF TakeLowerHalo, TakeUpperHalo, HaloPhases
  <2>. QED  BY <1>2, <2>1, ResetBalanced, EnterBarrierBalanced, LeaveBarrierBalanced,
               ExchangeHaloBalanced, GatherBalanced, StartPassBalanced, TakeTurnBalanced,
               UpdateItemBalanced, HandOnBalanced, BcastBalanced, WorkDoneBalanced,
               EndPassBalanced, EvaluateBalanced, LeaveReduceBalanced, FinishBalanced DEF Computes
<1>3. ASSUME NEW r \in Ranks, LeavesSend(r) PROVE TurnControl'
  <2>1. ~ SendHaloDown(r) /\ ~ HaloDone(r)
    BY HaloIsOnGrid DEF SendHaloDown, HaloDone, HaloPhases
  <2>. QED  BY <1>3, <2>1, BcastBalanced DEF LeavesSend
<1>. QED  BY <1>1, <1>2, <1>3 DEF Next, AllFinished

\* Neighbours who have solved a dense problem have received every message.
LEMMA NothingLeftFlat ==
  ASSUME Control, TurnControl, \A r \in Ranks : Solved(r)
  PROVE  \A tag \in Tags, q, r \in Ranks : wire[tag][q][r] = <<>>
<1>1. ASSUME NEW r \in Uppers
      PROVE  wire["TAG_ORDERED"][r][r + 1] = <<>> /\ wire["TAG_ORDERED"][r + 1][r] = <<>>
  <2>1. r \in Ranks /\ r + 1 \in Ranks
    BY UpperRanks
  <2>2. Idle(Traffic(r))
    <3>1. CASE rep[r] = rep[r + 1]
      <4>1. /\ pass[r] = pass[r + 1] /\ stage[r] = stage[r + 1]
            /\ stage[r] \in {"barrier_out", "finished"} /\ pass[r] \in Nat
        <5>1. pass[r] = pass[r + 1]
          BY <2>1, <3>1, ControlAgrees DEF RanksAgree
        <5>2. /\ LegalAt(stage[r], phase[r], pass[r], rep[r]) /\ ControlTypes
              /\ LegalAt(stage[r + 1], phase[r + 1], pass[r + 1], rep[r + 1])
          BY <2>1, HereLegal
        <5>. QED  BY <2>1, <3>1, <5>1, <5>2 DEF Solved, LegalAt, ControlTypes
      <4>2. PICK v, w : v = Tally(r) /\ w = Tally(r + 1)
        OBVIOUS
      <4>3. /\ v.down = v.fromAbove /\ v.up = v.fromBelow /\ v.down \in Int /\ v.up \in Int
            /\ w.down = w.fromAbove /\ w.up = w.fromBelow
        BY <4>1, <4>2, BalancedAtTheEnd DEF Tally
      <4>4. v.down = w.down /\ v.up = w.up
        <5>1. \A kinds, p, k : HandedAt("barrier_out", p, k, kinds) = HandedAt("barrier_out", "start", k, kinds)
                            /\ HandedAt("finished", p, k, kinds) = HandedAt("finished", "start", k, kinds)
          BY DEF HandedAt
        <5>. QED  BY <4>1, <4>2, <5>1 DEF Tally, TallyAt
      <4>5. Balanced(v, w, Traffic(r))
        BY <3>1, <4>2 DEF TurnControl, PairBalanced
      <4>6. Len(Traffic(r).forward) = 0 /\ Len(Traffic(r).backward) = 0
        <5>1. Len(Traffic(r).forward) = v.down - w.fromAbove /\ w.fromAbove = v.down
          BY <4>3, <4>4, <4>5 DEF Balanced
        <5>2. Len(Traffic(r).backward) = w.up - v.fromBelow /\ w.up = v.up /\ v.fromBelow = v.up
          BY <4>3, <4>4, <4>5 DEF Balanced
        <5>. QED  BY <4>3, <5>1, <5>2
      <4>7. IsSequence(Traffic(r).forward) /\ IsSequence(Traffic(r).backward)
        BY <2>1 DEF Traffic, TurnControl, Wires, Tags
      <4>. QED  BY <4>6, <4>7, EmptyList DEF Idle
    <3>2. CASE rep[r] # rep[r + 1]
      BY <3>2 DEF TurnControl, PairBalanced
    <3>. QED  BY <3>1, <3>2
  <2>. QED  BY <2>2 DEF Idle, Traffic
<1>. SUFFICES ASSUME NEW tag \in Tags, NEW q \in Ranks, NEW r \in Ranks
     PROVE  wire[tag][q][r] = <<>>
  OBVIOUS
<1>2. CASE Unused(tag, q, r)
  BY <1>2 DEF TurnControl, Wires
<1>3. CASE tag \in {"TAG_HALO_UP", "TAG_HALO_DOWN"}
  BY <1>3 DEF TurnControl, NoHalos
<1>4. CASE ~ Unused(tag, q, r) /\ tag = "TAG_ORDERED"
  <2>1. q = r + 1 \/ r = q + 1
    BY <1>4 DEF Unused
  <2>2. q = r + 1 => r \in Uppers
    BY RanksAssumption DEF Ranks, Uppers
  <2>3. r = q + 1 => q \in Uppers
    BY RanksAssumption DEF Ranks, Uppers
  <2>. QED  BY <1>1, <1>4, <2>1, <2>2, <2>3
<1>. QED  BY <1>2, <1>3, <1>4 DEF Tags

\* Whatever the layout, the method and the options, no message of a solve is
\* left when every rank has come to the end of a repetition: none of a halo
\* exchange or a turn can be received by the next one (exchange_halo,
\* run_ordered: mpi_backend.cpp).
THEOREM NoMessageLeftHolds == Spec => []NoMessageLeft
<1>. DEFINE Inv == Control /\ (Grid => HaloControl) /\ (Grid \/ TurnControl)
<1>1. Init => Inv
  BY ControlStarts, HaloControlStarts, TurnControlStarts
<1>2. Inv /\ [Next]_vars => Inv'
  BY ControlKept, HaloControlKept, TurnControlKept
<1>3. Inv => NoMessageLeft
  BY NothingLeft, NothingLeftFlat DEF NoMessageLeft
<1>. QED  BY <1>1, <1>2, <1>3, PTL DEF Spec
-----------------------------------------------------------------------------
(***************************************************************************)
(* What the ranks hold.  First of all its shape: a copy of every stored    *)
(* unit in every slot of every rank.                                       *)
(***************************************************************************)

\* A slot, or a message of one row, as a function of its units or colours.
IsSlot(x) == x = [u \in Stored |-> x[u]]

CellTypes ==
  /\ cell = [r \in Ranks |-> cell[r]]
  /\ \A r \in Ranks : cell[r] = [s \in Slots |-> cell[r][s]]
  /\ \A r \in Ranks, s \in Slots : IsSlot(cell[r][s])
  /\ current \in [Ranks -> {"iterate", "work"}]
  /\ todo \in [Ranks -> SUBSET Units]

\* A number that is less than no other: the natural numbers are well founded.
LEMMA LessIsWellFounded ==
  \E R : IsWellFoundedOn(R, Nat) /\ \A x, y \in Nat : x < y => <<x, y>> \in R
<1>1. ASSUME NEW x \in Nat, NEW y \in Nat, x < y
      PROVE  <<x, y>> \in OpToRel(<, Nat)
  <2>1. <<x, y>>[1] = x /\ <<x, y>>[2] = y /\ <<x, y>> \in Nat \X Nat
    OBVIOUS
  <2>. QED  BY <1>1, <2>1 DEF OpToRel
<1>2. \A x, y \in Nat : x < y => <<x, y>> \in OpToRel(<, Nat)
  BY <1>1, Zenon
<1>. QED  BY <1>2, NatLessThanWellFounded, Zenon

LEMMA LeastNatural ==
  ASSUME NEW S, S \subseteq Nat, S # {}
  PROVE  \E m \in S : \A x \in S : m <= x
<1>1. PICK R : IsWellFoundedOn(R, Nat) /\ \A x, y \in Nat : x < y => <<x, y>> \in R
  BY LessIsWellFounded
<1>2. PICK m \in S : \A x \in S : ~ (<<x, m>> \in R)
  <2>1. IsWellFoundedOn(R, Nat)
    BY <1>1, Zenon
  <2>2. \E m \in S : \A x \in S : ~ (<<x, m>> \in R)
    BY <2>1, WFMin, Zenon
  <2>. QED  BY <2>2, Zenon
<1>3. ASSUME NEW x \in S PROVE m <= x
  <2>1. m \in Nat /\ x \in Nat
    OBVIOUS
  <2>2. ~ (x < m)
    BY <1>1, <1>2, <2>1
  <2>. QED  BY <2>1, <2>2
<1>. QED  BY <1>3

LEMMA SmallestOf ==
  ASSUME NEW S, S \subseteq Nat, S # {}
  PROVE  SetMin(S) \in S /\ \A x \in S : SetMin(S) <= x
BY LeastNatural DEF SetMin

LEMMA LargestOf ==
  ASSUME NEW S, NEW n \in Nat, S \subseteq 0..n, S # {}
  PROVE  SetMax(S) \in S /\ \A x \in S : SetMax(S) >= x
<1>. DEFINE T == {n - x : x \in S}
<1>1. T \subseteq Nat /\ T # {}
  <2>1. ASSUME NEW x \in S PROVE n - x \in Nat
    <3>1. x \in 0..n
      OBVIOUS
    <3>. QED  BY <3>1
  <2>. QED  BY <2>1
<1>2. PICK m \in T : \A y \in T : m <= y
  BY <1>1, LeastNatural
<1>3. PICK x \in S : m = n - x
  OBVIOUS
<1>4. ASSUME NEW y \in S PROVE x >= y
  <2>1. n - x <= n - y /\ x \in Int /\ y \in Int
    BY <1>2, <1>3
  <2>. QED  BY <2>1
<1>. QED  BY <1>4 DEF SetMax

-----------------------------------------------------------------------------
(* Where a rank's rows lie. *)

LEMMA BlockWithin ==
  ASSUME NEW n \in Nat, NEW p \in Nat, p > 0, NEW k \in 0..(p - 1)
  PROVE  /\ block_partition(n, p, k).begin \in 0..n /\ block_partition(n, p, k).end \in 0..n
         /\ block_partition(n, p, k).begin <= block_partition(n, p, k).end
<1>1. PICK b, e : b = block_partition(n, p, k).begin /\ e = block_partition(n, p, k).end
  OBVIOUS
<1>2. b \in Nat /\ e \in Nat /\ b <= e
  <2>1. PICK c, d : c = BlockBegin(n, p, k) /\ d = BlockSize(n, p, k)
    OBVIOUS
  <2>2. c \in Nat /\ d \in Nat /\ b = c /\ e = c + d
    BY <1>1, <2>1, BlockShape
  <2>. QED  BY <2>2
<1>3. e <= n
  <2>1. block_partition(n, p, p - 1).end = n
    BY BlocksSpan
  <2>2. CASE k = p - 1
    BY <1>1, <1>2, <2>1, <2>2
  <2>3. CASE k # p - 1
    <3>1. k < p - 1 /\ p - 1 \in 0..(p - 1)
      BY <2>3
    <3>2. PICK b2, e2 : b2 = block_partition(n, p, p - 1).begin /\ e2 = block_partition(n, p, p - 1).end
      OBVIOUS
    <3>3. b2 \in Nat /\ b2 <= e2
      BY <3>1, <3>2, BlockShape
    <3>4. e <= b2
      BY <1>1, <3>1, <3>2, BlocksOrdered
    <3>. QED  BY <1>2, <2>1, <3>2, <3>3, <3>4
  <2>. QED  BY <2>2, <2>3
<1>. QED  BY <1>1, <1>2, <1>3

LEMMA RangeWithin ==
  ASSUME NEW r \in Ranks, NEW n \in Nat
  PROVE  /\ local_rows(r, n).begin \in 0..n /\ local_rows(r, n).end \in 0..n
         /\ local_rows(r, n).begin <= local_rows(r, n).end
         /\ UnitsOf(local_rows(r, n)) \subseteq 1..n
<1>1. P \in Nat /\ P > 0 /\ r \in 0..(P - 1)
  BY RanksAssumption DEF Ranks
<1>. QED  BY <1>1, BlockWithin DEF local_rows, UnitsOf

\* The rows of a rank and the two next to them.
LEMMA RowsOf ==
  ASSUME NEW r \in Ranks
  PROVE  /\ UpperHalo(r) \in 0..N /\ LastOwned(r) \in 0..N /\ UpperHalo(r) <= LastOwned(r)
         /\ FirstOwned(r) = UpperHalo(r) + 1 /\ LowerHalo(r) = LastOwned(r) + 1
         /\ UnitsOf(PointRange(r)) = FirstOwned(r)..LastOwned(r)
         /\ UnitsOf(PointRange(r)) \subseteq Units
<1>1. N \in Nat
  BY SweepAssumption
<1>. QED  BY <1>1, RangeWithin
          DEF PointRange, UpperHalo, LastOwned, FirstOwned, LowerHalo, Rows, UnitsOf, Units

\* What a rank sends is what its neighbour keeps as its halo.
LEMMA RowsMeet ==
  ASSUME NEW r \in Uppers
  PROVE  LowerHalo(r) = FirstOwned(r + 1) /\ LastOwned(r) = UpperHalo(r + 1)
<1>1. P \in Nat /\ P > 0 /\ r \in 0..(P - 2) /\ N \in Nat
  BY RanksAssumption, SweepAssumption DEF Uppers
<1>2. PointRange(r).end = PointRange(r + 1).begin
  BY <1>1, BlocksContiguous DEF PointRange, local_rows
<1>. QED  BY <1>2 DEF LowerHalo, FirstOwned, LastOwned, UpperHalo, Rows

LEMMA RowsAreStored ==
  ASSUME Grid, NEW r \in Ranks
  PROVE  {UpperHalo(r), FirstOwned(r), LastOwned(r), LowerHalo(r)} \subseteq Stored
<1>1. N \in Nat \ {0}
  BY SweepAssumption
<1>2. FirstOwned(r) \in 0..(N + 1) /\ LowerHalo(r) \in 0..(N + 1)
  BY <1>1, RowsOf
<1>. QED  BY <1>1, <1>2, RowsOf DEF Stored

-----------------------------------------------------------------------------
(* A step writes one slot of one rank. *)

OnlySlot(r, s, row) ==
  /\ cell'[r][s] = row
  /\ \A q \in Ranks, t \in Slots : q # r \/ t # s => cell'[q][t] = cell[q][t]

CellShape ==
  /\ cell = [r \in Ranks |-> cell[r]]
  /\ \A r \in Ranks : cell[r] = [s \in Slots |-> cell[r][s]]
  /\ \A r \in Ranks, s \in Slots : IsSlot(cell[r][s])

LEMMA OneSlot ==
  ASSUME CellTypes, NEW r \in Ranks, NEW s \in Slots, NEW row, IsSlot(row),
         cell' = [cell EXCEPT ![r][s] = row]
  PROVE  CellShape' /\ OnlySlot(r, s, row)
<1>1. /\ cell = [q \in Ranks |-> cell[q]]
      /\ \A q \in Ranks : cell[q] = [t \in Slots |-> cell[q][t]]
      /\ \A q \in Ranks, t \in Slots : IsSlot(cell[q][t])
  BY DEF CellTypes
<1>2. cell' = [cell EXCEPT ![r] = [cell[r] EXCEPT ![s] = row]]
  OBVIOUS
<1>3. /\ cell' = [q \in Ranks |-> cell'[q]]
      /\ cell'[r] = [cell[r] EXCEPT ![s] = row]
      /\ \A q \in Ranks : q # r => cell'[q] = cell[q]
  BY <1>1, <1>2
<1>4. /\ cell'[r] = [t \in Slots |-> cell'[r][t]] /\ cell'[r][s] = row
      /\ \A t \in Slots : t # s => cell'[r][t] = cell[r][t]
  <2>1. cell[r] = [t \in Slots |-> cell[r][t]]
    BY <1>1
  <2>. QED  BY <1>3, <2>1
<1>5. OnlySlot(r, s, row)
  BY <1>3, <1>4 DEF OnlySlot
<1>6. ASSUME NEW q \in Ranks, NEW t \in Slots PROVE IsSlot(cell'[q][t])
  <2>1. CASE q = r /\ t = s
    BY <1>4, <2>1
  <2>2. CASE q # r \/ t # s
    BY <1>1, <1>5, <2>2 DEF OnlySlot
  <2>. QED  BY <2>1, <2>2
<1>7. ASSUME NEW q \in Ranks PROVE cell'[q] = [t \in Slots |-> cell'[q][t]]
  <2>1. CASE q = r
    BY <1>4, <2>1
  <2>2. CASE q # r
    BY <1>1, <1>3, <2>2
  <2>. QED  BY <2>1, <2>2
<1>8. \A q \in Ranks, t \in Slots : IsSlot(cell[q][t])'
  BY <1>6 DEF IsSlot
<1>. QED  BY <1>3, <1>5, <1>7, <1>8 DEF CellShape

\* The current slot of a rank, with some units of it stored anew.
Restored(r, values) ==
  [u \in Stored |-> IF u \in DOMAIN values THEN values[u] ELSE Mine(r)[u]]

LEMMA StoresUnits ==
  ASSUME CellTypes, NEW r \in Ranks, NEW values, StoreUnits(r, values)
  PROVE  CellShape' /\ OnlySlot(r, current[r], Restored(r, values)) /\ current[r] \in Slots
<1>1. current[r] \in Slots
  BY DEF CellTypes, Slots
<1>2. IsSlot(Restored(r, values))
  BY DEF IsSlot, Restored
<1>3. cell' = [cell EXCEPT ![r][current[r]] = Restored(r, values)]
  BY DEF StoreUnits, Restored, Mine
<1>. QED  BY <1>1, <1>2, <1>3, OneSlot

LEMMA WorkSlots ==
  ASSUME CellTypes, NEW r \in Ranks
  PROVE  Target(r) \in {"iterate", "work"} /\ Target(r) \in Slots /\ IsSlot(Mine(r))
BY DEF CellTypes, Slots, Target, Mine

\* The other variables of the shape.
LEMMA ShapeKept ==
  ASSUME CellTypes, CellShape', current' = current, todo' = todo
  PROVE  CellTypes'
BY DEF CellTypes, CellShape

LEMMA ShapeStays ==
  ASSUME CellTypes, cell' = cell, current' = current, todo' = todo
  PROVE  CellTypes'
BY DEF CellTypes, IsSlot

LEMMA NextItemsAreItems ==
  ASSUME CellTypes, NEW r \in Ranks, todo[r] # {}
  PROVE  NextItems(r) \subseteq todo[r]
<1>1. N \in Nat /\ todo[r] \subseteq 0..N /\ todo[r] \subseteq Nat
  BY SweepAssumption DEF CellTypes, Units
<1>2. SetMin(todo[r]) \in todo[r] /\ SetMax(todo[r]) \in todo[r]
  BY <1>1, SmallestOf, LargestOf
<1>. QED  BY <1>2 DEF NextItems

LEMMA ItemsAreUnits ==
  ASSUME NEW r \in Ranks, NEW kind
  PROVE  ItemsOf(r, kind) \subseteq Units
<1>1. N \in Nat /\ BlockCount \in 1..N
  BY SweepAssumption
<1>2. /\ UnitsOf(local_rows(r, N)) \subseteq 1..N
      /\ UnitsOf(local_rows(r, BlockCount)) \subseteq 1..BlockCount
  BY <1>1, RangeWithin
<1>. QED  BY <1>1, <1>2 DEF ItemsOf, PointRange, Units

LEMMA ResetShape ==
  ASSUME CellTypes, NEW r \in Ranks, Reset(r)
  PROVE  /\ CellTypes' /\ current'[r] = "iterate"
         /\ \A s \in Slots : cell'[r][s] = InitialState
         /\ \A q \in Ranks : q # r => cell'[q] = cell[q] /\ current'[q] = current[q]
<1>1. /\ cell' = [cell EXCEPT ![r] = [slot \in Slots |-> InitialState]]
      /\ current' = [current EXCEPT ![r] = "iterate"] /\ todo' = todo
  BY DEF Reset
<1>2. /\ cell = [q \in Ranks |-> cell[q]] /\ current \in [Ranks -> {"iterate", "work"}]
      /\ \A q \in Ranks : cell[q] = [t \in Slots |-> cell[q][t]]
      /\ \A q \in Ranks, t \in Slots : IsSlot(cell[q][t])
  BY DEF CellTypes
<1>3. /\ cell' = [q \in Ranks |-> cell'[q]]
      /\ cell'[r] = [slot \in Slots |-> InitialState]
      /\ \A q \in Ranks : q # r => cell'[q] = cell[q]
  BY <1>1, <1>2
<1>4. \A s \in Slots : cell'[r][s] = InitialState
  BY <1>3
<1>5. IsSlot(InitialState)
  BY DEF IsSlot, InitialState
<1>6. \A q \in Ranks : cell'[q] = [t \in Slots |-> cell'[q][t]]
  BY <1>2, <1>3
<1>7. \A q \in Ranks, t \in Slots : IsSlot(cell'[q][t])
  BY <1>2, <1>3, <1>4, <1>5
<1>8. \A q \in Ranks, t \in Slots : IsSlot(cell[q][t])'
  BY <1>7 DEF IsSlot
<1>. QED  BY <1>1, <1>2, <1>3, <1>4, <1>6, <1>8 DEF CellTypes

LEMMA EndPassShape ==
  ASSUME CellTypes, NEW r \in Ranks, EndPass(r)
  PROVE  CellTypes' /\ current'[r] = Target(r) /\ \A q \in Ranks : q # r => current'[q] = current[q]
<1>1. cell' = cell /\ todo' = todo /\ current' = [current EXCEPT ![r] = Target(r)]
  BY DEF EndPass
<1>. QED  BY <1>1, WorkSlots DEF CellTypes, IsSlot

LEMMA StartPassShape ==
  ASSUME CellTypes, NEW r \in Ranks, StartPass(r)
  PROVE  /\ CellTypes' /\ todo'[r] = ItemsOf(r, Kind(r))
         /\ \A q \in Ranks : q # r => todo'[q] = todo[q]
         /\ IF Kind(r) = "block_jacobi" THEN OnlySlot(r, "previous", Mine(r)) ELSE cell' = cell
<1>1. todo' = [todo EXCEPT ![r] = ItemsOf(r, Kind(r))] /\ current' = current
  BY DEF StartPass
<1>2. todo' \in [Ranks -> SUBSET Units]
  BY <1>1, ItemsAreUnits DEF CellTypes
<1>3. CASE Kind(r) = "block_jacobi"
  <2>1. cell' = [cell EXCEPT ![r]["previous"] = Mine(r)]
    BY <1>3 DEF StartPass
  <2>2. CellShape' /\ OnlySlot(r, "previous", Mine(r))
    BY <2>1, OneSlot, WorkSlots DEF Slots
  <2>. QED  BY <1>1, <1>2, <1>3, <2>2 DEF CellTypes, CellShape
<1>4. CASE Kind(r) # "block_jacobi"
  <2>1. cell' = cell
    BY <1>4 DEF StartPass
  <2>. QED  BY <1>1, <1>2, <1>4, <2>1 DEF CellTypes, IsSlot
<1>. QED  BY <1>3, <1>4

LEMMA UpdateShape ==
  ASSUME CellTypes, NEW r \in Ranks, UpdateItem(r)
  PROVE  /\ CellTypes'
         /\ \E item \in NextItems(r) :
              /\ item \in todo[r]
              /\ OnlySlot(r, Target(r), Updated(r, UnitsIn(item, Kind(r))))
              /\ todo'[r] = todo[r] \ {item}
         /\ \A q \in Ranks : q # r => todo'[q] = todo[q]
<1>1. todo[r] # {} /\ current' = current
  BY DEF UpdateItem
<1>2. PICK item \in NextItems(r) :
        /\ cell' = [cell EXCEPT ![r][Target(r)] = Updated(r, UnitsIn(item, Kind(r)))]
        /\ todo' = [todo EXCEPT ![r] = todo[r] \ {item}]
  BY DEF UpdateItem
<1>3. IsSlot(Updated(r, UnitsIn(item, Kind(r))))
  BY DEF IsSlot, Updated
<1>4. CellShape' /\ OnlySlot(r, Target(r), Updated(r, UnitsIn(item, Kind(r))))
  BY <1>2, <1>3, OneSlot, WorkSlots
<1>5. /\ todo' \in [Ranks -> SUBSET Units] /\ todo'[r] = todo[r] \ {item}
      /\ \A q \in Ranks : q # r => todo'[q] = todo[q]
  BY <1>2 DEF CellTypes
<1>6. item \in todo[r]
  BY <1>1, NextItemsAreItems
<1>7. CellTypes'
  BY <1>1, <1>4, <1>5 DEF CellTypes, CellShape
<1>. QED  BY <1>4, <1>5, <1>6, <1>7

LEMMA FinishShape ==
  ASSUME CellTypes, NEW r \in Ranks, Finish(r)
  PROVE  CellTypes' /\ OnlySlot(r, "iterate", Mine(r))
<1>1. cell' = [cell EXCEPT ![r]["iterate"] = Mine(r)] /\ current' = current /\ todo' = todo
  BY DEF Finish
<1>2. CellShape' /\ OnlySlot(r, "iterate", Mine(r))
  BY <1>1, OneSlot, WorkSlots DEF Slots
<1>. QED  BY <1>1, <1>2, ShapeKept

\* What stays as it is in the steps that touch no copy.
Untouched == cell' = cell /\ current' = current /\ todo' = todo

LEMMA UntouchedSteps ==
  ASSUME NEW r \in Ranks,
         \/ EnterBarrier(r) \/ LeaveBarrier(r) \/ ExchangeHalo(r) \/ SendHaloDown(r)
         \/ HaloDone(r) \/ Gather(r) \/ GatherRows(r) \/ HandOn(r) \/ HandedOn(r)
         \/ WorkDone(r) \/ Evaluate(r) \/ LeaveReduce(r)
  PROVE  Untouched
BY DEF Untouched, EnterBarrier, LeaveBarrier, ExchangeHalo, SendHaloDown, HaloDone, Gather,
       GatherRows, HandOn, HandedOn, WorkDone, Evaluate, LeaveReduce

\* What a rank stores that it received: nothing, or units of the current slot.
LEMMA TakeHaloShape ==
  ASSUME CellTypes, NEW r \in Ranks, NEW src, NEW tag, NEW into, NEW next,
         TakeHalo(r, src, tag, into, next)
  PROVE  /\ CellTypes' /\ current' = current
         /\ \/ Untouched
            \/ /\ src # PROC_NULL /\ current[r] \in Slots
               /\ OnlySlot(r, current[r], Restored(r, [u \in {into} |-> Message(r, src, tag)]))
<1>1. current' = current /\ todo' = todo
  BY DEF TakeHalo
<1>2. CASE src = PROC_NULL
  <2>1. cell' = cell
    BY <1>2 DEF TakeHalo
  <2>. QED  BY <1>1, <2>1, ShapeStays DEF Untouched
<1>3. CASE src # PROC_NULL
  <2>1. StoreUnits(r, [u \in {into} |-> Message(r, src, tag)])
    BY <1>3 DEF TakeHalo
  <2>. QED  BY <1>1, <1>3, <2>1, StoresUnits, ShapeKept
<1>. QED  BY <1>2, <1>3

LEMMA TakeTurnShape ==
  ASSUME CellTypes, NEW r \in Ranks, TakeTurn(r)
  PROVE  /\ CellTypes' /\ current' = current
         /\ \/ Predecessor(r) = PROC_NULL /\ Untouched
            \/ /\ Predecessor(r) # PROC_NULL /\ current[r] \in Slots
               /\ OnlySlot(r, current[r],
                    Restored(r, IF Grid THEN [u \in {TurnRowIn(r)} |->
                                                Message(r, Predecessor(r), "TAG_ORDERED")]
                                ELSE Message(r, Predecessor(r), "TAG_ORDERED")))
<1>1. current' = current /\ todo' = todo
  BY DEF TakeTurn
<1>2. CASE Predecessor(r) = PROC_NULL
  <2>1. cell' = cell
    BY <1>2 DEF TakeTurn
  <2>. QED  BY <1>1, <1>2, <2>1, ShapeStays DEF Untouched
<1>3. CASE Predecessor(r) # PROC_NULL
  <2>1. StoreUnits(r, IF Grid THEN [u \in {TurnRowIn(r)} |->
                                      Message(r, Predecessor(r), "TAG_ORDERED")]
                      ELSE Message(r, Predecessor(r), "TAG_ORDERED"))
    BY <1>3 DEF TakeTurn
  <2>. QED  BY <1>1, <1>3, <2>1, StoresUnits, ShapeKept
<1>. QED  BY <1>2, <1>3

LEMMA CollectiveShape ==
  ASSUME CellTypes, NEW r \in Ranks, StoreRows(r) \/ LeaveBcast(r)
  PROVE  CellTypes' /\ current' = current /\ todo' = todo /\ current[r] \in Slots
<1>1. current' = current /\ todo' = todo
  BY DEF StoreRows, LeaveBcast
<1>2. PICK values : StoreUnits(r, values)
  BY DEF StoreRows, LeaveBcast
<1>. QED  BY <1>1, <1>2, StoresUnits, ShapeKept

LEMMA CellTypesStarts == Init => CellTypes
<1>. SUFFICES ASSUME Init PROVE CellTypes
  OBVIOUS
<1>1. /\ cell = [r \in Ranks |-> [slot \in Slots |-> InitialState]]
      /\ current = [r \in Ranks |-> "iterate"] /\ todo = [r \in Ranks |-> {}]
  BY DEF Init
<1>2. IsSlot(InitialState)
  BY DEF IsSlot, InitialState
<1>3. \A r \in Ranks, s \in Slots : cell[r][s] = InitialState
  BY <1>1
<1>4. \A r \in Ranks, s \in Slots : IsSlot(cell[r][s])
  BY <1>2, <1>3
<1>. QED  BY <1>1, <1>4 DEF CellTypes

LEMMA CellTypesKept == CellTypes /\ [Next]_vars => CellTypes'
<1>. SUFFICES ASSUME CellTypes, [Next]_vars PROVE CellTypes'
  OBVIOUS
<1>1. ASSUME Untouched PROVE CellTypes'
  BY <1>1, ShapeStays DEF Untouched
<1>2. CASE UNCHANGED vars
  BY <1>1, <1>2 DEF vars, Untouched
<1>3. ASSUME NEW r \in Ranks, Computes(r) PROVE CellTypes'
  <2>1. ASSUME TakeLowerHalo(r) \/ TakeUpperHalo(r) PROVE CellTypes'
    BY <2>1, TakeHaloShape DEF TakeLowerHalo, TakeUpperHalo
  <2>. QED  BY <1>1, <1>3, <2>1, UntouchedSteps, ResetShape, CollectiveShape, StartPassShape,
               TakeTurnShape, UpdateShape, EndPassShape, FinishShape DEF Computes
<1>4. ASSUME NEW r \in Ranks, LeavesSend(r) PROVE CellTypes'
  BY <1>1, <1>4, UntouchedSteps DEF LeavesSend
<1>. QED  BY <1>2, <1>3, <1>4 DEF Next, AllFinished

-----------------------------------------------------------------------------
(***************************************************************************)
(* On a grid: the boundary.  A row that lands outside the units, on any    *)
(* rank, was the boundary where it came from; and what is gathered lands   *)
(* on units only.                                                          *)
(***************************************************************************)

RingRow(x) == \A c \in Colours : x[c] = Ring
RingSlot(x) == \A u \in Stored \ Units : RingRow(x[u])
RingRows(s) == \A i \in 1..Len(s) : RingRow(s[i])

\* Where the rows rank p sends to rank q are kept.
LandsAt(p, q) == IF p = q + 1 THEN LowerHalo(q) ELSE UpperHalo(q)

RingMessages ==
  \A tag \in Tags, p, q \in Ranks : LandsAt(p, q) \notin Units => RingRows(wire[tag][p][q])

\* The ranges of the n-th collective of a rank, if they are what it collects.
RangesOf(list, n) ==
  n \in 1..Len(list) /\ list[n].call = "Allgather_ints"
    => UnitsOf(list[n].data) \subseteq Units
RangesRight == \A r \in Ranks : \A n \in Nat : RangesOf(calls[r], n)

\* A rank that waits for segments has collected the ranges before.
CollectsAt(p, list) ==
  /\ p \in {"ranges", "reranges"} => Len(list) > 0 /\ list[Len(list)].call = "Allgather_ints"
  /\ p \in {"rows", "rerows"} => Len(list) > 1 /\ list[Len(list) - 1].call = "Allgather_ints"
GathersInOrder == \A r \in Ranks : CollectsAt(phase[r], calls[r])

RingKept == \A r \in Ranks, s \in Slots : RingSlot(cell[r][s])

RingControl == RingKept /\ RingMessages

LEMMA RowsLand ==
  ASSUME NEW r \in Ranks
  PROVE  /\ r > 0 => FirstOwned(r) = LandsAt(r, r - 1) /\ UpperHalo(r) = LandsAt(r - 1, r)
         /\ r + 1 < P => LastOwned(r) = LandsAt(r, r + 1) /\ LowerHalo(r) = LandsAt(r + 1, r)
<1>1. r \in Int
  BY RanksAssumption DEF Ranks
<1>2. ASSUME r > 0
      PROVE  FirstOwned(r) = LandsAt(r, r - 1) /\ UpperHalo(r) = LandsAt(r - 1, r)
  <2>1. PICK q : q = r - 1
    OBVIOUS
  <2>2. q \in Uppers /\ r = q + 1 /\ q # r + 1
    BY <1>1, <1>2, <2>1, UpperIndex
  <2>3. LowerHalo(q) = FirstOwned(r)
    BY <2>2, RowsMeet
  <2>4. LandsAt(r, q) = LowerHalo(q) /\ LandsAt(q, r) = UpperHalo(r)
    BY <2>2 DEF LandsAt
  <2>. QED  BY <2>1, <2>3, <2>4
<1>3. ASSUME r + 1 < P
      PROVE  LastOwned(r) = LandsAt(r, r + 1) /\ LowerHalo(r) = LandsAt(r + 1, r)
  <2>1. PICK q : q = r + 1
    OBVIOUS
  <2>2. r \in Uppers /\ r # q + 1
    BY <1>1, <1>3, <2>1, UpperIndex
  <2>3. LastOwned(r) = UpperHalo(q)
    BY <2>1, <2>2, RowsMeet
  <2>4. LandsAt(r, q) = UpperHalo(q) /\ LandsAt(q, r) = LowerHalo(r)
    BY <2>1, <2>2 DEF LandsAt
  <2>. QED  BY <2>1, <2>3, <2>4
<1>. QED  BY <1>2, <1>3

LEMMA RingStored ==
  ASSUME NEW r \in Ranks, NEW s \in Slots, NEW row, RingKept, OnlySlot(r, s, row), RingSlot(row)
  PROVE  RingKept'
<1>1. ASSUME NEW q \in Ranks, NEW t \in Slots PROVE RingSlot(cell'[q][t])
  BY DEF RingKept, OnlySlot
<1>2. \A q \in Ranks, t \in Slots : RingSlot(cell[q][t])'
  BY <1>1 DEF RingSlot, RingRow
<1>. QED  BY <1>2 DEF RingKept

LEMMA RingStays ==
  ASSUME RingKept, cell' = cell
  PROVE  RingKept'
BY DEF RingKept, RingSlot, RingRow

LEMMA RingRestored ==
  ASSUME CellTypes, RingKept, NEW r \in Ranks, NEW values,
         \A u \in DOMAIN values : u \in Units \/ RingRow(values[u])
  PROVE  RingSlot(Restored(r, values))
<1>1. RingSlot(Mine(r))
  BY DEF RingKept, Mine, CellTypes, Slots
<1>. QED  BY <1>1 DEF RingSlot, Restored

\* Messages come and go.
LEMMA RingSent ==
  ASSUME Wires, RingMessages, NEW tag \in Tags, NEW p \in Ranks, NEW q \in Ranks, NEW x,
         OnlyWire(tag, p, q, Append(wire[tag][p][q], x)),
         LandsAt(p, q) \in Units \/ RingRow(x)
  PROVE  RingMessages'
<1>1. ASSUME NEW t \in Tags, NEW a \in Ranks, NEW b \in Ranks, LandsAt(a, b) \notin Units
      PROVE  RingRows(wire'[t][a][b])
  <2>1. CASE t = tag /\ a = p /\ b = q
    <3>1. PICK s : s = wire[tag][p][q]
      OBVIOUS
    <3>2. IsSequence(s) /\ RingRows(s) /\ wire'[t][a][b] = Append(s, x) /\ RingRow(x)
      BY <1>1, <2>1, <3>1 DEF Wires, RingMessages, OnlyWire
    <3>3. /\ Len(s) \in Nat /\ Len(Append(s, x)) = Len(s) + 1 /\ Append(s, x)[Len(s) + 1] = x
          /\ \A k \in 1..Len(s) : Append(s, x)[k] = s[k]
      BY <3>2, AppendedList
    <3>4. ASSUME NEW k \in 1..(Len(s) + 1) PROVE RingRow(Append(s, x)[k])
      BY <3>2, <3>3 DEF RingRows
    <3>. QED  BY <3>2, <3>3, <3>4 DEF RingRows
  <2>2. CASE t # tag \/ a # p \/ b # q
    BY <1>1, <2>2 DEF OnlyWire, RingMessages
  <2>. QED  BY <2>1, <2>2
<1>2. \A t \in Tags, a, b \in Ranks : LandsAt(a, b) \notin Units => RingRows(wire[t][a][b])'
  BY <1>1 DEF RingRows, RingRow
<1>. QED  BY <1>2 DEF RingMessages

LEMMA RingTaken ==
  ASSUME Wires, RingMessages, NEW tag \in Tags, NEW p \in Ranks, NEW q \in Ranks,
         OnlyWire(tag, p, q, Tail(wire[tag][p][q])), wire[tag][p][q] # <<>>
  PROVE  RingMessages' /\ (LandsAt(p, q) \in Units \/ RingRow(wire[tag][p][q][1]))
<1>1. PICK s : s = wire[tag][p][q]
  OBVIOUS
<1>2. IsSequence(s) /\ s # <<>>
  BY <1>1 DEF Wires
<1>3. /\ Len(s) \in Nat \ {0} /\ Len(Tail(s)) = Len(s) - 1
      /\ \A k \in 1..Len(Tail(s)) : Tail(s)[k] = s[k + 1]
  BY <1>2, RestOfList
<1>4. LandsAt(p, q) \notin Units => RingRows(s)
  BY <1>1 DEF RingMessages
<1>5. LandsAt(p, q) \in Units \/ RingRow(s[1])
  BY <1>3, <1>4 DEF RingRows
<1>6. ASSUME NEW t \in Tags, NEW a \in Ranks, NEW b \in Ranks, LandsAt(a, b) \notin Units
      PROVE  RingRows(wire'[t][a][b])
  <2>1. CASE t = tag /\ a = p /\ b = q
    <3>1. RingRows(s) /\ wire'[t][a][b] = Tail(s)
      BY <1>1, <1>4, <1>6, <2>1 DEF OnlyWire
    <3>2. ASSUME NEW k \in 1..Len(Tail(s)) PROVE RingRow(Tail(s)[k])
      BY <1>3, <3>1 DEF RingRows
    <3>. QED  BY <3>1, <3>2 DEF RingRows
  <2>2. CASE t # tag \/ a # p \/ b # q
    BY <1>6, <2>2 DEF OnlyWire, RingMessages
  <2>. QED  BY <2>1, <2>2
<1>7. \A t \in Tags, a, b \in Ranks : LandsAt(a, b) \notin Units => RingRows(wire[t][a][b])'
  BY <1>6 DEF RingRows, RingRow
<1>. QED  BY <1>1, <1>5, <1>7 DEF RingMessages

LEMMA RingMessagesStay ==
  ASSUME RingMessages, wire' = wire
  PROVE  RingMessages'
BY DEF RingMessages, RingRows, RingRow

-----------------------------------------------------------------------------
(* The ranges are collected before the segments. *)

LEMMA GatherRangeWithin ==
  ASSUME NEW r \in Ranks
  PROVE  UnitsOf(GatherRange(r)) \subseteq Units
<1>1. N \in Nat \ {0} /\ BlockCount \in 1..N
  BY SweepAssumption
<1>2. UnitsOf(PointRange(r)) \subseteq Units
  BY RowsOf
<1>3. UnitsOf(OwnedRows(r)) \subseteq Units
  <2>1. PICK mine : mine = local_rows(r, BlockCount)
    OBVIOUS
  <2>2. mine.begin \in 0..BlockCount /\ mine.end \in 0..BlockCount
    BY <1>1, <2>1, RangeWithin
  <2>3. CASE mine.begin >= mine.end
    BY <2>1, <2>3 DEF OwnedRows, UnitsOf, EmptyRange, RangeOf
  <2>4. CASE ~ (mine.begin >= mine.end)
    <3>1. mine.begin \in 0..(BlockCount - 1) /\ mine.end - 1 \in 0..(BlockCount - 1)
      BY <1>1, <2>2, <2>4
    <3>2. PICK b, e : b = block_partition(N, BlockCount, mine.begin).begin
                      /\ e = block_partition(N, BlockCount, mine.end - 1).end
      OBVIOUS
    <3>3. b \in 0..N /\ e \in 0..N
      BY <1>1, <3>1, <3>2, BlockWithin
    <3>4. OwnedRows(r) = RangeOf(b, e)
      BY <2>1, <2>4, <3>2 DEF OwnedRows
    <3>. QED  BY <1>1, <3>3, <3>4 DEF UnitsOf, RangeOf, Units
  <2>. QED  BY <2>3, <2>4
<1>. QED  BY <1>2, <1>3 DEF GatherRange

CollectPhases == {"ranges", "reranges", "rows", "rerows"}
GatherControl == RangesRight /\ GathersInOrder

\* Calls other than the collection of the ranges, by ranks that leave no gather.
LEMMA OtherCalls ==
  ASSUME ControlTypes, GatherControl, NEW r \in Ranks,
         \/ calls' = calls
         \/ \E call, data : call # "Allgather_ints" /\ Enter(r, call, data),
         \A q \in Ranks : q # r => phase'[q] = phase[q],
         phase'[r] \notin CollectPhases \/ (phase'[r] = phase[r] /\ calls' = calls)
  PROVE  GatherControl'
<1>1. CASE calls' = calls
  <2>1. RangesRight'
    BY <1>1 DEF GatherControl, RangesRight, RangesOf
  <2>2. ASSUME NEW q \in Ranks PROVE CollectsAt(phase'[q], calls[q])
    BY <1>1 DEF GatherControl, GathersInOrder, CollectsAt, CollectPhases
  <2>3. GathersInOrder'
    BY <1>1, <2>2 DEF GathersInOrder, CollectsAt
  <2>. QED  BY <2>1, <2>3 DEF GatherControl
<1>2. ASSUME NEW call, NEW data, call # "Allgather_ints", Enter(r, call, data), calls' # calls
      PROVE  GatherControl'
  <2>1. PICK list, e : list = calls[r] /\ e = [call |-> call, data |-> data]
    OBVIOUS
  <2>2. IsSequence(list)
    BY <2>1 DEF ControlTypes
  <2>3. calls'[r] = Append(list, e) /\ \A q \in Ranks : q # r => calls'[q] = calls[q]
    BY <1>2, <2>1 DEF Enter, ControlTypes
  <2>4. /\ Len(list) \in Nat /\ Len(Append(list, e)) = Len(list) + 1
        /\ \A k \in 1..Len(list) : Append(list, e)[k] = list[k]
        /\ Append(list, e)[Len(list) + 1] = e
    BY <2>2, AppendedList
  <2>5. \A n \in Nat : RangesOf(list, n)
    BY <2>1 DEF GatherControl, RangesRight
  <2>6. ASSUME NEW n \in Nat PROVE RangesOf(Append(list, e), n)
    <3>1. CASE n = Len(list) + 1
      BY <1>2, <2>1, <2>4, <3>1 DEF RangesOf
    <3>2. CASE n \in 1..Len(list)
      <4>1. RangesOf(list, n) /\ Append(list, e)[n] = list[n]
        BY <2>4, <2>5, <3>2
      <4>. QED  BY <3>2, <4>1 DEF RangesOf
    <3>3. CASE n \notin 1..(Len(list) + 1)
      BY <2>4, <3>3 DEF RangesOf
    <3>. QED  BY <2>4, <3>1, <3>2, <3>3
  <2>7. ASSUME NEW q \in Ranks, NEW n \in Nat PROVE RangesOf(calls'[q], n)
    BY <2>3, <2>6 DEF GatherControl, RangesRight
  <2>8. RangesRight'
    BY <2>7 DEF RangesRight, RangesOf
  <2>9. ASSUME NEW q \in Ranks PROVE CollectsAt(phase'[q], calls'[q])
    <3>1. CASE q = r
      BY <1>2, <3>1 DEF CollectsAt, CollectPhases
    <3>2. CASE q # r
      BY <2>3, <3>2 DEF GatherControl, GathersInOrder
    <3>. QED  BY <3>1, <3>2
  <2>10. GathersInOrder'
    BY <2>9 DEF GathersInOrder, CollectsAt
  <2>. QED  BY <2>8, <2>10 DEF GatherControl
<1>. QED  BY <1>1, <1>2

LEMMA GathersOneCall ==
  ASSUME ControlTypes, GatherControl, NEW r \in Ranks,
         NEW call, NEW data, Enter(r, call, data),
         call = "Allgather_ints" => UnitsOf(data) \subseteq Units,
         NEW p, phase' = [phase EXCEPT ![r] = p],
         \/ p \in {"ranges", "reranges"} /\ call = "Allgather_ints"
         \/ p \in {"rows", "rerows"} /\ phase[r] \in {"ranges", "reranges"}
  PROVE  GatherControl'
<1>1. PICK list, e : list = calls[r] /\ e = [call |-> call, data |-> data]
  OBVIOUS
<1>2. IsSequence(list)
  BY <1>1 DEF ControlTypes
<1>3. calls'[r] = Append(list, e) /\ \A q \in Ranks : q # r => calls'[q] = calls[q]
  BY <1>1 DEF Enter, ControlTypes
<1>4. /\ Len(list) \in Nat /\ Len(Append(list, e)) = Len(list) + 1
      /\ \A k \in 1..Len(list) : Append(list, e)[k] = list[k]
      /\ Append(list, e)[Len(list) + 1] = e
  BY <1>2, AppendedList
<1>5. \A n \in Nat : RangesOf(list, n)
  BY <1>1 DEF GatherControl, RangesRight
<1>6. ASSUME NEW n \in Nat PROVE RangesOf(Append(list, e), n)
  <2>1. CASE n = Len(list) + 1
    BY <1>1, <1>4, <2>1 DEF RangesOf
  <2>2. CASE n \in 1..Len(list)
    <3>1. RangesOf(list, n) /\ Append(list, e)[n] = list[n]
      BY <1>4, <1>5, <2>2
    <3>. QED  BY <2>2, <3>1 DEF RangesOf
  <2>3. CASE n \notin 1..(Len(list) + 1)
    BY <1>4, <2>3 DEF RangesOf
  <2>. QED  BY <1>4, <2>1, <2>2, <2>3
<1>7. ASSUME NEW q \in Ranks, NEW n \in Nat PROVE RangesOf(calls'[q], n)
  BY <1>3, <1>6 DEF GatherControl, RangesRight
<1>8. RangesRight'
  BY <1>7 DEF RangesRight, RangesOf
<1>9. phase'[r] = p /\ \A q \in Ranks : q # r => phase'[q] = phase[q]
  BY DEF ControlTypes
<1>10. CollectsAt(p, Append(list, e))
  <2>1. CollectsAt(phase[r], list)
    BY <1>1 DEF GatherControl, GathersInOrder
  <2>2. CASE p \in {"ranges", "reranges"}
    BY <1>1, <1>4, <2>2 DEF CollectsAt
  <2>3. CASE p \in {"rows", "rerows"}
    <3>1. Len(list) > 0 /\ list[Len(list)].call = "Allgather_ints"
      BY <2>1, <2>3 DEF CollectsAt
    <3>2. Append(list, e)[Len(list)] = list[Len(list)] /\ Len(Append(list, e)) - 1 = Len(list)
      BY <1>4, <3>1
    <3>3. PICK long : long = Append(list, e)
      OBVIOUS
    <3>4. Len(long) > 1 /\ long[Len(long) - 1] = list[Len(list)]
      <4>1. Len(long) - 1 = Len(list) /\ Len(long) = Len(list) + 1
        BY <1>4, <3>2, <3>3
      <4>2. Len(list) \in Nat /\ Len(list) > 0
        BY <1>4, <3>1
      <4>3. Len(long) > 1
        BY <4>1, <4>2
      <4>4. long[Len(list)] = list[Len(list)]
        BY <3>2, <3>3
      <4>5. long[Len(long) - 1] = list[Len(list)]
        BY <4>1, <4>4
      <4>. QED  BY <4>3, <4>5
    <3>5. CollectsAt(p, long)
      BY <2>3, <3>1, <3>4 DEF CollectsAt
    <3>. QED  BY <3>3, <3>5
  <2>. QED  BY <2>2, <2>3
<1>11. ASSUME NEW q \in Ranks PROVE CollectsAt(phase'[q], calls'[q])
  BY <1>3, <1>9, <1>10 DEF GatherControl, GathersInOrder
<1>12. GathersInOrder'
  BY <1>11 DEF GathersInOrder, CollectsAt
<1>. QED  BY <1>8, <1>12 DEF GatherControl

\* Where a step takes its own rank, and no other.
LEMMA PhaseOf ==
  ASSUME ControlTypes, NEW r \in Ranks, NEW p, phase' = [phase EXCEPT ![r] = p]
  PROVE  phase'[r] = p /\ \A q \in Ranks : q # r => phase'[q] = phase[q]
BY DEF ControlTypes

LEMMA BeginsOutside ==
  ASSUME NEW s, NEW k
  PROVE  FirstPhase(s, k) \notin CollectPhases
BY DEF FirstPhase, CollectPhases

LEMMA SilentGathers ==
  ASSUME Control, GatherControl, NEW r \in Ranks,
         \/ Reset(r) \/ LeaveBarrier(r) \/ ExchangeHalo(r) \/ TakeLowerHalo(r) \/ SendHaloDown(r)
         \/ TakeUpperHalo(r) \/ HaloDone(r) \/ StoreRows(r) \/ StartPass(r) \/ TakeTurn(r)
         \/ HandOn(r) \/ LeaveBcast(r) \/ WorkDone(r) \/ EndPass(r) \/ LeaveReduce(r)
         \/ Finish(r)
  PROVE  GatherControl'
<1>0. "start" \notin CollectPhases /\ ControlTypes
  BY DEF CollectPhases, Control
<1>1. calls' = calls
  BY DEF Reset, LeaveBarrier, ExchangeHalo, TakeLowerHalo, SendHaloDown, TakeUpperHalo, TakeHalo,
         HaloDone, StoreRows, StartPass, TakeTurn, HandOn, LeaveBcast, WorkDone, EndPass,
         LeaveReduce, Finish
<1>2. \E p : phase' = [phase EXCEPT ![r] = p] /\ p \notin CollectPhases
  <2>1. \A s, k : FirstPhase(s, k) \notin CollectPhases
    BY BeginsOutside
  <2>2. CASE Reset(r)
    <3>1. phase' = [phase EXCEPT ![r] = "start"]
      BY <2>2 DEF Reset, Goto
    <3>. QED  BY <1>0, <3>1
  <2>3. CASE LeaveBarrier(r)
    BY <2>1, <2>3 DEF LeaveBarrier, Begin, Goto, CollectPhases
  <2>4. CASE ExchangeHalo(r)
    BY <2>4 DEF ExchangeHalo, GotoPhase, Goto, CollectPhases
  <2>5. CASE TakeLowerHalo(r) \/ SendHaloDown(r) \/ TakeUpperHalo(r) \/ HaloDone(r)
    BY <2>5 DEF TakeLowerHalo, SendHaloDown, TakeUpperHalo, TakeHalo, HaloDone, GotoPhase, Goto,
                CollectPhases
  <2>6. CASE StoreRows(r)
    <3>1. PICK p : p = Gathered(r, phase[r] = "rerows")
      OBVIOUS
    <3>2. p \notin CollectPhases
      BY <3>1 DEF Gathered, CollectPhases
    <3>3. phase' = [phase EXCEPT ![r] = p]
      BY <2>6, <3>1 DEF StoreRows, GotoPhase, Goto
    <3>. QED  BY <3>2, <3>3
  <2>7. CASE StartPass(r) \/ TakeTurn(r) \/ HandOn(r) \/ LeaveBcast(r) \/ WorkDone(r)
    BY <2>7 DEF StartPass, TakeTurn, HandOn, LeaveBcast, WorkDone, GotoPhase, Goto, CollectPhases
  <2>8. CASE EndPass(r)
    BY <2>1, <2>8 DEF EndPass, Loop, Begin, Goto
  <2>9. CASE LeaveReduce(r)
    <3>1. ASSUME NEW k, Loop(r, k) PROVE \E s, j : Begin(r, s, j)
      BY <3>1 DEF Loop
    <3>2. \/ \E s, k : Begin(r, s, k)
          \/ Goto(r, "barrier_out", "start")
      <4>1. stage[r] \in {"rhs_norm", "initial", "residual"}
        BY <2>9, HereLegal DEF LeaveReduce, LegalAt, PhasesOf, Stages, HaloPhases
      <4>2. \/ Begin(r, "initial", 0) \/ Goto(r, "barrier_out", "start") \/ Loop(r, pass[r])
            \/ Begin(r, "synchronise", pass[r])
        BY <2>9, <4>1 DEF LeaveReduce
      <4>. QED  BY <3>1, <4>2
    <3>3. ASSUME NEW s, NEW k, Begin(r, s, k)
          PROVE  \E p : phase' = [phase EXCEPT ![r] = p] /\ p \notin CollectPhases
      BY <2>1, <3>3 DEF Begin, Goto
    <3>4. ASSUME Goto(r, "barrier_out", "start")
          PROVE  \E p : phase' = [phase EXCEPT ![r] = p] /\ p \notin CollectPhases
      <4>1. phase' = [phase EXCEPT ![r] = "start"]
        BY <3>4 DEF Goto
      <4>. QED  BY <1>0, <4>1
    <3>. QED  BY <3>2, <3>3, <3>4
  <2>10. CASE Finish(r)
    <3>1. phase' = [phase EXCEPT ![r] = "start"]
      BY <2>10 DEF Finish, Goto
    <3>. QED  BY <1>0, <3>1
  <2>. QED  BY <2>2, <2>3, <2>4, <2>5, <2>6, <2>7, <2>8, <2>9, <2>10
<1>. QED  BY <1>0, <1>1, <1>2, PhaseOf, OtherCalls

LEMMA CallingGathers ==
  ASSUME ControlTypes, GatherControl, NEW r \in Ranks,
         EnterBarrier(r) \/ HandedOn(r) \/ Evaluate(r)
  PROVE  GatherControl'
<1>1. \E p : phase' = [phase EXCEPT ![r] = p] /\ p \notin CollectPhases
  BY DEF EnterBarrier, HandedOn, Evaluate, GotoPhase, Goto, CollectPhases
<1>2. calls' = calls \/ \E call, data : call # "Allgather_ints" /\ Enter(r, call, data)
  BY DEF EnterBarrier, HandedOn, Evaluate
<1>. QED  BY <1>1, <1>2, PhaseOf, OtherCalls

LEMMA GatheringGathers ==
  ASSUME ControlTypes, GatherControl, NEW r \in Ranks, Gather(r) \/ GatherRows(r)
  PROVE  GatherControl'
<1>1. CASE Gather(r) /\ P = 1
  <2>1. \E p : phase' = [phase EXCEPT ![r] = p] /\ p \notin CollectPhases
    BY <1>1 DEF Gather, Gathered, GotoPhase, Goto, CollectPhases
  <2>2. calls' = calls
    BY <1>1 DEF Gather
  <2>. QED  BY <2>1, <2>2, PhaseOf, OtherCalls
<1>2. CASE Gather(r) /\ P # 1
  <2>1. /\ Enter(r, "Allgather_ints", GatherRange(r))
        /\ phase' = [phase EXCEPT ![r] = IF phase[r] = "gather" THEN "ranges" ELSE "reranges"]
    BY <1>2 DEF Gather, GotoPhase, Goto
  <2>. QED  BY <2>1, GatherRangeWithin, GathersOneCall
<1>3. CASE GatherRows(r)
  <2>1. /\ phase[r] \in {"ranges", "reranges"}
        /\ Enter(r, "Allgatherv", [u \in UnitsOf(GatherRange(r)) |-> Mine(r)[u]])
        /\ phase' = [phase EXCEPT ![r] = IF phase[r] = "ranges" THEN "rows" ELSE "rerows"]
    BY <1>3 DEF GatherRows, GotoPhase, Goto
  <2>. QED  BY <2>1, GathersOneCall
<1>. QED  BY <1>1, <1>2, <1>3

LEMMA GatherControlStarts == Init => GatherControl
<1>. SUFFICES ASSUME Init PROVE GatherControl
  OBVIOUS
<1>1. \A r \in Ranks : calls[r] = <<>> /\ phase[r] = "start"
  BY DEF Init, MpiInit
<1>2. Len(<<>>) = 0
  OBVIOUS
<1>3. RangesRight
  BY <1>1, <1>2 DEF RangesRight, RangesOf
<1>4. GathersInOrder
  BY <1>1 DEF GathersInOrder, CollectsAt
<1>. QED  BY <1>3, <1>4 DEF GatherControl

LEMMA GatherControlKept == Control /\ GatherControl /\ [Next]_vars => GatherControl'
<1>. SUFFICES ASSUME Control, GatherControl, [Next]_vars PROVE GatherControl'
  OBVIOUS
<1>0. ControlTypes
  BY DEF Control
<1>1. ASSUME calls' = calls, phase' = phase PROVE GatherControl'
  BY <1>1 DEF GatherControl, RangesRight, RangesOf, GathersInOrder, CollectsAt
<1>2. CASE UNCHANGED vars
  BY <1>1, <1>2 DEF vars
<1>3. ASSUME NEW r \in Ranks, Computes(r) PROVE GatherControl'
  <2>1. CASE UpdateItem(r)
    BY <1>1, <2>1 DEF UpdateItem
  <2>. QED  BY <1>0, <1>3, <2>1, SilentGathers, CallingGathers, GatheringGathers DEF Computes
<1>4. ASSUME NEW r \in Ranks, LeavesSend(r) PROVE GatherControl'
  BY <1>0, <1>4, SilentGathers, CallingGathers DEF LeavesSend
<1>. QED  BY <1>2, <1>3, <1>4 DEF Next, AllFinished

\* The segments a rank stores are of units, and of all that were collected.
LEMMA CollectedUnits ==
  ASSUME Control, GatherControl, NEW r \in Ranks, phase[r] \in {"rows", "rerows"}, AllEntered(r)
  PROVE  DOMAIN Collected(r) \subseteq Units
<1>1. PICK before : before = Entered(r) - 1
  OBVIOUS
<1>2. Entered(r) \in Nat /\ Entered(r) > 1 /\ calls[r][before].call = "Allgather_ints"
  <2>1. IsSequence(calls[r])
    BY DEF Control, ControlTypes
  <2>2. Len(calls[r]) \in Nat
    BY <2>1, AppendedList
  <2>. QED  BY <1>1, <2>2 DEF GatherControl, GathersInOrder, CollectsAt, Entered
<1>3. ASSUME NEW q \in Ranks PROVE UnitsOf(calls[q][before].data) \subseteq Units
  <2>1. Entered(q) \in Nat /\ Entered(q) >= Entered(r)
    <3>1. IsSequence(calls[q])
      BY DEF Control, ControlTypes
    <3>. QED  BY <3>1, AppendedList DEF AllEntered, Entered
  <2>2. before \in 1..Entered(q) /\ before \in 1..Entered(r) /\ before <= Entered(q) /\ before <= Entered(r)
    BY <1>1, <1>2, <2>1
  <2>3. SameCall(q, r)
    BY ControlMatches DEF CollectivesMatch
  <2>4. calls[q][before].call = "Allgather_ints"
    BY <1>2, <2>2, <2>3 DEF SameCall
  <2>5. RangesOf(calls[q], before) /\ before \in Nat
    BY <2>2 DEF GatherControl, RangesRight
  <2>. QED  BY <2>2, <2>4, <2>5 DEF RangesOf, Entered
<1>4. DOMAIN Collected(r) = UNION {UnitsOf(calls[q][before].data) : q \in Ranks \ {r}}
  BY <1>1 DEF Collected
<1>. QED  BY <1>3, <1>4

-----------------------------------------------------------------------------
(* No step brings anything else to the boundary. *)

LEMMA RingUntouched ==
  ASSUME RingControl, Untouched, wire' = wire
  PROVE  RingControl'
BY RingStays, RingMessagesStay DEF RingControl, Untouched

LEMMA RingInitially == RingSlot(InitialState)
BY DEF RingSlot, RingRow, InitialState

\* A row of its own or a halo, as a rank may send it.
LEMMA RingOfMine ==
  ASSUME CellTypes, RingKept, NEW r \in Ranks, NEW u \in Stored
  PROVE  u \in Units \/ RingRow(Mine(r)[u])
<1>1. RingSlot(Mine(r))
  BY DEF RingKept, Mine, CellTypes, Slots
<1>. QED  BY <1>1 DEF RingSlot

LEMMA ResetRing ==
  ASSUME CellTypes, RingControl, NEW r \in Ranks, Reset(r)
  PROVE  RingControl'
<1>1. wire' = wire
  BY DEF Reset
<1>2. ASSUME NEW q \in Ranks, NEW s \in Slots PROVE RingSlot(cell'[q][s])
  BY ResetShape, RingInitially DEF RingControl, RingKept
<1>3. \A q \in Ranks, s \in Slots : RingSlot(cell[q][s])'
  BY <1>2 DEF RingSlot, RingRow
<1>. QED  BY <1>1, <1>3, RingMessagesStay DEF RingControl, RingKept

LEMMA ExchangeHaloRing ==
  ASSUME Control, Grid, Wires, CellTypes, RingControl, NEW r \in Ranks, ExchangeHalo(r)
  PROVE  RingControl'
<1>1. Untouched
  BY UntouchedSteps
<1>2. RingKept'
  BY <1>1, RingStays DEF RingControl, Untouched
<1>3. CASE P = 1 \/ r = 0
  <2>1. wire' = wire
    BY <1>3 DEF ExchangeHalo, Send, AboveOf, PROC_NULL
  <2>. QED  BY <1>2, <2>1, RingMessagesStay DEF RingControl
<1>4. CASE P # 1 /\ r # 0
  <2>1. PICK row \in SendBuffer(r, FirstOwned(r), LowerHalo(r), BelowOf(r), "TAG_HALO_UP") :
          Send(r, AboveOf(r), "TAG_HALO_UP", row)
    BY <1>4 DEF ExchangeHalo
  <2>2. r > 0 /\ r - 1 \in Ranks
    BY <1>4, RanksAssumption DEF Ranks
  <2>3. OnlyWire("TAG_HALO_UP", r, r - 1, Append(wire["TAG_HALO_UP"][r][r - 1], row))
    BY <2>1, <2>2, SentUp
  <2>4. LandsAt(r, r - 1) \in Units \/ RingRow(row)
    <3>1. FirstOwned(r) = LandsAt(r, r - 1) /\ FirstOwned(r) \in Stored
      BY <2>2, RowsLand, RowsAreStored
    <3>2. CASE row = Mine(r)[FirstOwned(r)]
      BY <3>1, <3>2, RingOfMine DEF RingControl
    <3>3. CASE /\ FirstOwned(r) = LowerHalo(r) /\ Incoming(r, BelowOf(r), "TAG_HALO_UP")
               /\ row = Message(r, BelowOf(r), "TAG_HALO_UP")
      <4>1. r + 1 < P /\ BelowOf(r) = r + 1 /\ r + 1 \in Ranks
        BY <3>3, UpperIndex DEF Incoming
      <4>2. LandsAt(r + 1, r) = LandsAt(r, r - 1)
        BY <2>2, <3>1, <3>3, <4>1, RowsLand
      <4>3. PICK s : s = wire["TAG_HALO_UP"][r + 1][r]
        OBVIOUS
      <4>4. s # <<>> /\ IsSequence(s) /\ row = Head(s)
        BY <3>3, <4>1, <4>3 DEF Incoming, Message, Wires, Tags
      <4>5. LandsAt(r + 1, r) \notin Units => RingRows(s)
        BY <4>1, <4>3 DEF RingControl, RingMessages, Tags
      <4>6. Head(s) = s[1] /\ Len(s) \in Nat \ {0}
        BY <4>4, RestOfList
      <4>. QED  BY <4>2, <4>4, <4>5, <4>6 DEF RingRows
    <3>. QED  BY <2>1, <3>2, <3>3 DEF SendBuffer
  <2>. QED  BY <1>2, <2>2, <2>3, <2>4, RingSent DEF RingControl, Tags
<1>. QED  BY <1>3, <1>4

LEMMA SendHaloDownRing ==
  ASSUME Control, Grid, Wires, CellTypes, RingControl, NEW r \in Ranks, SendHaloDown(r)
  PROVE  RingControl'
<1>1. Untouched
  BY UntouchedSteps
<1>2. RingKept'
  BY <1>1, RingStays DEF RingControl, Untouched
<1>3. PICK row \in SendBuffer(r, LastOwned(r), UpperHalo(r), AboveOf(r), "TAG_HALO_DOWN") :
        Send(r, BelowOf(r), "TAG_HALO_DOWN", row)
  BY DEF SendHaloDown
<1>4. CASE ~ (r + 1 < P)
  <2>1. wire' = wire
    BY <1>3, <1>4, UpperIndex DEF Send
  <2>. QED  BY <1>2, <2>1, RingMessagesStay DEF RingControl
<1>5. CASE r + 1 < P
  <2>1. r + 1 \in Ranks
    BY <1>5, UpperIndex
  <2>2. OnlyWire("TAG_HALO_DOWN", r, r + 1, Append(wire["TAG_HALO_DOWN"][r][r + 1], row))
    BY <1>3, <1>5, SentDown
  <2>3. LandsAt(r, r + 1) \in Units \/ RingRow(row)
    <3>1. LastOwned(r) = LandsAt(r, r + 1) /\ LastOwned(r) \in Stored
      BY <1>5, RowsLand, RowsAreStored
    <3>2. CASE row = Mine(r)[LastOwned(r)]
      BY <3>1, <3>2, RingOfMine DEF RingControl
    <3>3. CASE /\ LastOwned(r) = UpperHalo(r) /\ Incoming(r, AboveOf(r), "TAG_HALO_DOWN")
               /\ row = Message(r, AboveOf(r), "TAG_HALO_DOWN")
      <4>1. r > 0 /\ AboveOf(r) = r - 1 /\ r - 1 \in Ranks
        BY <3>3, UpperIndex DEF Incoming
      <4>2. LandsAt(r - 1, r) = LandsAt(r, r + 1)
        BY <3>1, <3>3, <4>1, RowsLand
      <4>3. PICK s : s = wire["TAG_HALO_DOWN"][r - 1][r]
        OBVIOUS
      <4>4. s # <<>> /\ IsSequence(s) /\ row = Head(s)
        BY <3>3, <4>1, <4>3 DEF Incoming, Message, Wires, Tags
      <4>5. LandsAt(r - 1, r) \notin Units => RingRows(s)
        BY <4>1, <4>3 DEF RingControl, RingMessages, Tags
      <4>6. Head(s) = s[1] /\ Len(s) \in Nat \ {0}
        BY <4>4, RestOfList
      <4>. QED  BY <4>2, <4>4, <4>5, <4>6 DEF RingRows
    <3>. QED  BY <1>3, <3>2, <3>3 DEF SendBuffer
  <2>. QED  BY <1>2, <2>1, <2>2, <2>3, RingSent DEF RingControl, Tags
<1>. QED  BY <1>4, <1>5

LEMMA HandOnRing ==
  ASSUME Control, Grid, Wires, CellTypes, RingControl, NEW r \in Ranks, HandOn(r)
  PROVE  RingControl'
<1>1. Untouched
  BY UntouchedSteps
<1>2. RingKept'
  BY <1>1, RingStays DEF RingControl, Untouched
<1>3. Send(r, Successor(r), "TAG_ORDERED", Mine(r)[TurnRowOut(r)])
  BY DEF HandOn
<1>4. CASE Successor(r) = PROC_NULL
  BY <1>2, <1>3, <1>4, RingMessagesStay DEF RingControl, Send
<1>5. CASE Forward(r) /\ r + 1 < P
  <2>1. r + 1 \in Ranks /\ Send(r, BelowOf(r), "TAG_ORDERED", Mine(r)[LastOwned(r)])
    BY <1>3, <1>5, UpperIndex DEF Successor, TurnRowOut
  <2>2. OnlyWire("TAG_ORDERED", r, r + 1,
                 Append(wire["TAG_ORDERED"][r][r + 1], Mine(r)[LastOwned(r)]))
    BY <1>5, <2>1, SentDown
  <2>3. LandsAt(r, r + 1) \in Units \/ RingRow(Mine(r)[LastOwned(r)])
    BY <1>5, RowsLand, RowsAreStored, RingOfMine DEF RingControl
  <2>. QED  BY <1>2, <2>1, <2>2, <2>3, RingSent DEF RingControl, Tags
<1>6. CASE ~ Forward(r) /\ r > 0
  <2>1. r - 1 \in Ranks /\ Send(r, AboveOf(r), "TAG_ORDERED", Mine(r)[FirstOwned(r)])
    BY <1>3, <1>6, UpperIndex DEF Successor, TurnRowOut
  <2>2. OnlyWire("TAG_ORDERED", r, r - 1,
                 Append(wire["TAG_ORDERED"][r][r - 1], Mine(r)[FirstOwned(r)]))
    BY <1>6, <2>1, SentUp
  <2>3. LandsAt(r, r - 1) \in Units \/ RingRow(Mine(r)[FirstOwned(r)])
    BY <1>6, RowsLand, RowsAreStored, RingOfMine DEF RingControl
  <2>. QED  BY <1>2, <2>1, <2>2, <2>3, RingSent DEF RingControl, Tags
<1>. QED  BY <1>4, <1>5, <1>6, UpperIndex DEF Successor

LEMMA RingReceived ==
  ASSUME Wires, CellTypes, RingControl, NEW r \in Ranks, NEW tag \in Tags, NEW q \in Ranks,
         OnlyWire(tag, q, r, Tail(wire[tag][q][r])), wire[tag][q][r] # <<>>,
         Message(r, q, tag) = wire[tag][q][r][1], NEW into, into = LandsAt(q, r),
         current[r] \in Slots,
         OnlySlot(r, current[r], Restored(r, [u \in {into} |-> Message(r, q, tag)]))
  PROVE  RingControl'
<1>1. RingMessages' /\ (into \in Units \/ RingRow(Message(r, q, tag)))
  BY RingTaken DEF RingControl
<1>2. RingSlot(Restored(r, [u \in {into} |-> Message(r, q, tag)]))
  BY <1>1, RingRestored DEF RingControl
<1>. QED  BY <1>1, <1>2, RingStored DEF RingControl

LEMMA TakeLowerHaloRing ==
  ASSUME Control, Grid, Wires, CellTypes, RingControl, NEW r \in Ranks, TakeLowerHalo(r)
  PROVE  RingControl'
<1>1. TakeHalo(r, BelowOf(r), "TAG_HALO_UP", LowerHalo(r), "halo_up_sent")
  BY DEF TakeLowerHalo
<1>2. CASE ~ (r + 1 < P)
  <2>1. BelowOf(r) = PROC_NULL
    BY <1>2, UpperIndex
  <2>2. Untouched /\ wire' = wire
    BY <1>1, <2>1 DEF TakeHalo, Untouched
  <2>. QED  BY <2>2, RingUntouched
<1>3. CASE r + 1 < P
  <2>1. BelowOf(r) = r + 1 /\ r + 1 \in Ranks /\ r + 1 # PROC_NULL
    BY <1>3, UpperIndex DEF Ranks, PROC_NULL
  <2>2. Incoming(r, r + 1, "TAG_HALO_UP") /\ Receive(r, r + 1, "TAG_HALO_UP")
    BY <1>1, <2>1 DEF TakeHalo
  <2>3. StoreUnits(r, [u \in {LowerHalo(r)} |-> Message(r, r + 1, "TAG_HALO_UP")])
    BY <1>1, <2>1 DEF TakeHalo
  <2>. QED  BY <1>3, <2>1, <2>2, <2>3, TakenFromBelow, StoresUnits, RowsLand, RingReceived DEF Tags
<1>. QED  BY <1>2, <1>3

LEMMA TakeUpperHaloRing ==
  ASSUME Control, Grid, Wires, CellTypes, RingControl, NEW r \in Ranks, TakeUpperHalo(r)
  PROVE  RingControl'
<1>1. TakeHalo(r, AboveOf(r), "TAG_HALO_DOWN", UpperHalo(r), "halo_down_sent")
  BY DEF TakeUpperHalo
<1>2. CASE ~ (r > 0)
  <2>1. AboveOf(r) = PROC_NULL
    BY <1>2, UpperIndex
  <2>2. Untouched /\ wire' = wire
    BY <1>1, <2>1 DEF TakeHalo, Untouched
  <2>. QED  BY <2>2, RingUntouched
<1>3. CASE r > 0
  <2>1. AboveOf(r) = r - 1 /\ r - 1 \in Ranks /\ r - 1 # PROC_NULL
    BY <1>3, UpperIndex DEF Ranks, PROC_NULL
  <2>2. Incoming(r, r - 1, "TAG_HALO_DOWN") /\ Receive(r, r - 1, "TAG_HALO_DOWN")
    BY <1>1, <2>1 DEF TakeHalo
  <2>3. StoreUnits(r, [u \in {UpperHalo(r)} |-> Message(r, r - 1, "TAG_HALO_DOWN")])
    BY <1>1, <2>1 DEF TakeHalo
  <2>. QED  BY <1>3, <2>1, <2>2, <2>3, TakenFromAbove, StoresUnits, RowsLand, RingReceived DEF Tags
<1>. QED  BY <1>2, <1>3

LEMMA TakeTurnRing ==
  ASSUME Control, Grid, Wires, CellTypes, RingControl, NEW r \in Ranks, TakeTurn(r)
  PROVE  RingControl'
<1>1. CASE Predecessor(r) = PROC_NULL
  <2>1. Untouched /\ wire' = wire
    BY <1>1 DEF TakeTurn, Untouched
  <2>. QED  BY <2>1, RingUntouched
<1>2. CASE Predecessor(r) # PROC_NULL
  <2>1. PICK q : q = Predecessor(r)
    OBVIOUS
  <2>2. Incoming(r, q, "TAG_ORDERED") /\ Receive(r, q, "TAG_ORDERED")
    BY <1>2, <2>1 DEF TakeTurn
  <2>3. StoreUnits(r, [u \in {TurnRowIn(r)} |-> Message(r, q, "TAG_ORDERED")])
    BY <1>2, <2>1 DEF TakeTurn
  <2>4. CASE Forward(r)
    <3>1. r > 0 /\ q = r - 1 /\ q \in Ranks /\ TurnRowIn(r) = LandsAt(q, r)
      BY <1>2, <2>1, <2>4, UpperIndex, RowsLand DEF Predecessor, TurnRowIn
    <3>. QED  BY <2>2, <2>3, <3>1, TakenFromAbove, StoresUnits, RingReceived DEF Tags
  <2>5. CASE ~ Forward(r)
    <3>1. r + 1 < P /\ q = r + 1 /\ q \in Ranks /\ TurnRowIn(r) = LandsAt(q, r)
      BY <1>2, <2>1, <2>5, UpperIndex, RowsLand DEF Predecessor, TurnRowIn
    <3>. QED  BY <2>2, <2>3, <3>1, TakenFromBelow, StoresUnits, RingReceived DEF Tags
  <2>. QED  BY <2>4, <2>5
<1>. QED  BY <1>1, <1>2

LEMMA StoreRowsRing ==
  ASSUME Control, GatherControl, CellTypes, RingControl, NEW r \in Ranks, StoreRows(r)
  PROVE  RingControl'
<1>1. /\ StoreUnits(r, Collected(r)) /\ wire' = wire
      /\ phase[r] \in {"rows", "rerows"} /\ AllEntered(r)
  BY DEF StoreRows
<1>2. DOMAIN Collected(r) \subseteq Units
  BY <1>1, CollectedUnits
<1>3. RingSlot(Restored(r, Collected(r)))
  BY <1>2, RingRestored DEF RingControl
<1>. QED  BY <1>1, <1>3, StoresUnits, RingStored, RingMessagesStay DEF RingControl

LEMMA OwnStepsRing ==
  ASSUME Grid, CellTypes, RingControl, NEW r \in Ranks,
         StartPass(r) \/ UpdateItem(r) \/ EndPass(r) \/ Finish(r)
  PROVE  RingControl'
<1>1. wire' = wire
  BY DEF StartPass, UpdateItem, EndPass, Finish
<1>2. RingSlot(Mine(r)) /\ RingSlot(cell[r][Target(r)])
  BY WorkSlots DEF RingControl, RingKept, Mine, CellTypes, Slots
<1>3. RingKept'
  <2>1. CASE StartPass(r)
    BY <1>2, <2>1, StartPassShape, RingStored, RingStays DEF RingControl, Slots
  <2>2. CASE UpdateItem(r)
    <3>1. PICK item \in todo[r] : OnlySlot(r, Target(r), Updated(r, UnitsIn(item, Kind(r))))
      BY <2>2, UpdateShape
    <3>2. UnitsIn(item, Kind(r)) \subseteq Units
      BY DEF UnitsIn, FlatBlocks, CellTypes
    <3>3. RingSlot(Updated(r, UnitsIn(item, Kind(r))))
      BY <1>2, <3>2 DEF RingSlot, RingRow, Updated
    <3>. QED  BY <3>1, <3>3, WorkSlots, RingStored DEF RingControl
  <2>3. CASE EndPass(r)
    BY <2>3, RingStays DEF EndPass, RingControl
  <2>4. CASE Finish(r)
    BY <1>2, <2>4, FinishShape, RingStored DEF RingControl, Slots
  <2>. QED  BY <2>1, <2>2, <2>3, <2>4
<1>. QED  BY <1>1, <1>3, RingMessagesStay DEF RingControl

LEMMA RingControlStarts == Init => RingControl
<1>. SUFFICES ASSUME Init PROVE RingControl
  OBVIOUS
<1>1. \A tag \in Tags, p, q \in Ranks : wire[tag][p][q] = <<>>
  BY DEF Init, MpiInit
<1>2. RingRows(<<>>)
  BY DEF RingRows
<1>3. \A r \in Ranks, s \in Slots : cell[r][s] = InitialState
  BY DEF Init
<1>. QED  BY <1>1, <1>2, <1>3, RingInitially DEF RingControl, RingKept, RingMessages

DataTypes == Control /\ (Grid => HaloControl) /\ CellTypes /\ GatherControl

LEMMA DataTypesStart == Init => DataTypes
BY ControlStarts, HaloControlStarts, CellTypesStarts, GatherControlStarts DEF DataTypes

LEMMA DataTypesKept == DataTypes /\ [Next]_vars => DataTypes'
BY ControlKept, HaloControlKept, CellTypesKept, GatherControlKept DEF DataTypes

LEMMA RingControlKept == DataTypes /\ (Grid => RingControl) /\ [Next]_vars => (Grid => RingControl')
<1>. SUFFICES ASSUME DataTypes, RingControl, [Next]_vars, Grid PROVE RingControl'
  OBVIOUS
<1>0. Control /\ Wires /\ CellTypes /\ GatherControl
  BY DEF DataTypes, HaloControl
<1>1. CASE UNCHANGED vars
  BY <1>1, RingUntouched DEF vars, Untouched
<1>2. ASSUME NEW r \in Ranks, Computes(r) PROVE RingControl'
  <2>1. ~ LeaveBcast(r)
    BY <1>0, WorkIsInPass DEF LeaveBcast
  <2>2. ASSUME \/ EnterBarrier(r) \/ LeaveBarrier(r) \/ Gather(r) \/ GatherRows(r)
               \/ WorkDone(r) \/ Evaluate(r) \/ LeaveReduce(r)
        PROVE  RingControl'
    <3>1. wire' = wire
      BY <2>2 DEF EnterBarrier, LeaveBarrier, Gather, GatherRows, WorkDone, Evaluate, LeaveReduce
    <3>. QED  BY <2>2, <3>1, UntouchedSteps, RingUntouched
  <2>. QED  BY <1>0, <1>2, <2>1, <2>2, ResetRing, ExchangeHaloRing, TakeLowerHaloRing,
               TakeUpperHaloRing, StoreRowsRing, TakeTurnRing, HandOnRing, OwnStepsRing
            DEF Computes
<1>3. ASSUME NEW r \in Ranks, LeavesSend(r) PROVE RingControl'
  <2>1. ASSUME HaloDone(r) \/ HandedOn(r) PROVE RingControl'
    <3>1. wire' = wire
      BY <2>1 DEF HaloDone, HandedOn
    <3>. QED  BY <2>1, <3>1, UntouchedSteps, RingUntouched
  <2>. QED  BY <1>0, <1>3, <2>1, SendHaloDownRing DEF LeavesSend
<1>. QED  BY <1>1, <1>2, <1>3 DEF Next, AllFinished

\* Nothing ever overwrites the homogeneous boundary: no halo row that lands on
\* a rank without rows, on the first or on the last one, no turn, no gathered
\* segment and no update, for any number of ranks and rows (exchange_halo,
\* gather_rows, run_ordered: mpi_backend.cpp).
THEOREM RingIntactHolds == Spec => []RingIntact
<1>. DEFINE Inv == DataTypes /\ (Grid => RingControl)
<1>1. Init => Inv
  BY DataTypesStart, RingControlStarts
<1>2. Inv /\ [Next]_vars => Inv'
  BY DataTypesKept, RingControlKept
<1>3. Inv => RingIntact
  <2>1. CASE Grid
    BY <2>1 DEF RingControl, RingKept, RingSlot, RingRow, RingIntact
  <2>2. CASE ~ Grid
    BY <2>2 DEF RingIntact, Stored
  <2>. QED  BY <2>1, <2>2
<1>. QED  BY <1>1, <1>2, <1>3, PTL DEF Spec

=============================================================================
