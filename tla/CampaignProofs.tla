--------------------------- MODULE CampaignProofs ---------------------------
(***************************************************************************)
(* What a campaign keeps on disk, and what holds of each job it runs.      *)
(*                                                                         *)
(* The campaign, for every matrix, every set of commits and every number   *)
(* of sessions: no measurement is lost, nothing complete is run again, a   *)
(* session that writes its manifest has accounted for its matrix, and a    *)
(* published generation is whole.  The argument is one inductive invariant *)
(* over the files and the memory of the running session: the session holds *)
(* every row of the file, or a newer one of the same identity; what it     *)
(* takes for complete is what it holds; every configuration behind its     *)
(* position is held or failed; and each manifest that can be parsed, and   *)
(* each text a refresh will write back, vouches for the rows on disk.      *)
(*                                                                         *)
(* The job, for any number of ranks and repetitions.  The argument counts  *)
(* collective calls: a rank's position in main() and the repetitions it    *)
(* has finished say how many it has entered, a rank leaves the last        *)
(* closing barrier only when every rank has entered it, and that many      *)
(* entries need every repetition.                                          *)
(***************************************************************************)
EXTENDS BenchmarkJob, RunSweep, WellFoundedInduction, TLAPS

Keys == {Key[c] : c \in DOMAIN Key}

Asked == Commits \cup {NoCommit}

Rows == [key : Keys, commit : Commits, session : Nat]

Identities == [key : Keys, commit : Commits]

Texts ==
    [session : Nat, commit : Asked, probedBy : Asked, declared : Nat,
     failures : Seq(DOMAIN Key)]

Files == [commit : Asked, text : Texts \cup {Torn}]

SessionStages == {"load", "probe", "next", "write", "replace", "manifest"}

\* The memory of a session that runs.
Sessions ==
    [at : SessionStages, number : Nat, commit : Asked, force : BOOLEAN,
     probedBy : Asked, next : Nat \ {0}, rows : SUBSET Rows,
     done : SUBSET Identities, executed : Nat, skipped : Nat,
     failures : Seq(DOMAIN Key)]

\* The memory of a refresh, before and after it has read the manifest.
Refreshes ==
    [at : {"reprobe"}, number : Nat, commit : Asked, target : Nat]
      \cup [at : {"reopen", "rewrite"}, target : Nat, commit : Asked, text : Texts]

\* The types.
CampaignTypes ==
    /\ binary \in Commits
    /\ summary \in SUBSET Rows
    /\ manifests \in Seq(Files)
    /\ clock \in Nat
    /\ session \in {Idle} \cup Sessions \cup Refreshes

Active == session.at \in SessionStages

\* No row comes from a session that has not begun, and the running session is
\* the last thing that began.
RowsFromThePast ==
    /\ \A row \in summary : row.session <= clock
    /\ Active => session.number = clock

\* From its reading on, the session holds each row of the file or a newer one
\* of its identity, and outside the writing of a row it holds the file itself.
HoldsTheFile ==
    /\ Active /\ session.at # "load" =>
         \A old \in summary : \E new \in session.rows :
             identity(new) = identity(old) /\ new.session >= old.session
    /\ session.at \in {"probe", "next", "manifest"} => session.rows = summary

\* The rows held are not from the future, and what counts as complete is
\* exactly what is held.
DoneIsHeld ==
    Active =>
        /\ \A row \in session.rows : row.session <= clock
        /\ ~session.force => session.done = {identity(row) : row \in session.rows}

\* Configurations whose turn has come and gone, the one being written too.
Past == IF session.at \in {"write", "replace"} THEN session.next
                                              ELSE session.next - 1

\* The row a configuration leaves behind if it did not fail.
RowOf(n, row) ==
    /\ row.key \in Names(Matrix[n])
    /\ row.commit = session.commit \/ row.session = session.number

Accounted ==
    Active =>
        /\ Past <= Len(Matrix)
        /\ session.at \in {"load", "probe"} => session.next = 1
        /\ session.at = "manifest" => session.next > Len(Matrix)
        /\ session.executed + session.skipped + Len(session.failures) = Past
        /\ \A n \in 1 .. Past :
              \/ \E i \in 1 .. Len(session.failures) : session.failures[i] = Matrix[n]
              \/ \E row \in session.rows : RowOf(n, row)

Listed(failures, n) == \E i \in 1 .. Len(failures) : failures[i] = Matrix[n]

\* What a manifest's text says of the rows in the summary, then and ever after:
\* each configuration is listed as failed or has a row at the text's commit,
\* unless the summary is of more than that commit.
Covers(text, lines) ==
    text.declared > 0 =>
        \A n \in 1 .. Len(Matrix) :
            \/ Listed(text.failures, n)
            \/ \E row \in lines : row.key \in Names(Matrix[n]) /\ row.commit = text.commit
            \/ \E row \in lines : row.commit # text.commit

Vouches(text, commit, lines) == text.commit = commit /\ Covers(text, lines)

\* A file that can be parsed is of the commit in its name and vouches for it,
\* and so does the text a refresh has read and will write back.
FilesVouch ==
    \A i \in 1 .. Len(manifests) : manifests[i].text # Torn =>
        Vouches(manifests[i].text, manifests[i].commit, summary)

RefreshVouches ==
    /\ session.at = "reprobe" /\ session.target \in 1 .. Len(manifests) =>
         manifests[session.target].commit = session.commit
    /\ session.at \in {"reopen", "rewrite"} =>
         Vouches(session.text, session.commit, summary)

SweepInvariant ==
    /\ CampaignTypes
    /\ RowsFromThePast
    /\ HoldsTheFile
    /\ DoneIsHeld
    /\ Accounted
    /\ FilesVouch
    /\ RefreshVouches

-----------------------------------------------------------------------------
(* Lemmas about the operators *)

\* A nonempty set of places in a list has a newest one (sorted(found)[-1]).
LEMMA NewestIsAPlace ==
    ASSUME NEW n \in Nat, NEW places \in SUBSET (1 .. n), places # {}
    PROVE  Newest(places) \in places
<1> DEFINE FromTheEnd == {m \in Nat : n - m \in places}
<1>1. FromTheEnd \subseteq Nat
  OBVIOUS
<1>2. FromTheEnd # {}
  <2>1. PICK i \in places : TRUE
    OBVIOUS
  <2>2. n - i \in Nat /\ n - (n - i) = i
    OBVIOUS
  <2>. QED  BY <2>1, <2>2
<1>3. PICK m \in FromTheEnd : \A k \in FromTheEnd : ~ (<<k, m>> \in OpToRel(<, Nat))
  <2>. HIDE DEF FromTheEnd
  <2>. QED  BY <1>1, <1>2, NatLessThanWellFounded, WFMin
<1>4. \A k \in FromTheEnd : m <= k
  <2>. SUFFICES ASSUME NEW k \in FromTheEnd, k < m PROVE FALSE
    OBVIOUS
  <2>1. <<k, m>> \in {ss \in Nat \X Nat : ss[1] < ss[2]}
    OBVIOUS
  <2>. QED  BY <2>1, <1>3 DEF OpToRel
<1>5. \A j \in places : j <= n - m
  <2>. SUFFICES ASSUME NEW j \in places PROVE j <= n - m
    OBVIOUS
  <2>1. n - j \in Nat /\ n - (n - j) = j
    OBVIOUS
  <2>2. n - j \in FromTheEnd
    BY <2>1
  <2>3. m <= n - j /\ m \in Nat /\ j \in Int
    BY <2>2, <1>4
  <2>. QED  BY <2>3
<1>. QED  BY <1>3, <1>5 DEF Newest

\* Of the rows of one identity the merge keeps the new one alone.
LEMMA MergedRows ==
    ASSUME NEW lines \in SUBSET Rows, NEW row \in Rows
    PROVE  /\ Merged(lines, row) \in SUBSET Rows
           /\ row \in Merged(lines, row)
           /\ \A new \in Merged(lines, row) : new \in lines \/ new = row
           /\ \A old \in lines : identity(old) # identity(row) => old \in Merged(lines, row)
  BY DEF Merged

\* What the merged rows stand for is what the rows stood for, and the new row.
LEMMA MergedIdentities ==
    ASSUME NEW lines \in SUBSET Rows, NEW row \in Rows
    PROVE  {identity(r) : r \in Merged(lines, row)}
             = {identity(r) : r \in lines} \cup {identity(row)}
  BY DEF Merged

LEMMA IdentityType ==
    ASSUME NEW row \in Rows
    PROVE  /\ identity(row) \in Identities
           /\ identity(row).key = row.key
           /\ identity(row).commit = row.commit
  BY DEF identity, Rows, Identities

LEMMA MatrixType ==
    /\ Len(Matrix) \in Nat
    /\ \A n \in 1 .. Len(Matrix) : Matrix[n] \in DOMAIN Key /\ Key[Matrix[n]] \in Keys
  BY SweepAssumption DEF Keys

\* A text that covers the rows covers any later rows: an identity never leaves.
LEMMA CoversLater ==
    ASSUME NEW text, NEW before \in SUBSET Rows, NEW after \in SUBSET Rows,
           \A old \in before : \E new \in after : identity(new) = identity(old),
           Covers(text, before)
    PROVE  Covers(text, after)
<1>1. \A old \in before : \E new \in after : new.key = old.key /\ new.commit = old.commit
  BY DEF identity
<1>. SUFFICES ASSUME text.declared > 0, NEW n \in 1 .. Len(Matrix), ~Listed(text.failures, n)
     PROVE  \/ \E row \in after : row.key \in Names(Matrix[n]) /\ row.commit = text.commit
            \/ \E row \in after : row.commit # text.commit
  BY DEF Covers
<1>2. CASE \E row \in before : row.key \in Names(Matrix[n]) /\ row.commit = text.commit
  BY <1>1, <1>2
<1>3. CASE \E row \in before : row.commit # text.commit
  BY <1>1, <1>3
<1>. QED  BY <1>2, <1>3 DEF Covers

\* A session that runs is neither idle nor a refresh, and its fields have their
\* types.
LEMMA ActiveSession ==
    ASSUME CampaignTypes
    PROVE  /\ Active <=> session \in Sessions
           /\ session.at \in SessionStages => Active
           /\ session.at = "idle" => session = Idle
           /\ session.at \in {"reopen", "rewrite"} =>
                session \in [at : {"reopen", "rewrite"}, target : Nat, commit : Asked, text : Texts]
           /\ session.at = "reprobe" =>
                session \in [at : {"reprobe"}, number : Nat, commit : Asked, target : Nat]
  BY DEF CampaignTypes, Active, Sessions, Refreshes, SessionStages, Idle

\* A file with a good text and name, placed anywhere among good files.
LEMMA PlacedFiles ==
    ASSUME NEW files \in Seq(Files), NEW i \in Nat, NEW file \in Files
    PROVE  /\ Placed(files, i, file) \in Seq(Files)
           /\ \A j \in 1 .. Len(Placed(files, i, file)) :
                 \/ Placed(files, i, file)[j] = file
                 \/ j \in 1 .. Len(files) /\ Placed(files, i, file)[j] = files[j]
  BY DEF Placed

-----------------------------------------------------------------------------
(* The actions *)

LEMMA InitHolds == CampaignInit => SweepInvariant
<1>. SUFFICES ASSUME CampaignInit PROVE SweepInvariant
  OBVIOUS
<1>. USE DEF CampaignInit, Idle
<1>1. CampaignTypes
  BY DEF CampaignTypes
<1>2. ~Active
  BY DEF Active, SessionStages
<1>. QED
  BY <1>1, <1>2 DEF SweepInvariant, RowsFromThePast, HoldsTheFile, DoneIsHeld,
                    Accounted, FilesVouch, RefreshVouches

\* What no step of a session disturbs: files as they were, no refresh.
LEMMA VouchingKeeps ==
    ASSUME SweepInvariant, UNCHANGED disk, session'.at \notin {"reprobe", "reopen", "rewrite"}
    PROVE  FilesVouch' /\ RefreshVouches'
  BY DEF SweepInvariant, FilesVouch, RefreshVouches, disk

\* A step after which no session runs, the summary as it is, keeps all of it but
\* the types and what the manifests say.
LEMMA NoSessionKeeps ==
    ASSUME SweepInvariant, CampaignTypes', ~Active', clock' \in {clock, clock + 1},
           UNCHANGED summary, FilesVouch', RefreshVouches'
    PROVE  SweepInvariant'
<1>2. clock \in Nat /\ summary \in SUBSET Rows
  BY DEF SweepInvariant, CampaignTypes
<1>3. RowsFromThePast'
  BY <1>2 DEF SweepInvariant, RowsFromThePast, Rows
<1>4. HoldsTheFile' /\ DoneIsHeld' /\ Accounted'
  BY DEF HoldsTheFile, DoneIsHeld, Accounted, Active, SessionStages
<1>. QED  BY <1>3, <1>4 DEF SweepInvariant

\* A session starts with nothing in hand and nothing behind it.
LEMMA StartSessionKeeps == SweepInvariant /\ StartSession => SweepInvariant'
<1>. SUFFICES ASSUME SweepInvariant, StartSession PROVE SweepInvariant'
  OBVIOUS
<1>1. PICK commit \in Answers, force \in BOOLEAN :
        session' = [at |-> "load", number |-> clock + 1, commit |-> commit,
                    force |-> force, probedBy |-> NoCommit, next |-> 1,
                    rows |-> {}, done |-> {},
                    executed |-> 0, skipped |-> 0, failures |-> <<>>]
  BY DEF StartSession
<1>2. UNCHANGED <<binary, disk>> /\ clock' = clock + 1
  BY DEF StartSession
<1>3. CampaignTypes
  BY DEF SweepInvariant
<1>5. session' \in Sessions
  BY <1>1, <1>3 DEF Sessions, SessionStages, CampaignTypes, Answers, Asked
<1>6. CampaignTypes'
  BY <1>2, <1>3, <1>5 DEF CampaignTypes, disk
<1>7. RowsFromThePast'
  BY <1>1, <1>2, <1>3 DEF SweepInvariant, RowsFromThePast, CampaignTypes, Rows, disk
<1>8. HoldsTheFile' /\ DoneIsHeld'
  BY <1>1 DEF HoldsTheFile, DoneIsHeld
<1>10. Accounted'
  BY <1>1, MatrixType DEF Accounted, Past
<1>11. FilesVouch' /\ RefreshVouches'
  BY <1>1, <1>2, VouchingKeeps
<1>. QED  BY <1>6, <1>7, <1>8, <1>10, <1>11 DEF SweepInvariant

\* What it reads is the file, and counts as complete unless it was forced.
LEMMA LoadExistingKeeps == SweepInvariant /\ LoadExisting => SweepInvariant'
<1>. SUFFICES ASSUME SweepInvariant, LoadExisting PROVE SweepInvariant'
  OBVIOUS
<1>1. CampaignTypes /\ session \in Sessions /\ session.at = "load" /\ Active
  BY ActiveSession DEF SweepInvariant, LoadExisting, SessionStages
<1>2. /\ session' = [session EXCEPT !.at = "probe", !.rows = summary,
                                    !.done = Completed(summary, session.force)]
      /\ UNCHANGED <<binary, disk, clock>>
  BY DEF LoadExisting
<1>3. Completed(summary, session.force) \in SUBSET Identities /\ summary \in SUBSET Rows
  BY <1>1, IdentityType DEF Completed, CampaignTypes
<1>4. /\ session'.at = "probe" /\ session'.number = session.number
      /\ session'.force = session.force /\ session'.next = session.next
      /\ session'.executed = session.executed /\ session'.skipped = session.skipped
      /\ session'.failures = session.failures
      /\ session'.rows = summary /\ session'.done = Completed(summary, session.force)
  BY <1>1, <1>2 DEF Sessions
<1>5. session' \in Sessions
  BY <1>1, <1>2, <1>3 DEF Sessions, SessionStages
<1>6. CampaignTypes'
  BY <1>1, <1>2, <1>5 DEF CampaignTypes, disk
<1>7. RowsFromThePast'
  BY <1>1, <1>2, <1>4 DEF SweepInvariant, RowsFromThePast, disk
<1>8. HoldsTheFile'
  BY <1>2, <1>3, <1>4 DEF HoldsTheFile, disk, Rows
<1>9. DoneIsHeld'
  BY <1>2, <1>4 DEF SweepInvariant, RowsFromThePast, DoneIsHeld, Completed, disk
<1>10. Accounted'
  <2>1. session.next = 1 /\ Past = 0 /\ Past' = 0
    BY <1>1, <1>4 DEF SweepInvariant, Accounted, Past
  <2>. QED  BY <2>1, <1>1, <1>4, MatrixType DEF SweepInvariant, Accounted
<1>11. FilesVouch' /\ RefreshVouches'
  BY <1>2, <1>4, VouchingKeeps
<1>. QED  BY <1>6, <1>7, <1>8, <1>9, <1>10, <1>11 DEF SweepInvariant

\* A step that changes the session's stage and what no other part looks at.
LEMMA StageKeeps ==
    ASSUME SweepInvariant, Active, session' \in Sessions,
           UNCHANGED <<binary, summary, clock>>, manifests' \in Seq(Files), FilesVouch',
           \/ session.at = "probe" /\ session'.at = "next"
           \/ session.at = "write" /\ session'.at = "replace"
           \/ /\ session.at = "next" /\ session'.at = "manifest"
              /\ session.next > Len(Matrix),
           session'.number = session.number, session'.commit = session.commit,
           session'.force = session.force, session'.next = session.next,
           session'.rows = session.rows, session'.done = session.done,
           session'.executed = session.executed, session'.skipped = session.skipped,
           session'.failures = session.failures
    PROVE  SweepInvariant'
<1>1. CampaignTypes /\ session \in Sessions /\ session'.at \in {"next", "replace", "manifest"}
  BY ActiveSession DEF SweepInvariant
<1>2. CampaignTypes' /\ Active'
  BY <1>1 DEF CampaignTypes, Active, SessionStages
<1>3. RowsFromThePast' /\ HoldsTheFile'
  BY <1>1, <1>2 DEF SweepInvariant, RowsFromThePast, HoldsTheFile
<1>4. DoneIsHeld'
  BY <1>2 DEF SweepInvariant, DoneIsHeld
<1>5. Accounted'
  <2>1. Past' = Past
    BY <1>1 DEF Past
  <2>. QED  BY <2>1, <1>1 DEF SweepInvariant, Accounted, RowOf
<1>6. RefreshVouches'
  BY <1>1 DEF RefreshVouches
<1>. QED  BY <1>2, <1>3, <1>4, <1>5, <1>6 DEF SweepInvariant

\* The probes are no part of what the session holds.
LEMMA ProbeBandwidthKeeps == SweepInvariant /\ ProbeBandwidth => SweepInvariant'
<1>. SUFFICES ASSUME SweepInvariant, ProbeBandwidth PROVE SweepInvariant'
  OBVIOUS
<1>1. CampaignTypes /\ session \in Sessions /\ session.at = "probe" /\ Active
  BY ActiveSession DEF SweepInvariant, ProbeBandwidth, SessionStages
<1>2. PICK by \in Answers : session' = [session EXCEPT !.at = "next", !.probedBy = by]
  BY DEF ProbeBandwidth
<1>3. by \in Asked /\ UNCHANGED <<binary, disk, clock>>
  BY <1>1 DEF Answers, Asked, CampaignTypes, ProbeBandwidth
<1>4. session' \in Sessions /\ session'.at = "next"
  BY <1>1, <1>2, <1>3 DEF Sessions, SessionStages
<1>5. FilesVouch' /\ manifests' \in Seq(Files)
  BY <1>1, <1>3, <1>4, VouchingKeeps DEF disk, CampaignTypes
<1>. QED  BY <1>1, <1>2, <1>3, <1>4, <1>5, StageKeeps DEF Sessions, disk

\* The session passes a configuration over, as complete or as failed: it has
\* the file, and everything behind it, as before.
LEMMA PassingOverKeeps ==
    ASSUME SweepInvariant, HasTurn, session' \in Sessions,
           UNCHANGED <<binary, disk, clock>>,
           session'.at = "next", session'.next = session.next + 1,
           session'.number = session.number, session'.commit = session.commit,
           session'.force = session.force, session'.rows = session.rows,
           session'.done = session.done,
           session'.executed + session'.skipped + Len(session'.failures)
             = session.executed + session.skipped + Len(session.failures) + 1,
           \A n \in 1 .. Len(session.failures) :
              /\ n \in 1 .. Len(session'.failures)
              /\ session'.failures[n] = session.failures[n],
           \/ \E i \in 1 .. Len(session'.failures) : session'.failures[i] = Turn
           \/ \E row \in session.rows : RowOf(session.next, row)
    PROVE  SweepInvariant'
<1>. USE DEF HasTurn
<1>1. CampaignTypes /\ session.at = "next" /\ session \in Sessions /\ Active
  BY ActiveSession DEF SweepInvariant, SessionStages
<1>2. CampaignTypes'
  BY <1>1 DEF CampaignTypes, disk
<1>3. Active' /\ session.next \in Nat \ {0} /\ session.next <= Len(Matrix)
  BY <1>1 DEF Active, Sessions, SessionStages
<1>4. RowsFromThePast'
  BY <1>1 DEF SweepInvariant, RowsFromThePast, disk, Active
<1>5. HoldsTheFile'
  BY <1>1 DEF SweepInvariant, HoldsTheFile, disk, Active
<1>6. DoneIsHeld'
  BY <1>1 DEF SweepInvariant, DoneIsHeld, Active
<1>7. Accounted'
  <2>1. Past = session.next - 1 /\ Past' = session.next
    BY <1>1, <1>3 DEF Past
  <2>2. Past' <= Len(Matrix)
    BY <2>1, <1>3
  <2>3. (session.executed + session.skipped + Len(session.failures))' = Past'
    BY <2>1, <1>1, <1>3 DEF SweepInvariant, Accounted
  <2>4. ASSUME NEW n \in 1 .. Past'
        PROVE  \/ \E i \in 1 .. Len(session'.failures) : session'.failures[i] = Matrix[n]
               \/ \E row \in session'.rows : RowOf(n, row)'
    <3>1. CASE n = session.next
      BY <3>1 DEF Turn, RowOf
    <3>2. CASE n # session.next
      <4>1. n \in 1 .. Past
        BY <3>2, <2>1, <2>4, <1>3
      <4>2. \/ \E i \in 1 .. Len(session.failures) : session.failures[i] = Matrix[n]
            \/ \E row \in session.rows : RowOf(n, row)
        BY <4>1, <1>1 DEF SweepInvariant, Accounted
      <4>. QED  BY <4>2 DEF RowOf
    <3>. QED  BY <3>1, <3>2
  <2>. QED  BY <2>2, <2>3, <2>4 DEF Accounted
<1>8. FilesVouch' /\ RefreshVouches'
  BY VouchingKeeps
<1>. QED  BY <1>2, <1>4, <1>5, <1>6, <1>7, <1>8 DEF SweepInvariant

\* The fields a step of a session may change, changed within their types.
LEMMA SessionTypes ==
    ASSUME NEW s \in Sessions, NEW at \in SessionStages,
           NEW next \in Nat \ {0}, NEW lines \in SUBSET Rows,
           NEW done \in SUBSET Identities, NEW executed \in Nat,
           NEW skipped \in Nat, NEW failures \in Seq(DOMAIN Key)
    PROVE  /\ [s EXCEPT !.skipped = skipped, !.next = next] \in Sessions
           /\ [s EXCEPT !.failures = failures, !.next = next] \in Sessions
           /\ [s EXCEPT !.at = at, !.next = next] \in Sessions
           /\ [s EXCEPT !.at = at] \in Sessions
           /\ [s EXCEPT !.at = at, !.rows = lines, !.done = done,
                        !.executed = executed] \in Sessions
  BY DEF Sessions

LEMMA SessionCounts ==
    ASSUME NEW s \in Sessions
    PROVE  /\ s.executed \in Nat /\ s.executed + 1 \in Nat
           /\ s.skipped \in Nat /\ s.skipped + 1 \in Nat
           /\ s.next \in Nat \ {0} /\ s.next + 1 \in Nat \ {0}
           /\ s.failures \in Seq(DOMAIN Key) /\ Len(s.failures) \in Nat
  BY DEF Sessions

LEMMA OneMore ==
    ASSUME NEW e \in Nat, NEW k \in Nat, NEW f \in Nat
    PROVE  /\ (e + 1) + k + f = e + k + f + 1
           /\ e + (k + 1) + f = e + k + f + 1
           /\ e + k + (f + 1) = e + k + f + 1
  OBVIOUS

LEMMA SkipKeeps == SweepInvariant /\ Skip => SweepInvariant'
<1>. SUFFICES ASSUME SweepInvariant, Skip PROVE SweepInvariant'
  OBVIOUS
<1>1. CampaignTypes /\ HasTurn /\ session \in Sessions /\ Active
  BY ActiveSession DEF SweepInvariant, Skip, HasTurn, SessionStages
<1>2. session' = [session EXCEPT !.skipped = session.skipped + 1, !.next = session.next + 1]
  BY DEF Skip
<1>3. session' \in Sessions
  BY <1>1, <1>2, SessionTypes, SessionCounts DEF SessionStages
<1>4. /\ session'.at = "next" /\ session'.next = session.next + 1
      /\ session'.number = session.number /\ session'.commit = session.commit
      /\ session'.rows = session.rows /\ session'.done = session.done
      /\ session'.executed = session.executed /\ session'.skipped = session.skipped + 1
      /\ session'.failures = session.failures
  BY <1>1, <1>2 DEF Sessions, HasTurn
<1>5. session'.force = session.force
  BY <1>1, <1>2 DEF Sessions
<1>6. \E row \in session.rows : RowOf(session.next, row)
  <2>1. PICK row \in session.rows : identity(row) = predicted_identity(Turn, session.commit)
    BY <1>1 DEF Skip, Have, SweepInvariant, DoneIsHeld
  <2>2. row.key = Predicted[Turn] /\ row.commit = session.commit
    BY <2>1 DEF identity, predicted_identity
  <2>. QED  BY <2>2 DEF RowOf, Turn, Names
<1>7. Len(session.failures) \in Nat /\ session.executed \in Nat /\ session.skipped \in Nat
  BY <1>1 DEF Sessions
<1>8. UNCHANGED <<binary, disk, clock>>
  BY DEF Skip
<1>. QED  BY <1>1, <1>3, <1>4, <1>5, <1>6, <1>7, <1>8, PassingOverKeeps

LEMMA RunFailsKeeps == SweepInvariant /\ RunFails => SweepInvariant'
<1>. SUFFICES ASSUME SweepInvariant, RunFails PROVE SweepInvariant'
  OBVIOUS
<1>1. CampaignTypes /\ HasTurn /\ session \in Sessions /\ Active
  BY ActiveSession DEF SweepInvariant, RunFails, HasTurn, SessionStages
<1>2. session' = [session EXCEPT !.failures = Append(session.failures, Turn),
                                 !.next = session.next + 1]
  BY DEF RunFails
<1>3. Turn \in DOMAIN Key
  BY <1>1, MatrixType DEF Turn, HasTurn, Sessions
<1>4. session' \in Sessions
  <2>1. Append(session.failures, Turn) \in Seq(DOMAIN Key)
    BY <1>1, <1>3, SessionCounts
  <2>. QED  BY <1>1, <1>2, <2>1, SessionTypes, SessionCounts DEF SessionStages
<1>5. /\ session'.at = "next" /\ session'.next = session.next + 1
      /\ session'.number = session.number /\ session'.commit = session.commit
      /\ session'.rows = session.rows /\ session'.done = session.done
      /\ session'.executed = session.executed /\ session'.skipped = session.skipped
      /\ session'.failures = Append(session.failures, Turn)
  BY <1>1, <1>2 DEF Sessions, HasTurn
<1>6. session'.force = session.force
  BY <1>1, <1>2 DEF Sessions
<1>7. session.failures \in Seq(DOMAIN Key) /\ session.executed \in Nat /\ session.skipped \in Nat
  BY <1>1 DEF Sessions
<1>8. /\ Len(session'.failures) = Len(session.failures) + 1
      /\ session'.failures[Len(session'.failures)] = Turn
      /\ \A n \in 1 .. Len(session.failures) :
            n \in 1 .. Len(session'.failures) /\ session'.failures[n] = session.failures[n]
  <2>1. session'.failures = Append(session.failures, Turn)
    BY <1>5
  <2>. QED  BY <1>3, <1>7, <2>1
<1>9. \E i \in 1 .. Len(session'.failures) : session'.failures[i] = Turn
  BY <1>7, <1>8
<1>10. session'.executed + session'.skipped + Len(session'.failures)
         = session.executed + session.skipped + Len(session.failures) + 1
  <2>1. session'.executed = session.executed /\ session'.skipped = session.skipped
    BY <1>5
  <2>2. /\ session.executed \in Nat /\ session.skipped \in Nat
        /\ Len(session.failures) \in Nat
    BY <1>1, SessionCounts
  <2>3. Len(session'.failures) = Len(session.failures) + 1
    BY <1>8
  <2>. QED  BY <2>1, <2>2, <2>3, OneMore
<1>11. UNCHANGED <<binary, disk, clock>>
  BY DEF RunFails
<1>. QED  BY <1>1, <1>4, <1>5, <1>6, <1>8, <1>9, <1>10, <1>11, PassingOverKeeps

\* The new row is of this session, so newer than the one it takes the place of.
LEMMA RunPrintsKeeps == SweepInvariant /\ RunPrints => SweepInvariant'
<1>. SUFFICES ASSUME SweepInvariant, RunPrints PROVE SweepInvariant'
  OBVIOUS
<1>1. CampaignTypes /\ HasTurn /\ session \in Sessions /\ Active
  BY ActiveSession DEF SweepInvariant, RunPrints, HasTurn, SessionStages
<1>2. session.next \in 1 .. Len(Matrix) /\ session.at = "next"
  BY <1>1 DEF HasTurn, Sessions
<1>. DEFINE row == [key |-> Key[Turn], commit |-> binary, session |-> session.number]
<1>3. row \in Rows /\ row.session = clock
  BY <1>1, <1>2, MatrixType DEF Rows, Turn, CampaignTypes, Sessions, SweepInvariant, RowsFromThePast
<1>4. row.key = Key[Turn] /\ row.session = session.number
  OBVIOUS
<1>5. session' = [session EXCEPT !.at = "write", !.rows = Merged(session.rows, row),
                                 !.done = session.done \cup {identity(row)},
                                 !.executed = session.executed + 1]
  BY DEF RunPrints
<1>6. UNCHANGED <<binary, disk, clock>>
  BY DEF RunPrints
<1>. HIDE DEF row
<1>7. session.rows \in SUBSET Rows /\ session.done \in SUBSET Identities
  BY <1>1 DEF Sessions
<1>8. Merged(session.rows, row) \in SUBSET Rows /\ identity(row) \in Identities
  BY <1>3, <1>7, MergedRows, IdentityType
<1>9. session' \in Sessions
  <2>1. PICK lines \in SUBSET Rows, done \in SUBSET Identities, executed \in Nat :
           /\ lines = Merged(session.rows, row)
           /\ done = session.done \cup {identity(row)}
           /\ executed = session.executed + 1
    BY <1>1, <1>7, <1>8, SessionCounts
  <2>2. session' = [session EXCEPT !.at = "write", !.rows = lines, !.done = done,
                                   !.executed = executed]
    BY <2>1, <1>5
  <2>. QED  BY <2>2, <1>1 DEF Sessions, SessionStages
<1>10. /\ session'.at = "write" /\ session'.next = session.next
       /\ session'.number = session.number /\ session'.commit = session.commit
       /\ session'.rows = Merged(session.rows, row)
       /\ session'.done = session.done \cup {identity(row)}
       /\ session'.executed = session.executed + 1 /\ session'.skipped = session.skipped
       /\ session'.failures = session.failures
  BY <1>1, <1>5 DEF Sessions
<1>11. session'.force = session.force
  BY <1>1, <1>5 DEF Sessions
<1>12. Active'
  BY <1>10 DEF Active, SessionStages
<1>13. CampaignTypes'
  BY <1>1, <1>6, <1>9 DEF CampaignTypes, disk
<1>14. RowsFromThePast'
  BY <1>1, <1>6, <1>10 DEF SweepInvariant, RowsFromThePast, disk
<1>15. HoldsTheFile'
  <2>1. ASSUME NEW old \in summary
        PROVE  \E new \in Merged(session.rows, row) :
                  identity(new) = identity(old) /\ new.session >= old.session
    <3>0. summary \in SUBSET Rows
      BY <1>1 DEF CampaignTypes
    <3>1. CASE identity(old) = identity(row)
      <4>1. old.session <= clock /\ old.session \in Nat /\ clock \in Nat
        BY <3>0, <1>1 DEF SweepInvariant, RowsFromThePast, Rows, CampaignTypes
      <4>. QED  BY <3>1, <4>1, <1>3, <1>7, MergedRows
    <3>2. CASE identity(old) # identity(row)
      <4>1. PICK new \in session.rows :
               identity(new) = identity(old) /\ new.session >= old.session
        BY <1>1, <1>2 DEF SweepInvariant, HoldsTheFile
      <4>. QED  BY <3>2, <4>1, <1>3, <1>7, MergedRows
    <3>. QED  BY <3>1, <3>2
  <2>. QED  BY <2>1, <1>6, <1>10 DEF HoldsTheFile, disk
<1>16. DoneIsHeld'
  <2>1. \A r \in Merged(session.rows, row) : r.session <= clock
    <3>1. \A r \in session.rows : r.session <= clock
      BY <1>1 DEF SweepInvariant, DoneIsHeld
    <3>. QED  BY <3>1, <1>1, <1>3, <1>7, MergedRows DEF CampaignTypes
  <2>2. ASSUME ~session.force
        PROVE  session.done \cup {identity(row)} = {identity(r) : r \in Merged(session.rows, row)}
    <3>1. session.done = {identity(r) : r \in session.rows}
      BY <2>2, <1>1 DEF SweepInvariant, DoneIsHeld
    <3>. QED  BY <3>1, <1>3, <1>7, MergedIdentities
  <2>. QED  BY <2>1, <2>2, <1>6, <1>10, <1>11 DEF DoneIsHeld
<1>17. Accounted'
  <2>1. Past = session.next - 1 /\ Past' = session.next
    BY <1>2, <1>10 DEF Past
  <2>2. session.executed \in Nat /\ session.skipped \in Nat /\ Len(session.failures) \in Nat
    BY <1>1 DEF Sessions
  <2>3. (session.executed + session.skipped + Len(session.failures))' = Past'
    <3>1. session.executed + session.skipped + Len(session.failures) = session.next - 1
      BY <2>1, <1>1 DEF SweepInvariant, Accounted
    <3>2. /\ session'.executed = session.executed + 1
          /\ session'.skipped = session.skipped
          /\ Len(session'.failures) = Len(session.failures)
      BY <1>10
    <3>3. session.next \in Int
      BY <1>2
    <3>4. session'.executed + session'.skipped + Len(session'.failures)
             = session.executed + session.skipped + Len(session.failures) + 1
      BY <3>2, <2>2, OneMore
    <3>5. (session.next - 1) + 1 = session.next
      BY <3>3
    <3>. QED  BY <3>1, <3>4, <3>5, <2>1
  <2>4. ASSUME NEW n \in 1 .. Past'
        PROVE  \/ \E i \in 1 .. Len(session'.failures) : session'.failures[i] = Matrix[n]
               \/ \E r \in session'.rows : RowOf(n, r)'
    <3>1. CASE n = session.next
      BY <3>1, <1>3, <1>4, <1>7, <1>10, MergedRows DEF RowOf, Turn, Names
    <3>2. CASE n # session.next
      <4>1. n \in 1 .. Past
        BY <3>2, <2>1, <2>4, <1>2
      <4>2. CASE \E i \in 1 .. Len(session.failures) : session.failures[i] = Matrix[n]
        BY <4>2, <1>10
      <4>3. ASSUME NEW r \in session.rows, RowOf(n, r)
            PROVE  \E new \in session'.rows : RowOf(n, new)'
        <5>1. CASE identity(r) = identity(row)
          <6>1. row.key = r.key
            BY <5>1 DEF identity
          <6>. QED  BY <6>1, <4>3, <1>3, <1>4, <1>7, <1>10, MergedRows DEF RowOf
        <5>2. CASE identity(r) # identity(row)
          BY <5>2, <4>3, <1>3, <1>7, <1>10, MergedRows DEF RowOf
        <5>. QED  BY <5>1, <5>2
      <4>. QED  BY <4>1, <4>2, <4>3, <1>1 DEF SweepInvariant, Accounted
    <3>. QED  BY <3>1, <3>2
  <2>. QED  BY <2>1, <2>3, <2>4, <1>2, <1>10 DEF Accounted
<1>18. FilesVouch' /\ RefreshVouches'
  BY <1>6, <1>10, VouchingKeeps
<1>. QED  BY <1>13, <1>14, <1>15, <1>16, <1>17, <1>18 DEF SweepInvariant

\* Nothing of the session but its position in the writing of the file changes.
LEMMA WriteTemporaryKeeps == SweepInvariant /\ WriteTemporary => SweepInvariant'
<1>. SUFFICES ASSUME SweepInvariant, WriteTemporary PROVE SweepInvariant'
  OBVIOUS
<1>1. CampaignTypes /\ session \in Sessions /\ Active /\ session.at = "write"
  BY ActiveSession DEF SweepInvariant, WriteTemporary, SessionStages
<1>2. session' = [session EXCEPT !.at = "replace"] /\ UNCHANGED <<binary, disk, clock>>
  BY DEF WriteTemporary
<1>3. session' \in Sessions /\ session'.at = "replace"
  BY <1>1, <1>2 DEF Sessions, SessionStages
<1>4. FilesVouch' /\ manifests' \in Seq(Files)
  BY <1>1, <1>2, <1>3, VouchingKeeps DEF disk, CampaignTypes
<1>. QED  BY <1>1, <1>2, <1>3, <1>4, StageKeeps DEF Sessions, disk

\* The file becomes what the session holds.
LEMMA ReplaceKeeps == SweepInvariant /\ Replace => SweepInvariant'
<1>. SUFFICES ASSUME SweepInvariant, Replace PROVE SweepInvariant'
  OBVIOUS
<1>1. CampaignTypes /\ session \in Sessions /\ Active /\ session.at = "replace"
  BY ActiveSession DEF SweepInvariant, Replace, SessionStages
<1>2. /\ session' = [session EXCEPT !.at = "next", !.next = session.next + 1]
      /\ summary' = session.rows
      /\ UNCHANGED <<binary, manifests, clock>>
  BY DEF Replace
<1>3. session' \in Sessions
  BY <1>1, <1>2, SessionTypes, SessionCounts DEF SessionStages
<1>4. /\ session'.at = "next" /\ session'.next = session.next + 1
      /\ session'.number = session.number /\ session'.commit = session.commit
      /\ session'.rows = session.rows /\ session'.done = session.done
      /\ session'.executed = session.executed /\ session'.skipped = session.skipped
      /\ session'.failures = session.failures
  BY <1>1, <1>2 DEF Sessions
<1>5. session'.force = session.force
  BY <1>1, <1>2 DEF Sessions
<1>6. Active'
  BY <1>4 DEF Active, SessionStages
<1>7. session.rows \in SUBSET Rows
  BY <1>1 DEF Sessions
<1>8. CampaignTypes'
  BY <1>1, <1>2, <1>3, <1>7 DEF CampaignTypes
<1>9. RowsFromThePast'
  BY <1>1, <1>2, <1>4, <1>6 DEF SweepInvariant, RowsFromThePast, DoneIsHeld
<1>10. HoldsTheFile'
  BY <1>2, <1>4, <1>7 DEF HoldsTheFile, Rows
<1>11. DoneIsHeld'
  BY <1>1, <1>2, <1>4, <1>5 DEF SweepInvariant, DoneIsHeld
<1>12. Accounted'
  <2>1. Past' = Past
    BY <1>1, <1>4, SessionCounts DEF Past
  <2>. QED  BY <2>1, <1>1, <1>4 DEF SweepInvariant, Accounted, RowOf
<1>13. FilesVouch'
  <2>1. summary \in SUBSET Rows
    BY <1>1 DEF CampaignTypes
  <2>2. \A old \in summary : \E new \in session.rows : identity(new) = identity(old)
    BY <1>1 DEF SweepInvariant, HoldsTheFile
  <2>3. ASSUME NEW i \in 1 .. Len(manifests), manifests[i].text # Torn
        PROVE  Vouches(manifests[i].text, manifests[i].commit, session.rows)
    <3>1. Vouches(manifests[i].text, manifests[i].commit, summary)
      BY <2>3 DEF SweepInvariant, FilesVouch
    <3>. QED  BY <3>1, <2>1, <2>2, <1>7, CoversLater DEF Vouches
  <2>. QED  BY <2>3, <1>2 DEF FilesVouch
<1>14. RefreshVouches'
  BY <1>4 DEF RefreshVouches
<1>. QED  BY <1>8, <1>9, <1>10, <1>11, <1>12, <1>13, <1>14 DEF SweepInvariant

\* A file placed among files that vouch, itself torn or vouching.
LEMMA PlacedVouch ==
    ASSUME CampaignTypes, FilesVouch, UNCHANGED summary, NEW i \in Nat, NEW file \in Files,
           manifests' = Placed(manifests, i, file),
           file.text # Torn => Vouches(file.text, file.commit, summary)
    PROVE  manifests' \in Seq(Files) /\ FilesVouch'
<1>1. manifests \in Seq(Files)
  BY DEF CampaignTypes
<1>2. /\ manifests' \in Seq(Files)
      /\ \A j \in 1 .. Len(manifests') :
            manifests'[j] = file \/ (j \in 1 .. Len(manifests) /\ manifests'[j] = manifests[j])
  BY <1>1, PlacedFiles
<1>. QED  BY <1>2 DEF FilesVouch

\* A manifest still torn says nothing of the rows.
LEMMA OpenManifestKeeps == SweepInvariant /\ OpenManifest => SweepInvariant'
<1>. SUFFICES ASSUME SweepInvariant, OpenManifest PROVE SweepInvariant'
  OBVIOUS
<1>1. CampaignTypes /\ session \in Sessions /\ session.at = "next" /\ Active
  BY ActiveSession DEF SweepInvariant, OpenManifest, SessionStages
<1>. DEFINE file == [commit |-> session.commit, text |-> Torn]
<1>2. file \in Files /\ Len(manifests) + 1 \in Nat
  BY <1>1 DEF Files, Sessions, CampaignTypes
<1>3. /\ manifests' = Placed(manifests, Len(manifests) + 1, file) /\ file.text = Torn
      /\ session' = [session EXCEPT !.at = "manifest"] /\ session.next > Len(Matrix)
      /\ UNCHANGED <<binary, summary, clock>>
  BY DEF OpenManifest
<1>. HIDE DEF file
<1>4. manifests' \in Seq(Files) /\ FilesVouch'
  BY <1>1, <1>2, <1>3, PlacedVouch DEF SweepInvariant
<1>5. session' \in Sessions
  BY <1>1, <1>3 DEF SessionStages, Sessions
<1>. QED  BY <1>1, <1>3, <1>4, <1>5, StageKeeps DEF Sessions

\* The text of a session that is through its matrix vouches for its commit: a
\* row it measured is at that commit, or shows that the binary was rebuilt.
LEMMA WriteManifestKeeps == SweepInvariant /\ WriteManifest => SweepInvariant'
<1>. SUFFICES ASSUME SweepInvariant, WriteManifest PROVE SweepInvariant'
  OBVIOUS
<1>1. CampaignTypes /\ session \in Sessions /\ session.at = "manifest" /\ Active
  BY ActiveSession DEF SweepInvariant, WriteManifest, SessionStages
<1>. DEFINE text == [session |-> session.number, commit |-> session.commit,
                     probedBy |-> session.probedBy, declared |-> Len(Matrix),
                     failures |-> session.failures]
            file == [commit |-> session.commit, text |-> text]
<1>2. text \in Texts /\ file \in Files /\ Len(manifests) \in Nat
  BY <1>1, MatrixType DEF Files, Texts, Sessions, CampaignTypes
<1>3. /\ manifests' = Placed(manifests, Len(manifests), file)
      /\ session' = Idle /\ UNCHANGED <<binary, summary, clock>>
  BY DEF WriteManifest
<1>4. text.commit = session.commit /\ text.failures = session.failures
  OBVIOUS
<1>5. file.text = text /\ file.commit = session.commit
  OBVIOUS
<1>. HIDE DEF text, file
<1>6. Covers(text, summary)
  <2>. SUFFICES ASSUME NEW n \in 1 .. Len(Matrix), ~Listed(session.failures, n)
       PROVE  \/ \E row \in summary : row.key \in Names(Matrix[n]) /\ row.commit = session.commit
              \/ \E row \in summary : row.commit # session.commit
    BY <1>4 DEF Covers
  <2>1. Past = Len(Matrix)
    BY <1>1, MatrixType, SessionCounts DEF SweepInvariant, Accounted, Past
  <2>2. PICK row \in session.rows : RowOf(n, row)
    BY <2>1, <1>1 DEF SweepInvariant, Accounted, Listed
  <2>3. session.rows = summary
    BY <1>1 DEF SweepInvariant, HoldsTheFile
  <2>. QED  BY <2>2, <2>3 DEF RowOf
<1>7. manifests' \in Seq(Files) /\ FilesVouch'
  BY <1>1, <1>2, <1>3, <1>4, <1>5, <1>6, PlacedVouch DEF SweepInvariant, Vouches
<1>8. CampaignTypes' /\ ~Active' /\ RefreshVouches'
  BY <1>1, <1>3, <1>7 DEF CampaignTypes, Active, SessionStages, Idle, RefreshVouches
<1>. QED  BY <1>3, <1>7, <1>8, NoSessionKeeps

\* Whatever was under way, what is on disk stays as it is.
LEMMA InterruptKeeps == SweepInvariant /\ Interrupt => SweepInvariant'
<1>. SUFFICES ASSUME SweepInvariant, Interrupt PROVE SweepInvariant'
  OBVIOUS
<1>1. session' = Idle /\ UNCHANGED <<binary, disk, clock>>
  BY DEF Interrupt
<1>2. CampaignTypes' /\ ~Active'
  BY <1>1 DEF SweepInvariant, CampaignTypes, disk, Active, SessionStages, Idle
<1>3. FilesVouch' /\ RefreshVouches'
  BY <1>1, VouchingKeeps DEF Idle
<1>. QED  BY <1>1, <1>2, <1>3, NoSessionKeeps DEF disk

\* The manifest a refresh picks is of the commit it asked for.
LEMMA StartRefreshKeeps == SweepInvariant /\ StartRefresh => SweepInvariant'
<1>. SUFFICES ASSUME SweepInvariant, StartRefresh PROVE SweepInvariant'
  OBVIOUS
<1>1. CampaignTypes
  BY DEF SweepInvariant
<1>2. PICK commit \in Answers :
        session' = [at |-> "reprobe", number |-> clock + 1, commit |-> commit,
                    target |-> IF ManifestsFor(commit) = {}
                                 THEN Len(manifests) + 1
                                 ELSE Newest(ManifestsFor(commit))]
  BY DEF StartRefresh
<1>3. clock' = clock + 1 /\ UNCHANGED <<binary, disk>>
  BY DEF StartRefresh
<1>4. ASSUME ManifestsFor(commit) # {} PROVE Newest(ManifestsFor(commit)) \in Nat
  <2>1. Len(manifests) \in Nat /\ ManifestsFor(commit) \in SUBSET (1 .. Len(manifests))
    BY <1>1 DEF CampaignTypes, ManifestsFor
  <2>2. Newest(ManifestsFor(commit)) \in ManifestsFor(commit)
    BY <1>4, <2>1, NewestIsAPlace
  <2>. QED  BY <2>1, <2>2
<1>5. session' \in Refreshes /\ session'.at = "reprobe"
  BY <1>1, <1>2, <1>4 DEF Refreshes, CampaignTypes, Answers, Asked
<1>6. CampaignTypes' /\ ~Active'
  BY <1>1, <1>3, <1>5 DEF CampaignTypes, disk, Active, SessionStages
<1>7. FilesVouch'
  BY <1>3 DEF SweepInvariant, FilesVouch, disk
<1>8. RefreshVouches'
  <2>1. Len(manifests) \in Nat /\ ManifestsFor(commit) \in SUBSET (1 .. Len(manifests))
    BY <1>1 DEF CampaignTypes, ManifestsFor
  <2>2. CASE ManifestsFor(commit) = {}
    <3>1. session'.target = Len(manifests) + 1
      BY <2>2, <1>2
    <3>. QED  BY <3>1, <2>1, <1>3, <1>5 DEF RefreshVouches, disk
  <2>3. CASE ManifestsFor(commit) # {}
    <3>1. session'.target = Newest(ManifestsFor(commit)) /\ session'.commit = commit
      BY <2>3, <1>2
    <3>2. Newest(ManifestsFor(commit)) \in ManifestsFor(commit)
      BY <2>1, <2>3, NewestIsAPlace
    <3>. QED  BY <3>1, <3>2, <1>3, <1>5 DEF RefreshVouches, disk, ManifestsFor
  <2>. QED  BY <2>2, <2>3
<1>. QED  BY <1>3, <1>6, <1>7, <1>8, NoSessionKeeps DEF disk

\* What a refresh reads vouches for its commit, and the new probes are no part of
\* that; a manifest of the refresh's own declares nothing.
LEMMA ReprobeKeeps == SweepInvariant /\ Reprobe => SweepInvariant'
<1>. SUFFICES ASSUME SweepInvariant, Reprobe PROVE SweepInvariant'
  OBVIOUS
<1>1. /\ CampaignTypes /\ session.at = "reprobe"
      /\ session \in [at : {"reprobe"}, number : Nat, commit : Asked, target : Nat]
  BY ActiveSession DEF SweepInvariant, Reprobe
<1>2. UNCHANGED <<binary, disk, clock>>
  BY DEF Reprobe
<1>3. FilesVouch'
  BY <1>2 DEF SweepInvariant, FilesVouch, disk
<1>4. CASE session' = Idle
  <2>1. CampaignTypes' /\ ~Active' /\ RefreshVouches'
    BY <1>1, <1>2, <1>4 DEF CampaignTypes, disk, Active, SessionStages, Idle, RefreshVouches
  <2>. QED  BY <2>1, <1>2, <1>3, NoSessionKeeps DEF disk
<1>5. CASE session' # Idle
  <2>1. PICK by \in Answers :
          session' = [at |-> "reopen", target |-> session.target, commit |-> session.commit,
                      text |-> [Document EXCEPT !.probedBy = by]]
    BY <1>5 DEF Reprobe
  <2>2. Document # Torn /\ by \in Asked
    BY <1>1, <1>5 DEF Reprobe, Answers, Asked, CampaignTypes
  <2>3. Document \in Texts /\ Vouches(Document, session.commit, summary)
    <3>1. CASE session.target \in DOMAIN manifests
      <4>1. Document = manifests[session.target].text /\ session.target \in 1 .. Len(manifests)
        BY <3>1, <1>1 DEF Document, CampaignTypes
      <4>2. manifests[session.target] \in Files
        BY <4>1, <1>1 DEF CampaignTypes
      <4>3. manifests[session.target].commit = session.commit
        BY <4>1, <1>1 DEF SweepInvariant, RefreshVouches
      <4>4. Vouches(Document, session.commit, summary)
        BY <4>1, <4>3, <2>2 DEF SweepInvariant, FilesVouch
      <4>. QED  BY <4>1, <4>2, <4>4, <2>2 DEF Files
    <3>2. CASE session.target \notin DOMAIN manifests
      <4>1. Document = ProbesAlone
        BY <3>2 DEF Document
      <4>2. /\ ProbesAlone \in Texts /\ ProbesAlone.declared = 0
            /\ ProbesAlone.commit = session.commit
        BY <1>1 DEF ProbesAlone, Texts, Asked
      <4>. QED  BY <4>1, <4>2 DEF Vouches, Covers
    <3>. QED  BY <3>1, <3>2
  <2>4. PICK text \in Texts : text = [Document EXCEPT !.probedBy = by]
    BY <2>2, <2>3 DEF Texts
  <2>5. Vouches(text, session.commit, summary)
    <3>1. /\ text.commit = Document.commit /\ text.declared = Document.declared
          /\ text.failures = Document.failures
      BY <2>3, <2>4 DEF Texts
    <3>. QED  BY <3>1, <2>3 DEF Vouches, Covers
  <2>6. session' = [at |-> "reopen", target |-> session.target, commit |-> session.commit,
                    text |-> text]
    BY <2>1, <2>4
  <2>7. session' \in Refreshes /\ session'.at = "reopen"
    BY <1>1, <2>6 DEF Refreshes
  <2>8. CampaignTypes' /\ ~Active'
    BY <1>1, <1>2, <2>7 DEF CampaignTypes, disk, Active, SessionStages
  <2>9. RefreshVouches'
    BY <1>2, <2>5, <2>6 DEF RefreshVouches, disk
  <2>. QED  BY <1>2, <1>3, <2>8, <2>9, NoSessionKeeps DEF disk
<1>. QED  BY <1>4, <1>5

\* The refresh empties its manifest and still has in hand what it will write.
LEMMA ReopenManifestKeeps == SweepInvariant /\ ReopenManifest => SweepInvariant'
<1>. SUFFICES ASSUME SweepInvariant, ReopenManifest PROVE SweepInvariant'
  OBVIOUS
<1>1. /\ CampaignTypes /\ session.at = "reopen"
      /\ session \in [at : {"reopen", "rewrite"}, target : Nat, commit : Asked, text : Texts]
  BY ActiveSession DEF SweepInvariant, ReopenManifest
<1>. DEFINE file == [commit |-> session.commit, text |-> Torn]
<1>2. file \in Files /\ session.target \in Nat
  BY <1>1 DEF Files
<1>3. /\ manifests' = Placed(manifests, session.target, file) /\ file.text = Torn
      /\ session' = [session EXCEPT !.at = "rewrite"] /\ UNCHANGED <<binary, summary, clock>>
  BY DEF ReopenManifest
<1>. HIDE DEF file
<1>4. manifests' \in Seq(Files) /\ FilesVouch'
  BY <1>1, <1>2, <1>3, PlacedVouch DEF SweepInvariant
<1>5. /\ session' \in Refreshes /\ session'.at = "rewrite"
      /\ session'.text = session.text /\ session'.commit = session.commit
  BY <1>1, <1>3 DEF Refreshes
<1>6. CampaignTypes' /\ ~Active'
  BY <1>1, <1>3, <1>4, <1>5 DEF CampaignTypes, Active, SessionStages
<1>7. RefreshVouches'
  BY <1>1, <1>3, <1>5 DEF SweepInvariant, RefreshVouches
<1>. QED  BY <1>3, <1>4, <1>6, <1>7, NoSessionKeeps

\* The refresh writes back a text that vouches for its commit.
LEMMA RewriteManifestKeeps == SweepInvariant /\ RewriteManifest => SweepInvariant'
<1>. SUFFICES ASSUME SweepInvariant, RewriteManifest PROVE SweepInvariant'
  OBVIOUS
<1>1. /\ CampaignTypes /\ session.at = "rewrite"
      /\ session \in [at : {"reopen", "rewrite"}, target : Nat, commit : Asked, text : Texts]
  BY ActiveSession DEF SweepInvariant, RewriteManifest
<1>. DEFINE file == [commit |-> session.commit, text |-> session.text]
<1>2. file \in Files /\ session.target \in Nat
  BY <1>1 DEF Files
<1>3. /\ manifests' = Placed(manifests, session.target, file)
      /\ session' = Idle /\ UNCHANGED <<binary, summary, clock>>
  BY DEF RewriteManifest
<1>4. Vouches(file.text, file.commit, summary)
  BY <1>1 DEF SweepInvariant, RefreshVouches
<1>. HIDE DEF file
<1>5. manifests' \in Seq(Files) /\ FilesVouch'
  BY <1>1, <1>2, <1>3, <1>4, PlacedVouch DEF SweepInvariant
<1>6. CampaignTypes' /\ ~Active' /\ RefreshVouches'
  BY <1>1, <1>3, <1>5 DEF CampaignTypes, Active, SessionStages, Idle, RefreshVouches
<1>. QED  BY <1>3, <1>5, <1>6, NoSessionKeeps

\* A rebuilt binary changes no file and no memory of the session.
LEMMA UnchangedKeeps ==
    ASSUME SweepInvariant, binary' \in Commits,
           UNCHANGED <<disk, clock, session>>
    PROVE  SweepInvariant'
  BY DEF SweepInvariant, CampaignTypes, RowsFromThePast, HoldsTheFile, DoneIsHeld, Accounted,
         FilesVouch, RefreshVouches, Active, Past, RowOf, disk

LEMMA InvariantHolds == CampaignSpec => []SweepInvariant
<1>1. SweepInvariant /\ [CampaignNext]_campaignVars => SweepInvariant'
  <2>. SUFFICES ASSUME SweepInvariant, [CampaignNext]_campaignVars PROVE SweepInvariant'
    OBVIOUS
  <2>1. CASE Rebuild
    BY <2>1, UnchangedKeeps DEF Rebuild
  <2>2. CASE UNCHANGED campaignVars
    BY <2>2, UnchangedKeeps DEF campaignVars, disk, SweepInvariant, CampaignTypes
  <2>. QED
    BY <2>1, <2>2, StartSessionKeeps, LoadExistingKeeps, ProbeBandwidthKeeps, SkipKeeps,
       RunFailsKeeps, RunPrintsKeeps, WriteTemporaryKeeps, ReplaceKeeps, OpenManifestKeeps,
       WriteManifestKeeps, StartRefreshKeeps, ReprobeKeeps, ReopenManifestKeeps,
       RewriteManifestKeeps, InterruptKeeps DEF CampaignNext
<1>. QED  BY <1>1, InitHolds, PTL DEF CampaignSpec

-----------------------------------------------------------------------------
(* The theorems *)

(***************************************************************************)
(* Whatever the matrix, the commits, the number of sessions and the        *)
(* moment at which the generator is run, a generation it publishes is      *)
(* whole: its manifest vouched for every configuration when it was         *)
(* written, no identity has left the summary since, and a row of another   *)
(* commit, which a rebuilt binary leaves, makes the generator refuse.      *)
(***************************************************************************)
THEOREM PublishedIsWholeHolds == CampaignSpec => []PublishedIsWhole
<1>1. SweepInvariant => PublishedIsWhole
  <2>. SUFFICES ASSUME SweepInvariant, NEW p \in Published, p.manifest.declared > 0,
                       NEW n \in DOMAIN Matrix,
                       Matrix[n] \notin ToSet(p.manifest.failures)
                PROVE  \E row \in p.rows : /\ row.key \in Names(Matrix[n])
                                           /\ row.commit = p.manifest.commit
    BY DEF PublishedIsWhole
  <2>1. CampaignTypes
    BY DEF SweepInvariant
  <2>2. PICK commit \in SelectGeneration(summary) :
          /\ ManifestsFor(commit) # {}
          /\ manifests[Newest(ManifestsFor(commit))].text # Torn
          /\ p = [rows |-> summary, manifest |-> manifests[Newest(ManifestsFor(commit))].text]
    BY DEF Published
  <2>. DEFINE i == Newest(ManifestsFor(commit))
  <2>3. i \in ManifestsFor(commit) /\ i \in 1 .. Len(manifests)
    <3>1. Len(manifests) \in Nat /\ ManifestsFor(commit) \in SUBSET (1 .. Len(manifests))
      BY <2>1 DEF CampaignTypes, ManifestsFor
    <3>. QED  BY <3>1, <2>2, NewestIsAPlace
  <2>. HIDE DEF i
  <2>4. /\ p.rows = summary /\ p.manifest = manifests[i].text
        /\ manifests[i].text # Torn /\ manifests[i].commit = commit
    BY <2>2, <2>3 DEF i, ManifestsFor
  <2>5. Vouches(p.manifest, commit, summary)
    BY <2>3, <2>4 DEF SweepInvariant, FilesVouch
  <2>6. p.manifest \in Texts
    <3>1. manifests[i] \in Files
      BY <2>1, <2>3 DEF CampaignTypes
    <3>. QED  BY <3>1, <2>4 DEF Files
  <2>7. ~Listed(p.manifest.failures, n)
    BY <2>6 DEF Texts, Listed, ToSet
  <2>8. \A row \in summary : row.commit = commit
    BY <2>2 DEF SelectGeneration, CommitsIn
  <2>9. n \in 1 .. Len(Matrix)
    BY SweepAssumption
  <2>. QED  BY <2>4, <2>5, <2>7, <2>8, <2>9 DEF Vouches, Covers
<1>. QED  BY <1>1, InvariantHolds, PTL

(***************************************************************************)
(* Wherever a session is interrupted and whatever the binary becomes, a    *)
(* row leaves the summary only for one of the same identity that is not    *)
(* older.  Only the replacement of the file changes it, and what replaces  *)
(* it holds every row of it or a newer one.                                *)
(***************************************************************************)
THEOREM NoMeasurementLostHolds == CampaignSpec => NoMeasurementLost
<1>1. ASSUME SweepInvariant, [CampaignNext]_campaignVars
      PROVE  [\A old \in summary : \E new \in summary' :
                identity(new) = identity(old) /\ new.session >= old.session]_campaignVars
  <2>1. CASE Replace
    <3>1. Active /\ session.at # "load"
      BY <2>1 DEF Replace, Active, SessionStages
    <3>. QED  BY <3>1, <2>1, <1>1 DEF SweepInvariant, HoldsTheFile, Replace
  <2>2. CASE summary' = summary
    BY <2>2, <1>1 DEF SweepInvariant, CampaignTypes, Rows
  <2>3. Replace \/ summary' = summary
    BY <1>1 DEF CampaignNext, campaignVars, disk, StartSession, LoadExisting, ProbeBandwidth, Skip,
                RunFails, RunPrints, WriteTemporary, OpenManifest, WriteManifest, StartRefresh,
                Reprobe, ReopenManifest, RewriteManifest, Interrupt, Rebuild
  <2>. QED  BY <2>1, <2>2, <2>3
<1>. QED  BY <1>1, InvariantHolds, PTL DEF CampaignSpec, NoMeasurementLost

\* Only a run that printed its row leads from the loop to the writing.
LEMMA WritingFollowsARun ==
    ASSUME CampaignTypes, [CampaignNext]_campaignVars, session.at = "next", session'.at = "write"
    PROVE  RunPrints
<1>1. session \in Sessions
  BY ActiveSession DEF SessionStages
<1>2. ~Skip /\ ~RunFails /\ ~OpenManifest
  BY <1>1 DEF Skip, RunFails, OpenManifest, Sessions
<1>3. /\ ~WriteTemporary /\ ~Replace /\ ~StartSession /\ ~LoadExisting /\ ~ProbeBandwidth
      /\ ~WriteManifest /\ ~StartRefresh /\ ~Reprobe /\ ~ReopenManifest /\ ~RewriteManifest
  BY DEF WriteTemporary, Replace, StartSession, LoadExisting, ProbeBandwidth, WriteManifest,
         StartRefresh, Reprobe, ReopenManifest, RewriteManifest
<1>4. ~Interrupt
  BY DEF Interrupt, Idle
<1>5. session' # session
  OBVIOUS
<1>6. ~Rebuild /\ ~UNCHANGED campaignVars
  BY <1>5 DEF Rebuild, campaignVars
<1>. QED  BY <1>2, <1>3, <1>4, <1>6 DEF CampaignNext

(***************************************************************************)
(* No session that was not forced runs a configuration for which the       *)
(* summary on disk has a row at the session's commit, whatever was done    *)
(* before it began: what is on disk is held, and what is held is done.     *)
(***************************************************************************)
THEOREM ResumeRedoesNothingHolds == CampaignSpec => ResumeRedoesNothing
<1>1. ASSUME SweepInvariant, [CampaignNext]_campaignVars
      PROVE  [session.at = "next" /\ session'.at = "write" /\ ~session.force
                /\ Predicted[Turn] = Key[Turn] =>
                \A row \in summary :
                   ~ (row.key = Key[Turn] /\ row.commit = session.commit)]_campaignVars
  <2>. SUFFICES ASSUME session.at = "next", session'.at = "write", ~session.force,
                       Predicted[Turn] = Key[Turn],
                       NEW row \in summary,
                       row.key = Key[Turn], row.commit = session.commit
                PROVE  FALSE
    OBVIOUS
  <2>1. ~Have
    BY <1>1, WritingFollowsARun DEF RunPrints, SweepInvariant
  <2>2. Active
    BY DEF Active, SessionStages
  <2>3. PICK held \in session.rows : identity(held) = identity(row)
    BY <1>1, <2>2 DEF SweepInvariant, HoldsTheFile
  <2>4. identity(row) \in session.done
    BY <1>1, <2>2, <2>3 DEF SweepInvariant, DoneIsHeld
  <2>5. predicted_identity(Turn, session.commit) = identity(row)
    BY DEF predicted_identity, identity
  <2>. QED  BY <2>1, <2>4, <2>5 DEF Have
<1>. QED  BY <1>1, InvariantHolds, PTL DEF CampaignSpec, ResumeRedoesNothing

(***************************************************************************)
(* A session of any length that writes its manifest has accounted for      *)
(* every configuration of its matrix, in its counts and in the file.       *)
(***************************************************************************)
THEOREM FinishedMeansMeasuredHolds == CampaignSpec => FinishedMeansMeasured
<1>1. ASSUME SweepInvariant
      PROVE  session.at = "manifest" =>
                /\ session.executed + session.skipped + Len(session.failures)
                      = Len(Matrix)
                /\ \A n \in DOMAIN Matrix :
                      \/ Matrix[n] \in ToSet(session.failures)
                      \/ \E row \in summary :
                            /\ row.key \in Names(Matrix[n])
                            /\ \/ row.commit = session.commit
                               \/ row.session = session.number
  <2>. DEFINE Measured(n) ==
                \/ Matrix[n] \in ToSet(session.failures)
                \/ \E row \in summary :
                      /\ row.key \in Names(Matrix[n])
                      /\ row.commit = session.commit \/ row.session = session.number
              Everything ==
                /\ session.executed + session.skipped + Len(session.failures) = Len(Matrix)
                /\ \A n \in DOMAIN Matrix : Measured(n)
  <2>. SUFFICES ASSUME session.at = "manifest"
                PROVE  Everything
    OBVIOUS
  <2>1. CampaignTypes /\ Active /\ session \in Sessions
    BY <1>1, ActiveSession DEF SweepInvariant, Active, SessionStages
  <2>2. session.next > Len(Matrix)
    BY <1>1, <2>1 DEF SweepInvariant, Accounted
  <2>3. Past = Len(Matrix)
    BY <1>1, <2>1, <2>2, MatrixType, SessionCounts DEF SweepInvariant, Accounted, Past
  <2>4. session.rows = summary
    BY <1>1 DEF SweepInvariant, HoldsTheFile
  <2>5. ASSUME NEW n \in DOMAIN Matrix PROVE Measured(n)
    <3>1. n \in 1 .. Past
      BY <2>3, MatrixType, SweepAssumption
    <3>2. \/ \E i \in 1 .. Len(session.failures) : session.failures[i] = Matrix[n]
          \/ \E row \in session.rows : RowOf(n, row)
      BY <3>1, <1>1, <2>1 DEF SweepInvariant, Accounted
    <3>3. CASE \E i \in 1 .. Len(session.failures) : session.failures[i] = Matrix[n]
      <4>1. session.failures \in Seq(DOMAIN Key)
        BY <2>1, SessionCounts
      <4>. QED  BY <3>3, <4>1 DEF ToSet
    <3>4. CASE \E row \in session.rows : RowOf(n, row)
      BY <3>4, <2>4 DEF RowOf
    <3>. QED  BY <3>2, <3>3, <3>4
  <2>6. session.executed + session.skipped + Len(session.failures) = Len(Matrix)
    BY <1>1, <2>1, <2>3 DEF SweepInvariant, Accounted
  <2>. QED  BY <2>5, <2>6
<1>. QED  BY <1>1, InvariantHolds, PTL DEF CampaignSpec, FinishedMeansMeasured

-----------------------------------------------------------------------------
(* A job of it. *)

USE JobAssumption DEF JobAssumption

Whole == Repetitions + 1

\* Ranks past the last closing barrier with nothing thrown.
Through == {"report", "finalize", "finalizing", "returned"}

\* The repetitions finished bound the collective calls entered, and the
\* place in the repetition fixes them.
Counts(r) ==
    /\ 3 * rep[r] <= entered[r]
    /\ entered[r] <= 3 * rep[r] + 2
    /\ pc[r] \in {"init", "make_backend"} => rep[r] = 0 /\ entered[r] = 0
    /\ pc[r] = "reset" => entered[r] = 3 * rep[r] /\ rep[r] <= Repetitions
    /\ pc[r] \in {"barrier_in", "solve"} =>
         entered[r] = 3 * rep[r] + 1 /\ rep[r] <= Repetitions
    /\ pc[r] \in {"exchange", "finish"} =>
         entered[r] = 3 * rep[r] + 2 /\ rep[r] <= Repetitions
    /\ pc[r] = "barrier_out" => entered[r] = 3 * rep[r]

AllEnteredTheLast == \A q \in Ranks : entered[q] >= 3 * Whole

\* Nothing that rank r did says otherwise.
Honest(r) ==
    /\ pc[r] = "caught" => status[r] # 0
    /\ pc[r] = "killed" => aborted # 0
    /\ pc[r] \in Through => AllEnteredTheLast

\* The one row, and where the root is when it is there.
RowInv ==
    /\ rows \in {0, 1}
    /\ rows = 1 => AllEnteredTheLast
    /\ rows = 1 => pc[Root] \in {"finalize", "finalizing", "returned", "killed"}
    /\ pc[Root] \in {"finalize", "finalizing", "returned"} => rows = 1

Inv ==
    /\ TypeOK
    /\ \A r \in Ranks : Counts(r)
    /\ \A r \in Ranks : Honest(r)
    /\ RowInv

LEMMA RootIsARank == Root \in Ranks
  BY DEF Root, Ranks

LEMMA InitInv == Init => Inv
  BY DEF Init, Inv, TypeOK, Counts, Honest, RowInv, Working, Local, Waiting,
         Ended, Through, Root, Ranks

(***************************************************************************)
(* Every step keeps the types and the counts.                              *)
(***************************************************************************)
LEMMA StepCounts ==
  ASSUME Inv, NEW r \in Ranks, Step(r) \/ Throw(r)
  PROVE  TypeOK' /\ \A q \in Ranks : Counts(q)'
<1> USE DEF Inv, TypeOK, Goto, Working, Local, Waiting, Ended, Counts, Honest,
            Through, Whole
<1>0. solver' = solver
  BY DEF Step, Throw
<1>1. CASE StartMpi(r)
  BY <1>0, <1>1 DEF StartMpi, Abort
<1>2. CASE MakeBackend(r)
  <2>1. /\ rep' = rep /\ entered' = entered /\ rows' = rows
        /\ aborted' = aborted /\ pinning' \in [Ranks -> {"not_requested", "bound", "refused"}]
    BY <1>0, <1>2 DEF MakeBackend
  <2>2. CASE solver = "applicable"
    BY <1>0, <1>2, <2>1, <2>2 DEF MakeBackend
  <2>3. CASE solver # "applicable"
    <3>1. Caught(3) = 3
      BY DEF Caught
    <3>2. /\ status' = [status EXCEPT ![r] = 3]
          /\ pc' = [pc EXCEPT ![r] = "caught"]
      BY <1>0, <1>2, <2>3, <3>1 DEF MakeBackend
    <3>3. TypeOK'
      BY <1>0, <2>1, <3>2
    <3> QED
      BY <1>0, <1>2, <2>1, <3>2, <3>3 DEF MakeBackend
  <2> QED
    BY <2>2, <2>3
<1>3. CASE ResetWorkspace(r) \/ Exchange(r)
  <2>1. CASE ResetWorkspace(r)
    BY <1>0, <2>1 DEF ResetWorkspace, Enter
  <2>2. CASE Exchange(r)
    BY <1>0, <2>2 DEF Exchange, Enter
  <2> QED
    BY <1>0, <1>3, <2>1, <2>2
<1>4. CASE StartClock(r) \/ Exchanged(r)
  BY <1>0, <1>4 DEF StartClock, Exchanged, Leave
<1>5. CASE FinishSolve(r)
  BY <1>0, <1>5 DEF FinishSolve
<1>6. CASE StopClock(r)
  BY <1>0, <1>6 DEF StopClock, Leave
<1>7. CASE Report(r)
  <2>1. rep' = rep /\ entered' = entered /\ UNCHANGED <<pinning, aborted>>
    BY <1>0, <1>7 DEF Report
  <2>2. rows' \in Nat /\ status' \in [Ranks -> {0, 1, 3}]
    BY <1>0, <1>7 DEF Report, Caught
  <2>3. pc' = [pc EXCEPT ![r] = "caught"] \/ pc' = [pc EXCEPT ![r] = "finalize"]
    BY <1>0, <1>7 DEF Report
  <2> QED
    BY <1>0, <1>7, <2>1, <2>2, <2>3 DEF Report
<1>8. CASE FailJob(r)
  BY <1>0, <1>8 DEF FailJob, Abort
<1>9. CASE Finalize(r) \/ Return(r) \/ Kill(r)
  BY <1>0, <1>9 DEF Finalize, Return, Kill
<1>10. CASE Throw(r)
  BY <1>0, <1>10 DEF Throw, Caught
<1> QED
  BY <1>1, <1>2, <1>3, <1>4, <1>5, <1>6, <1>7, <1>8, <1>9, <1>10 DEF Step

(***************************************************************************)
(* No rank ever takes back an entry.                                       *)
(***************************************************************************)
LEMMA EntriesStay ==
  ASSUME Inv, NEW r \in Ranks, Step(r) \/ Throw(r)
  PROVE  \A q \in Ranks : entered'[q] >= entered[q]
<1> USE DEF Inv, TypeOK
<1>1. CASE ResetWorkspace(r) \/ Exchange(r) \/ FinishSolve(r)
  BY <1>1 DEF ResetWorkspace, Exchange, Enter, FinishSolve
<1>2. CASE ~ (ResetWorkspace(r) \/ Exchange(r) \/ FinishSolve(r))
  <2>1. entered' = entered
    BY <1>2 DEF Step, StartMpi, MakeBackend, StartClock, Exchanged,
                StopClock, Report, FailJob, Finalize, Return, Kill, Throw
  <2> QED
    BY <2>1
<1> QED
  BY <1>1, <1>2

(***************************************************************************)
(* Every step keeps what the positions say of the job, and the row.        *)
(***************************************************************************)
LEMMA StepHonest ==
  ASSUME Inv, NEW r \in Ranks, Step(r) \/ Throw(r)
  PROVE  (\A q \in Ranks : Honest(q)') /\ RowInv'
<1>1. AllEnteredTheLast => AllEnteredTheLast'
  <2>1. Inv /\ (\A q \in Ranks : entered'[q] >= entered[q])
    BY EntriesStay
  <2>2. (\A q \in Ranks : Counts(q)') /\ TypeOK'
    BY StepCounts
  <2> QED
    BY <2>1, <2>2 DEF AllEnteredTheLast, Inv, TypeOK, Whole
<1>2. Root \in Ranks
  BY RootIsARank
<1> USE DEF Inv, TypeOK, Goto, Working, Local, Waiting, Ended, Honest, RowInv,
            Through
<1>3. CASE StartMpi(r)
  BY <1>1, <1>2, <1>3 DEF StartMpi, Abort
<1>4. CASE MakeBackend(r)
  BY <1>1, <1>2, <1>4 DEF MakeBackend, Caught
<1>5. CASE ResetWorkspace(r) \/ Exchange(r)
  BY <1>1, <1>2, <1>5 DEF ResetWorkspace, Exchange, Enter
<1>6. CASE StartClock(r) \/ Exchanged(r)
  BY <1>1, <1>2, <1>6 DEF StartClock, Exchanged, Leave
<1>7. CASE FinishSolve(r)
  BY <1>1, <1>2, <1>7 DEF FinishSolve
<1>8. CASE StopClock(r)
  <2>1. pc'[r] = "report" => AllEnteredTheLast
    BY <1>8 DEF StopClock, Leave, Counts, Whole, AllEnteredTheLast
  <2> QED
    BY <1>1, <1>2, <1>8, <2>1 DEF StopClock, Leave
<1>9. CASE Report(r)
  BY <1>1, <1>2, <1>9 DEF Report, Caught
<1>10. CASE FailJob(r)
  BY <1>1, <1>2, <1>10 DEF FailJob, Abort
<1>11. CASE Finalize(r) \/ Return(r)
  BY <1>1, <1>2, <1>11 DEF Finalize, Return
<1>12. CASE Kill(r)
  BY <1>1, <1>2, <1>12 DEF Kill
<1>13. CASE Throw(r)
  BY <1>1, <1>2, <1>13 DEF Throw, Caught
<1> QED
  BY <1>3, <1>4, <1>5, <1>6, <1>7, <1>8, <1>9, <1>10, <1>11, <1>12, <1>13
     DEF Step

LEMMA StutterInv == Inv /\ UNCHANGED vars => Inv'
  BY DEF vars, Inv, TypeOK, Counts, Honest, RowInv, AllEnteredTheLast

(***************************************************************************)
(* The counting invariant holds of every run of a job, of any size.        *)
(***************************************************************************)
THEOREM JobInv == Spec => []Inv
<1>1. Init => Inv
  BY InitInv
<1>2. Inv /\ [Next]_vars => Inv'
  <2>1. ASSUME Inv, NEW r \in Ranks, Step(r) \/ Throw(r) PROVE Inv'
    BY <2>1, StepCounts, StepHonest DEF Inv
  <2> QED
    BY <2>1, StutterInv DEF Next
<1> QED
  BY <1>1, <1>2, PTL DEF Spec

(***************************************************************************)
(* A row is only ever written, once, behind every repetition of every      *)
(* rank.                                                                   *)
(***************************************************************************)
THEOREM RowFollowsEverySolveHolds == Spec => []RowFollowsEverySolve
<1>1. Inv => RowFollowsEverySolve
  BY DEF Inv, RowFollowsEverySolve, RowInv, AllEnteredTheLast, Counts, TypeOK,
         Whole
<1> QED
  BY <1>1, JobInv, PTL

(***************************************************************************)
(* A job that ends with status 0 has written its row.                      *)
(***************************************************************************)
THEOREM CleanExitIsOneWholeRowHolds == Spec => []CleanExitIsOneWholeRow
<1>1. Inv => CleanExitIsOneWholeRow
  <2> SUFFICES ASSUME Inv, JobOver, JobStatus = 0
               PROVE  rows = 1 /\ \A r \in Ranks : rep[r] = Repetitions + 1
    BY DEF CleanExitIsOneWholeRow
  <2>1. pc[Root] = "returned"
    BY RootIsARank DEF JobOver, JobStatus, Inv, Honest, Ended
  <2>2. rows = 1
    BY <2>1 DEF Inv, RowInv
  <2> QED
    BY <2>2 DEF Inv, RowInv, AllEnteredTheLast, Counts, TypeOK, Whole
<1> QED
  BY <1>1, JobInv, PTL

-----------------------------------------------------------------------------

\* A rank on its own is level with the slowest, one inside a collective
\* call, or gone from one, at most an entry ahead.
Aligned ==
    \A r, q \in Ranks :
        /\ entered[r] <= entered[q] + 1
        /\ pc[r] \in Local \cup {"init"} => entered[r] <= entered[q]

LEMMA StepAligned ==
  ASSUME TypeOK, Aligned, NEW r \in Ranks, Step(r) \/ Throw(r)
  PROVE  Aligned'
<1> USE DEF TypeOK, Goto, Local, Waiting, Working, Ended, Aligned
<1>1. CASE ResetWorkspace(r)
  BY <1>1 DEF ResetWorkspace, Enter
<1>2. CASE Exchange(r)
  BY <1>2 DEF Exchange, Enter
<1>3. CASE FinishSolve(r)
  BY <1>3 DEF FinishSolve
<1>4. CASE StartClock(r) \/ Exchanged(r) \/ StopClock(r)
  BY <1>4 DEF StartClock, Exchanged, StopClock, Leave
<1>5. CASE StartMpi(r) \/ MakeBackend(r)
  BY <1>5 DEF StartMpi, MakeBackend, Abort
<1>6. CASE Report(r) \/ FailJob(r)
  BY <1>6 DEF Report, FailJob, Abort
<1>7. CASE Finalize(r) \/ Return(r) \/ Kill(r) \/ Throw(r)
  BY <1>7 DEF Finalize, Return, Kill, Throw
<1> QED
  BY <1>1, <1>2, <1>3, <1>4, <1>5, <1>6, <1>7 DEF Step

(***************************************************************************)
(* No rank is ever two collective calls ahead of another.                  *)
(***************************************************************************)
THEOREM CollectivesAlignedHolds == Spec => []CollectivesAligned
<1>1. Init => Aligned
  BY DEF Init, Aligned
<1>2. TypeOK /\ Aligned /\ [Next]_vars => Aligned'
  BY StepAligned DEF Next, vars, Aligned
<1>3. Inv => TypeOK
  BY DEF Inv
<1>4. Aligned => CollectivesAligned
  BY DEF Aligned, CollectivesAligned
<1> QED
  BY <1>1, <1>2, <1>3, <1>4, JobInv, PTL DEF Spec

-----------------------------------------------------------------------------

\* Where a rank may be when the method does not apply.
StoppedShort == {"init", "make_backend", "caught", "finalize", "finalizing"} \cup Ended

\* No rank gets past the check that the method applies, the one that makes the
\* check has not met it before, and the status it leaves there stays.
ShortOfTheSolve ==
    solver = "inapplicable" =>
        /\ rows = 0
        /\ \A r \in Ranks :
             /\ pc[r] \in StoppedShort
             /\ pc[r] \in {"init", "make_backend"} => pinning[r] = "not_requested"
             /\ pinning[r] # "not_requested" => status[r] = 3

LEMMA StepShort ==
  ASSUME TypeOK, ShortOfTheSolve, NEW r \in Ranks, Step(r) \/ Throw(r)
  PROVE  ShortOfTheSolve'
<1> USE DEF TypeOK, Goto, ShortOfTheSolve
<1>1. StoppedShort \cap {"reset", "barrier_in", "solve", "exchange", "finish", "barrier_out",
                         "report"} = {}
  BY DEF StoppedShort, Ended
<1>2. {"init", "make_backend", "caught", "finalize", "finalizing", "returned", "killed"}
        = StoppedShort
  BY DEF StoppedShort, Ended
<1>3. solver' = solver
  BY DEF Step, Throw
<1>4. CASE StartMpi(r)
  BY <1>2, <1>3, <1>4 DEF StartMpi, Abort
<1>5. CASE MakeBackend(r)
  BY <1>2, <1>3, <1>5 DEF MakeBackend, Caught
<1>6. CASE ResetWorkspace(r) \/ StartClock(r) \/ Exchange(r) \/ Exchanged(r)
             \/ FinishSolve(r) \/ StopClock(r) \/ Report(r)
  <2>1. pc[r] \notin StoppedShort
    BY <1>1, <1>6
    DEF ResetWorkspace, StartClock, Exchange, Exchanged, FinishSolve, StopClock, Report, Enter,
        Leave
  <2> QED BY <1>3, <2>1
<1>7. CASE FailJob(r)
  BY <1>2, <1>3, <1>7 DEF FailJob, Abort
<1>8. CASE Finalize(r) \/ Return(r) \/ Kill(r)
  BY <1>2, <1>3, <1>8 DEF Finalize, Return, Kill
<1>9. CASE Throw(r)
  <2>1. solver = "inapplicable" => pc[r] \in {"make_backend"}
    BY <1>1, <1>2, <1>9 DEF Throw, Working, Local, Waiting
  <2> QED BY <1>2, <1>3, <1>9, <2>1 DEF Throw
<1> QED
  BY <1>4, <1>5, <1>6, <1>7, <1>8, <1>9 DEF Step

(***************************************************************************)
(* A method that does not apply gives status 3 on every rank that reached  *)
(* the check and prints no row, however the ranks are interleaved.         *)
(***************************************************************************)
THEOREM InapplicableIsThreeHolds == Spec => []InapplicableIsThree
<1>1. Init => ShortOfTheSolve
  BY DEF Init, ShortOfTheSolve, StoppedShort
<1>2. TypeOK /\ ShortOfTheSolve /\ [Next]_vars => ShortOfTheSolve'
  <2>1. UNCHANGED vars /\ ShortOfTheSolve => ShortOfTheSolve'
    BY DEF vars, ShortOfTheSolve
  <2> QED BY <2>1, StepShort DEF Next
<1>3. Inv => TypeOK
  BY DEF Inv
<1>4. ShortOfTheSolve => InapplicableIsThree
  BY DEF ShortOfTheSolve, InapplicableIsThree
<1> QED
  BY <1>1, <1>2, <1>3, <1>4, JobInv, PTL DEF Spec

=============================================================================
