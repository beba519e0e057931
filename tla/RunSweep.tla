------------------------------ MODULE RunSweep ------------------------------
(***************************************************************************)
(* The measurement campaign kept on disk: benchmarks/run_sweep.py run as a *)
(* series of sessions over one declared matrix, some of them interrupted,  *)
(* the binary rebuilt from another commit in between or meanwhile, the     *)
(* bandwidth probes refreshed, and scripts/gen_report_assets.py publishing *)
(* from whatever the results directory holds.                              *)
(*                                                                         *)
(* A row is what survives: the identity the script gives it, its commit,   *)
(* and the session that measured it, which no column records.  Fields that *)
(* are numbers are left out, and so are the schema of the file (the header *)
(* comparison and scripts/migrate_summary.py) and the order of its rows,   *)
(* which nothing reads.  One session or refresh runs at a time, and the    *)
(* generator's reads of the summary and of the manifest are one step.      *)
(***************************************************************************)
EXTENDS Integers, Sequences, SequencesExt

CONSTANTS
    Matrix,         \* the declared configurations, in order
    Key,            \* Key[c]: the identity c's row is printed with, commit apart
    Predicted,      \* Predicted[c]: the identity the script expects of it
    Commits,        \* commits the binary may be built from
    MaxSessions     \* bound on sessions and refreshes, for TLC

NoCommit == ""      \* what probe_commit says of a binary it could not ask

ASSUME SweepAssumption ==
    /\ Matrix \in Seq(DOMAIN Key)
    /\ DOMAIN Predicted = DOMAIN Key
    /\ NoCommit \notin Commits
    /\ MaxSessions \in Nat

VARIABLES
    binary,         \* the commit stamped into build/pnl
    summary,        \* summary.csv: the set of the rows at its path
    manifests,      \* manifest files, oldest first: a commit and a text each
    clock,          \* sessions and refreshes begun, which names them
    session         \* the running session's memory, or the refresh's

disk == <<summary, manifests>>
campaignVars == <<binary, summary, manifests, clock, session>>

Idle == [at |-> "idle"]
Torn == [text |-> "torn"]       \* a manifest opened for writing, not written

CampaignInit ==
    /\ binary \in Commits
    /\ summary = {}
    /\ manifests = <<>>
    /\ clock = 0
    /\ session = Idle

-----------------------------------------------------------------------------

\* Fault: an identity predicted without its commit.
predicted_anyCommit(c, commit) == [key |-> Predicted[c], commit |-> ""]

\* Run.predicted_identity: what the row of a configuration is expected to carry.
predicted_identity(c, commit) == [key |-> Predicted[c], commit |-> commit]

\* identity: the same fields read back from a row.
identity(row) == [key |-> row.key, commit |-> row.commit]

\* done, as a session begins: what the summary holds, or nothing if forced.
Completed(lines, force) ==
    IF force THEN {} ELSE {identity(row) : row \in lines}

\* probe_commit, and likewise a probe of the bandwidth: whatever binary is
\* there now answers, or no answer comes and the script goes on without one.
Answers == {binary, NoCommit}

\* A session begins by asking the binary for its commit, once.
StartSession ==
    /\ session.at = "idle"
    /\ clock < MaxSessions
    /\ clock' = clock + 1
    /\ \E commit \in Answers, force \in BOOLEAN :
          session' = [at |-> "load", number |-> clock + 1, commit |-> commit,
                      force |-> force, probedBy |-> NoCommit, next |-> 1,
                      rows |-> {}, done |-> {},
                      executed |-> 0, skipped |-> 0, failures |-> <<>>]
    /\ UNCHANGED <<binary, disk>>

\* It reads the summary, once and never again...
LoadExisting ==
    /\ session.at = "load"
    /\ session' = [session EXCEPT !.at = "probe", !.rows = summary,
                                  !.done = Completed(summary, session.force)]
    /\ UNCHANGED <<binary, disk, clock>>

\* ... and has the bandwidth measured, by the binary as it is by now.
ProbeBandwidth ==
    /\ session.at = "probe"
    /\ \E by \in Answers :
          session' = [session EXCEPT !.at = "next", !.probedBy = by]
    /\ UNCHANGED <<binary, disk, clock>>

\* The configuration whose turn it is.
Turn == Matrix[session.next]

HasTurn == session.at = "next" /\ session.next <= Len(Matrix)

\* Fault: a row of any commit counts as complete.
HaveAtAnyCommit ==
    /\ ~session.force
    /\ \E row \in session.done : row.key = Predicted[Turn]

\* Whether the resume check finds it complete.
Have ==
    /\ ~session.force
    /\ predicted_identity(Turn, session.commit) \in session.done

Skip ==
    /\ HasTurn
    /\ Have
    /\ session' = [session EXCEPT !.skipped = @ + 1, !.next = @ + 1]
    /\ UNCHANGED <<binary, disk, clock>>

\* The run fails, times out, does not apply, or prints nothing.
RunFails ==
    /\ HasTurn
    /\ ~Have
    /\ session' = [session EXCEPT !.failures = Append(@, Turn), !.next = @ + 1]
    /\ UNCHANGED <<binary, disk, clock>>

\* The rows without any of the same identity, and the new one.
Merged(lines, row) ==
    {old \in lines : identity(old) # identity(row)} \cup {row}

\* The run prints its row, stamped by the binary as it is now.
RunPrints ==
    /\ HasTurn
    /\ ~Have
    /\ LET row == [key |-> Key[Turn], commit |-> binary,
                   session |-> session.number]
       IN session' = [session EXCEPT !.at = "write",
                                     !.rows = Merged(@, row),
                                     !.done = @ \cup {identity(row)},
                                     !.executed = @ + 1]
    /\ UNCHANGED <<binary, disk, clock>>

\* Fault: the summary itself is opened for writing, which empties it.
OpenSummary ==
    /\ session.at = "write"
    /\ session' = [session EXCEPT !.at = "replace"]
    /\ summary' = {}
    /\ UNCHANGED <<binary, manifests, clock>>

\* write_atomic: the rows go to a temporary file, which no one reads...
WriteTemporary ==
    /\ session.at = "write"
    /\ session' = [session EXCEPT !.at = "replace"]
    /\ UNCHANGED <<binary, disk, clock>>

\* ... and the file takes the place of the summary in one step.
Replace ==
    /\ session.at = "replace"
    /\ summary' = session.rows
    /\ session' = [session EXCEPT !.at = "next", !.next = @ + 1]
    /\ UNCHANGED <<binary, manifests, clock>>

\* The files with one more, or with another in its place.
Placed(files, i, file) ==
    IF i \in DOMAIN files THEN [files EXCEPT ![i] = file] ELSE Append(files, file)

\* The manifest is written when the matrix is through, and only then.
\* write_text opens the file first, in place and empty...
OpenManifest ==
    /\ session.at = "next"
    /\ session.next > Len(Matrix)
    /\ manifests' = Placed(manifests, Len(manifests) + 1,
                           [commit |-> session.commit, text |-> Torn])
    /\ session' = [session EXCEPT !.at = "manifest"]
    /\ UNCHANGED <<binary, summary, clock>>

\* ... and writes the text next.
WriteManifest ==
    /\ session.at = "manifest"
    /\ manifests' = Placed(manifests, Len(manifests),
          [commit |-> session.commit,
           text |-> [session |-> session.number, commit |-> session.commit,
                     probedBy |-> session.probedBy, declared |-> Len(Matrix),
                     failures |-> session.failures]])
    /\ session' = Idle
    /\ UNCHANGED <<binary, summary, clock>>

\* The session, or the refresh, is interrupted anywhere.
Interrupt ==
    /\ session.at # "idle"
    /\ session' = Idle
    /\ UNCHANGED <<binary, disk, clock>>

\* The binary is rebuilt, a session running or not.
Rebuild ==
    /\ \E commit \in Commits \ {binary} : binary' = commit
    /\ UNCHANGED <<disk, clock, session>>

\* manifests_for: the places of the manifests of a commit.
ManifestsFor(commit) ==
    {i \in DOMAIN manifests : manifests[i].commit = commit}

Newest(places) == CHOOSE i \in places : \A j \in places : j <= i

\* refresh_bandwidth: the binary is asked for its commit, and the newest
\* manifest of that commit is the one to refresh, or else a new one.
StartRefresh ==
    /\ session.at = "idle"
    /\ clock < MaxSessions
    /\ clock' = clock + 1
    /\ \E commit \in Answers :
          session' = [at |-> "reprobe", number |-> clock + 1, commit |-> commit,
                      target |-> IF ManifestsFor(commit) = {}
                                   THEN Len(manifests) + 1
                                   ELSE Newest(ManifestsFor(commit))]
    /\ UNCHANGED <<binary, disk>>

\* The manifest a refresh writes where there is none: probes and no rows.
ProbesAlone == [session |-> session.number, commit |-> session.commit,
                probedBy |-> NoCommit, declared |-> 0, failures |-> <<>>]

\* What the refresh finds to refresh.
Document ==
    IF session.target \in DOMAIN manifests THEN manifests[session.target].text
                                           ELSE ProbesAlone

\* The probes are taken, then the manifest is read; a torn one ends the script.
Reprobe ==
    /\ session.at = "reprobe"
    /\ \/ /\ Document = Torn
          /\ session' = Idle
       \/ /\ Document # Torn
          /\ \E by \in Answers :
                session' = [at |-> "reopen", target |-> session.target,
                            commit |-> session.commit,
                            text |-> [Document EXCEPT !.probedBy = by]]
    /\ UNCHANGED <<binary, disk, clock>>

\* write_text again: the manifest is emptied, then written.
ReopenManifest ==
    /\ session.at = "reopen"
    /\ manifests' = Placed(manifests, session.target,
                           [commit |-> session.commit, text |-> Torn])
    /\ session' = [session EXCEPT !.at = "rewrite"]
    /\ UNCHANGED <<binary, summary, clock>>

RewriteManifest ==
    /\ session.at = "rewrite"
    /\ manifests' = Placed(manifests, session.target,
                           [commit |-> session.commit, text |-> session.text])
    /\ session' = Idle
    /\ UNCHANGED <<binary, summary, clock>>

\* The commits of the rows in a summary.
CommitsIn(lines) == {row.commit : row \in lines}

\* Fault: several generations, and the commit of some row decides.
SelectSome(lines) == CommitsIn(lines)

\* select_generation: the one commit of the summary, or a refusal.
SelectGeneration(lines) == {c \in CommitsIn(lines) : CommitsIn(lines) = {c}}

\* What the generator publishes, run now: the rows of the summary over the
\* newest manifest of their commit, if it can be parsed.  It writes nothing that
\* a session reads, so it is what it publishes at each moment and not a step.
Published ==
    {[rows |-> summary, manifest |-> manifests[Newest(ManifestsFor(commit))].text] :
        commit \in {c \in SelectGeneration(summary) :
                        /\ ManifestsFor(c) # {}
                        /\ manifests[Newest(ManifestsFor(c))].text # Torn}}

CampaignNext ==
    \/ StartSession \/ LoadExisting \/ ProbeBandwidth
    \/ Skip \/ RunFails \/ RunPrints \/ WriteTemporary \/ Replace
    \/ OpenManifest \/ WriteManifest
    \/ StartRefresh \/ Reprobe \/ ReopenManifest \/ RewriteManifest
    \/ Interrupt \/ Rebuild

CampaignSpec == CampaignInit /\ [][CampaignNext]_campaignVars

-----------------------------------------------------------------------------

(***************************************************************************)
(* No measurement is ever lost: a row leaves the summary only for a newer  *)
(* one of the same identity and commit, wherever a session is interrupted  *)
(* and whatever the binary becomes (run_sweep.py 560-575, 1224-1233).      *)
(***************************************************************************)
NoMeasurementLost ==
    [][\A old \in summary : \E new \in summary' :
          identity(new) = identity(old) /\ new.session >= old.session]_campaignVars

(***************************************************************************)
(* "A completed row is skipped on a rerun": unless forced, no session runs *)
(* a configuration for which the summary on disk already has a row at the  *)
(* session's commit (run_sweep.py 8-11, 1159-1193).  A configuration whose *)
(* identity is predicted wrong is outside it: every session runs it again. *)
(***************************************************************************)
ResumeRedoesNothing ==
    [][session.at = "next" /\ session'.at = "write" /\ ~session.force
         /\ Predicted[Turn] = Key[Turn] =>
         \A row \in summary :
            ~ (row.key = Key[Turn] /\ row.commit = session.commit)]_campaignVars

\* The identities a row may stand for configuration c under.
Names(c) == {Key[c], Predicted[c]}

(***************************************************************************)
(* A session that writes its manifest has accounted for every declared     *)
(* configuration: its counts add up, and what it did not record as a       *)
(* failure has a row in the summary, at the session's own commit unless    *)
(* the binary was rebuilt under it (run_sweep.py 1186-1251).               *)
(***************************************************************************)
FinishedMeansMeasured ==
    [][session.at = "manifest" /\ manifests' # manifests =>
         /\ session.executed + session.skipped + Len(session.failures)
               = Len(Matrix)
         /\ \A n \in DOMAIN Matrix :
               \/ Matrix[n] \in ToSet(session.failures)
               \/ \E row \in summary :
                     /\ row.key \in Names(Matrix[n])
                     /\ \/ row.commit = session.commit
                        \/ row.session = session.number]_campaignVars

(***************************************************************************)
(* A published generation is whole.  Every configuration that the manifest *)
(* does not list as failed has its row among the published ones, measured  *)
(* by a binary of the manifest's commit: although the rows are read from   *)
(* a file that later sessions, forced or interrupted, went on to rewrite,  *)
(* and the binary may have been rebuilt while that manifest's session ran  *)
(* (gen_report_assets.py 2166-2222; run_sweep.py 1186-1251).  A manifest   *)
(* that a refresh wrote declares nothing, and promises nothing.            *)
(***************************************************************************)
PublishedIsWhole ==
    \A p \in Published : p.manifest.declared > 0 =>
        \A n \in DOMAIN Matrix :
            \/ Matrix[n] \in ToSet(p.manifest.failures)
            \/ \E row \in p.rows :
                  /\ row.key \in Names(Matrix[n])
                  /\ row.commit = p.manifest.commit

(***************************************************************************)
(* "The generator can say which manifest the rows it published came from"  *)
(* (run_sweep.py 1246-1249): every published row was measured by the       *)
(* session whose manifest it is divided by.                                *)
(***************************************************************************)
PublishedWithItsOwnSession ==
    \A p \in Published : \A row \in p.rows : row.session = p.manifest.session

(***************************************************************************)
(* The bandwidth rows are divided by was measured by a binary of their     *)
(* commit.  The commit is asked for first and the probes are run later     *)
(* (run_sweep.py 1117 and 1169, 884 and 891), so a rebuild in between      *)
(* leaves another binary's bandwidth under this commit.                    *)
(***************************************************************************)
ProbedAtItsCommit ==
    \A p \in Published : p.manifest.probedBy \in {p.manifest.commit, NoCommit}
=============================================================================
