--------------------------- MODULE RestoreJournal ---------------------------
(**************************************************************************)
(* The restore-backup command: backup.restore publishes a staged           *)
(* installation by renames behind a journal, RecoverInterruptedRestore     *)
(* finishes or undoes what an earlier run left.  Every step that changes   *)
(* the disk is an action, the command may be killed between any two of     *)
(* them, and a rename, a journal write, the removal of the journal or a    *)
(* directory sync may fail.  (The removals whose errors the code discards  *)
(* are taken to succeed.)  The server may be started between two runs of   *)
(* the command; the data directory lock keeps it from running beside one.  *)
(*                                                                         *)
(* A managed entry (database, artwork directory, segment-directory         *)
(* sidecar) is abstracted to the image it holds: absent, the original      *)
(* installation, a database the server created from nothing, or the        *)
(* archive of the n-th run.                                                *)
(**************************************************************************)
EXTENDS Integers

CONSTANTS
  MaxRuns,    \* bound on the runs of the command
  IOErrors    \* may a rename, a journal write or a sync fail?
ASSUME RestoreAssumption == MaxRuns \in Nat /\ IOErrors \in BOOLEAN

VARIABLES
  live,      \* the entries of the data directory
  prior,     \* .flixr-restore-prior-*: the entries moved aside
  staged,    \* the entries in the stage directory
  stage,     \* does the stage directory named by the journal exist?
  journal,   \* .flixr-restore-journal.json: its phase and the entries that existed
  step,      \* where the running command is
  entry,     \* the entry publication or recovery is at
  resume,    \* what follows a recovery: a new restore, an error, success
  runs,      \* runs of the command so far
  outcome,   \* what the last run reported
  base,      \* history: the installation the journalled run began from
  target     \* history: the installation it publishes

diskVars == <<live, prior, staged, stage, journal>>
commandVars == <<step, entry, resume, runs, outcome>>
historyVars == <<base, target>>
restoreVars == <<diskVars, commandVars, historyVars>>

Database == 1
Artwork == 2
Sidecar == 3
Entries == Database .. Sidecar

Absent == 0
Original == 1
Fresh == 2
Archive(run) == run + 2
Images == Absent .. Archive(MaxRuns)

Phases == {"none", "prepared", "published"}
Steps == {"idle", "staging", "journal", "aside", "install", "publish",
          "recover", "reinstate", "unstage", "rmdir", "unlist"}
Nothing == [i \in Entries |-> Absent]
Present(files) == {i \in Entries : files[i] # Absent}

\* The state of the disk, the journal and the command is well formed.
RestoreTypeOK ==
  /\ live \in [Entries -> Images] /\ prior \in [Entries -> Images]
  /\ staged \in [Entries -> Images] /\ stage \in BOOLEAN
  /\ journal \in [phase : Phases, had : SUBSET Entries]
  /\ step \in Steps /\ entry \in Entries
  /\ resume \in {"restore", "fail", "finish"}
  /\ runs \in 0 .. MaxRuns
  /\ outcome \in {"none", "restored", "failed", "refused"}
  /\ base \in [Entries -> Images] /\ target \in [Entries -> Images]

\* An empty data directory, or an installation with its database.
RestoreInit ==
  /\ live \in [Entries -> {Absent, Original}]
  /\ live[Database] = Absent => live = Nothing
  /\ prior = Nothing /\ staged = Nothing /\ stage = FALSE
  /\ journal = [phase |-> "none", had |-> {}]
  /\ step = "idle" /\ entry = Database /\ resume = "restore"
  /\ runs = 0 /\ outcome = "none"
  /\ base = live /\ target = live

-----------------------------------------------------------------------------
(* The start of a run.                                                     *)

\* validateRestoreTarget: managed entries without a database are refused.
ValidTarget == live = Nothing \/ live[Database] # Absent

\* RecoverInterruptedRestore begins: a journal whose stage is gone is refused.
Recoverable == journal.phase = "none" \/ stage

GoRecover(then) ==
  step' = "recover" /\ entry' = Database /\ resume' = then

Report(result) == step' = "idle" /\ outcome' = result

Restore ==
  /\ step = "idle" /\ runs < MaxRuns
  /\ ValidTarget /\ Recoverable
  /\ runs' = runs + 1 /\ outcome' = "none"
  /\ IF journal.phase = "none"
     THEN step' = "staging" /\ UNCHANGED <<entry, resume>>
     ELSE GoRecover("restore")
  /\ UNCHANGED <<diskVars, historyVars>>

RestoreRefused ==
  /\ step = "idle" /\ runs < MaxRuns
  /\ ~ValidTarget \/ ~Recoverable
  /\ runs' = runs + 1 /\ Report("refused")
  /\ UNCHANGED <<diskVars, entry, resume, historyVars>>

\* extractArchive and prepareStagedInstallation fill a new stage directory;
\* an archive may hold no artwork.
StageArchive(artwork) ==
  /\ step = "staging"
  /\ stage' = TRUE
  /\ staged' = [i \in Entries |-> IF i = Artwork /\ ~artwork THEN Absent
                                  ELSE Archive(runs)]
  /\ step' = "journal"
  /\ UNCHANGED <<live, prior, journal, entry, resume, runs, outcome, historyVars>>

\* Verification, space, extraction, migration or the safety backup failed:
\* the deferred function removes the stage.
StageFails ==
  /\ IOErrors /\ step \in {"staging", "journal"}
  /\ stage' = FALSE /\ staged' = Nothing
  /\ Report("failed")
  /\ UNCHANGED <<live, prior, journal, entry, resume, runs, historyVars>>

WritePrepared ==
  /\ step = "journal"
  /\ journal' = [phase |-> "prepared", had |-> Present(live)]
  /\ base' = live /\ target' = staged
  /\ step' = "aside" /\ entry' = Database
  /\ UNCHANGED <<live, prior, staged, stage, resume, runs, outcome>>

\* writeRestoreJournal renamed the journal but could not sync the directory.
\* The rollback is not armed yet; the stage is removed.
WritePreparedFails ==
  /\ IOErrors /\ step = "journal"
  /\ journal' = [phase |-> "prepared", had |-> Present(live)]
  /\ base' = live /\ target' = staged
  /\ stage' = FALSE /\ staged' = Nothing
  /\ Report("failed")
  /\ UNCHANGED <<live, prior, entry, resume, runs>>

-----------------------------------------------------------------------------
(* publishStagedInstallation.                                              *)

\* The existing entry is renamed to its prior name.
MoveAside ==
  /\ step = "aside"
  /\ IF entry \in journal.had
     THEN /\ prior' = [prior EXCEPT ![entry] = live[entry]]
          /\ live' = [live EXCEPT ![entry] = Absent]
     ELSE UNCHANGED <<live, prior>>
  /\ step' = "install"
  /\ UNCHANGED <<staged, stage, journal, entry, resume, runs, outcome, historyVars>>

\* Mutant of Installed: the artwork of the archive is never moved into place.
InstalledWithoutArtwork ==
  IF entry = Artwork THEN live ELSE [live EXCEPT ![entry] = staged[entry]]

\* The staged entry takes its place; an archive without artwork leaves none.
Installed ==
  IF entry = Artwork /\ staged[entry] = Absent THEN live
  ELSE [live EXCEPT ![entry] = staged[entry]]

Install ==
  /\ step = "install"
  /\ live' = Installed
  /\ staged' = [staged EXCEPT ![entry] = Absent]
  /\ IF entry = Sidecar THEN step' = "publish" /\ entry' = entry
     ELSE step' = "aside" /\ entry' = entry + 1
  /\ UNCHANGED <<prior, stage, journal, resume, runs, outcome, historyVars>>

\* A rename fails: the deferred rollback runs.
PublishFails ==
  /\ IOErrors /\ step \in {"aside", "install", "publish"}
  /\ GoRecover("fail")
  /\ UNCHANGED <<diskVars, runs, outcome, historyVars>>

\* The journal says published; an error syncing the directory is reported,
\* but the recovery it triggers finds the journal published and goes forward.
WritePublished(synced) ==
  /\ synced \/ IOErrors
  /\ step = "publish"
  /\ journal' = [phase |-> "published", had |-> journal.had]
  /\ GoRecover(IF synced THEN "finish" ELSE "fail")
  /\ UNCHANGED <<live, prior, staged, stage, runs, outcome, historyVars>>

-----------------------------------------------------------------------------
(* RecoverInterruptedRestore.                                              *)

NextEntry ==
  IF entry = Sidecar THEN step' = "unstage" /\ entry' = entry
  ELSE step' = "recover" /\ entry' = entry + 1

\* Mutant of RemoveReplacement: recovery does not look for the prior entry first.
RemoveUnchecked ==
  /\ step = "recover" /\ journal.phase = "prepared" /\ entry \in journal.had
  /\ live' = [live EXCEPT ![entry] = Absent]
  /\ step' = "reinstate" /\ entry' = entry
  /\ UNCHANGED <<prior, staged, stage, journal, resume, runs, outcome, historyVars>>

\* An entry that existed: its published replacement goes if the prior one is
\* there to take its place.
RemoveReplacement ==
  /\ step = "recover" /\ journal.phase = "prepared" /\ entry \in journal.had
  /\ IF prior[entry] = Absent THEN NextEntry /\ live' = live
     ELSE /\ live' = [live EXCEPT ![entry] = Absent]
          /\ step' = "reinstate" /\ entry' = entry
  /\ UNCHANGED <<prior, staged, stage, journal, resume, runs, outcome, historyVars>>

Reinstate ==
  /\ step = "reinstate"
  /\ live' = [live EXCEPT ![entry] = prior[entry]]
  /\ prior' = [prior EXCEPT ![entry] = Absent]
  /\ NextEntry
  /\ UNCHANGED <<staged, stage, journal, resume, runs, outcome, historyVars>>

\* Mutant of PublishedHere: what the restore added is left behind.
PublishedNever ==
  FALSE

\* An entry that did not exist: it is removed if the stage no longer has it.
PublishedHere == staged[entry] = Absent

RemoveAdded ==
  /\ step = "recover" /\ journal.phase = "prepared" /\ entry \notin journal.had
  /\ live' = IF PublishedHere THEN [live EXCEPT ![entry] = Absent] ELSE live
  /\ prior' = [prior EXCEPT ![entry] = Absent]
  /\ NextEntry
  /\ UNCHANGED <<staged, stage, journal, resume, runs, outcome, historyVars>>

RemovePrior ==
  /\ step = "recover" /\ journal.phase = "published"
  /\ prior' = [prior EXCEPT ![entry] = Absent]
  /\ NextEntry
  /\ UNCHANGED <<live, staged, stage, journal, resume, runs, outcome, historyVars>>

\* os.RemoveAll(stage) empties the directory before it removes it.
EmptyStage ==
  /\ step = "unstage"
  /\ staged' = Nothing /\ step' = "rmdir"
  /\ UNCHANGED <<live, prior, stage, journal, entry, resume, runs, outcome,
                 historyVars>>

RemoveStage ==
  /\ step = "rmdir"
  /\ stage' = FALSE /\ step' = "unlist"
  /\ UNCHANGED <<live, prior, staged, journal, entry, resume, runs, outcome,
                 historyVars>>

\* The journal is gone even when the final sync of the directory fails.
RemoveJournal(synced) ==
  /\ synced \/ IOErrors
  /\ step = "unlist"
  /\ journal' = [phase |-> "none", had |-> {}]
  /\ IF resume = "restore" /\ synced THEN step' = "staging" /\ outcome' = outcome
     ELSE Report(IF resume = "finish" /\ synced THEN "restored" ELSE "failed")
  /\ UNCHANGED <<live, prior, staged, stage, entry, resume, runs, historyVars>>

\* A rename or the removal of the journal fails: the command reports it, and
\* unless it had not staged yet its deferred function removes the stage.
RecoverFails ==
  /\ IOErrors /\ step \in {"reinstate", "unlist"}
  /\ IF resume = "restore" THEN UNCHANGED <<staged, stage>>
     ELSE staged' = Nothing /\ stage' = FALSE
  /\ Report("failed")
  /\ UNCHANGED <<live, prior, journal, entry, resume, runs, historyVars>>

-----------------------------------------------------------------------------
(* The environment: the command is killed, the server is started.          *)

Crash ==
  /\ step # "idle"
  /\ step' = "idle"
  /\ UNCHANGED <<diskVars, entry, resume, runs, outcome, historyVars>>

\* sqlite.OpenContext creates a missing database.  Nothing at server start
\* looks at the journal.
StartServer ==
  /\ step = "idle" /\ live[Database] = Absent
  /\ live' = [live EXCEPT ![Database] = Fresh]
  /\ UNCHANGED <<prior, staged, stage, journal, commandVars, historyVars>>

RestoreNext ==
  \/ Restore \/ RestoreRefused
  \/ \E artwork \in BOOLEAN : StageArchive(artwork)
  \/ StageFails \/ WritePrepared \/ WritePreparedFails
  \/ MoveAside \/ Install \/ PublishFails
  \/ \E synced \in BOOLEAN : WritePublished(synced) \/ RemoveJournal(synced)
  \/ RemoveReplacement \/ Reinstate \/ RemoveAdded \/ RemovePrior
  \/ EmptyStage \/ RemoveStage \/ RecoverFails
  \/ Crash \/ StartServer

RestoreSpec == RestoreInit /\ [][RestoreNext]_restoreVars

-----------------------------------------------------------------------------

\* While a restore is not published, every entry of the installation it began
\* from is still on disk, in place or moved aside: whatever rename fails and
\* wherever the command is killed, nothing of the prior installation is lost.
PriorKept ==
  journal.phase = "prepared" =>
    \A i \in journal.had : base[i] \in {live[i], prior[i]}

\* When no restore is pending, the data directory holds one whole installation
\* and nothing moved aside: the one before the last journalled restore, or the
\* one it published.  (The server may have created a database where there was
\* none.)
SettledWhole ==
  step = "idle" /\ journal.phase = "none" =>
    /\ prior = Nothing
    /\ \/ live = target
       \/ \A i \in Entries :
            live[i] = base[i] \/ (i = Database /\ base[i] = Absent /\ live[i] = Fresh)

\* "Backup restored" is printed only when every entry of the archive is in place.
RestoredIsTarget == outcome = "restored" => live = target

-----------------------------------------------------------------------------
(* The inductive invariant: what each entry holds at every step.           *)

\* The entry is what it was before the restore.
AsBefore(i) ==
  live[i] = base[i] \/ (i = Database /\ base[i] = Absent /\ live[i] = Fresh)

\* Not yet published: an entry that existed is in place unless its prior name
\* has it; one that did not is still staged unless it was moved in or undone.
PreparedEntry(i) ==
  /\ i \in journal.had <=> base[i] # Absent
  /\ i \in journal.had =>
       prior[i] = base[i] \/ (prior[i] = Absent /\ live[i] = base[i])
  /\ i \notin journal.had =>
       prior[i] = Absent /\ (staged[i] # Absent => AsBefore(i))

\* Publication has moved the entries before the current one and no other.
MovedEntry(i) ==
  /\ i < entry \/ step = "publish" => live[i] = target[i] /\ staged[i] = Absent
  /\ i > entry /\ step # "publish" =>
       live[i] = base[i] /\ prior[i] = Absent /\ staged[i] = target[i]
  /\ i = entry /\ step # "publish" =>
       /\ staged[i] = target[i]
       /\ IF step = "aside" THEN live[i] = base[i] /\ prior[i] = Absent
          ELSE live[i] = Absent

\* Recovery has settled the entries before the current one.
RecoveredEntry(i) ==
  i < entry \/ step \in {"unstage", "rmdir", "unlist"} =>
    prior[i] = Absent /\ (journal.phase = "prepared" => AsBefore(i))

\* The steps of RecoverInterruptedRestore.
RecoverySteps == {"recover", "reinstate", "unstage", "rmdir", "unlist"}

\* What the disk holds at every phase of the journal and every step of the
\* command: this is what makes each kill and each failure recoverable.
RestoreInv ==
  /\ journal.phase = "none" =>
       /\ step \in {"idle", "staging", "journal"}
       /\ prior = Nothing
       /\ \/ live = target /\ live[Database] # Absent
          \/ \A i \in Entries : AsBefore(i)
  /\ journal.phase = "prepared" => \A i \in Entries : PreparedEntry(i)
  /\ journal.phase = "published" =>
       /\ live = target /\ live[Database] # Absent
       /\ step \in {"idle", "recover", "unstage", "rmdir", "unlist"}
  /\ step \in {"staging", "journal"} => journal.phase = "none"
  /\ step = "journal" => staged[Database] # Absent /\ staged[Sidecar] # Absent
  /\ step \in {"aside", "install", "publish"} =>
       /\ journal.phase = "prepared" /\ target[Database] # Absent
       /\ \A i \in Entries : MovedEntry(i)
  /\ step = "reinstate" =>
       journal.phase = "prepared" /\ entry \in journal.had /\ prior[entry] = base[entry]
  /\ step \in RecoverySteps =>
       \A i \in Entries : RecoveredEntry(i)
  /\ step \in RecoverySteps /\ resume = "finish" => journal.phase = "published"
  /\ outcome = "restored" => step = "idle" /\ live = target /\ live[Database] # Absent

\* Running the command again after an interruption recovers: it is not refused.
RerunRecovers == outcome # "refused"

=============================================================================
