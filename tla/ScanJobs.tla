------------------------------ MODULE ScanJobs ------------------------------
(**************************************************************************)
(* Library scan jobs: the durable queue, the single runner that claims and  *)
(* executes them, the one scan the catalog runs at a time, cancellation by  *)
(* the owner, automatic and manual retry, shutdown and restart.             *)
(*                                                                          *)
(* Every critical section of scanCommitMu/schedulerMu, of mu, and every     *)
(* database statement that another actor can overtake is an action, and a   *)
(* statement whose failure the code treats has a branch for it.  What a     *)
(* scan finds is abstracted to its outcome; a job is its position in the    *)
(* queue.  Besides the jobs, only the refresh scan the server starts before *)
(* the runner can be active (owner scans are queued while the runner runs). *)
(**************************************************************************)
EXTENDS Integers, FiniteSets

CONSTANTS
  ScanLibraries,     \* libraries
  MaxScanJobs,       \* bound on the jobs ever queued
  MaxScanAttempts,   \* attempts of one job and its retries (3 in the code)
  ScanHistory,       \* ended jobs kept per library (20 in the code)
  ScanCancellers,    \* concurrent cancel requests
  MaxScanRestarts,   \* bound on server restarts
  NoIntent           \* no cancellation intent
ASSUME ScanJobsAssumption ==
  /\ MaxScanJobs \in Nat /\ MaxScanAttempts \in Nat \ {0} /\ ScanHistory \in Nat
  /\ MaxScanRestarts \in Nat /\ NoIntent \notin ScanCancellers /\ ScanLibraries # {}

VARIABLES
  scanJobs,     \* the scan_jobs table
  activeJob,    \* activeJobID, its cancelled context, ...Committed, ...OwnerCancelled
  intents,      \* pendingJobCancellations: the cancel request whose intent is pending
  consumed,     \* the cancel requests whose intent a runner consumed
  cancels,      \* CancelScanJob calls
  runner,       \* runScanScheduler and executeScanJob
  runnerStopping, \* the runner's context is cancelled
  jobScan,      \* scanning, done and the running scan
  scanOutcome,  \* Catalog.status.Status
  published,    \* history: the jobs whose scan committed
  discarded,    \* history: the jobs that a dropped database error cost their runner,
                \* their record or their cancellation intent
  restarts

scanJobVars == <<scanJobs, activeJob, intents, consumed, cancels, runner, runnerStopping,
                 jobScan, scanOutcome, published, discarded, restarts>>

JobIds == 1 .. MaxScanJobs
NoJob == 0
Ended == {"succeeded", "partial", "failed", "cancelled", "interrupted"}
Outcomes == {"complete", "partial", "review_required", "failed"}
NoScanJob == [library |-> CHOOSE l \in ScanLibraries : TRUE, status |-> "absent", cancel |-> FALSE,
              attempt |-> 1, delayed |-> FALSE, retryable |-> FALSE]
IdleRunner == [at |-> "idle", job |-> NoJob, done |-> FALSE, result |-> "none", owner |-> FALSE]
NoActiveJob == [job |-> NoJob, ended |-> FALSE, committed |-> FALSE, owner |-> FALSE]
NoJobScan == [at |-> "off", job |-> NoJob, cancelled |-> FALSE]
NoCancel == [at |-> "idle", job |-> NoJob, intent |-> NoIntent]

\* The table, the runner, the scan and the cancel requests are well formed.
ScanJobsTypeOK ==
  /\ scanJobs \in [JobIds -> [library : ScanLibraries, cancel : BOOLEAN, delayed : BOOLEAN,
                              status : Ended \cup {"absent", "queued", "running", "pruned"},
                              attempt : 1 .. MaxScanAttempts, retryable : BOOLEAN]]
  /\ activeJob \in [job : {NoJob} \cup JobIds, ended : BOOLEAN, committed : BOOLEAN, owner : BOOLEAN]
  /\ intents \in [JobIds -> ScanCancellers \cup {NoIntent}] /\ consumed \subseteq ScanCancellers
  /\ cancels \in [ScanCancellers ->
       [at : {"idle", "stopped", "marked", "updated", "missed", "failed", "ok", "refused"},
        job : {NoJob} \cup JobIds, intent : ScanCancellers \cup {NoIntent}]]
  /\ runner \in [at : {"idle", "off", "claimed", "registered", "starting", "started", "waiting",
                       "draining", "settling", "finishing", "retrying", "clearing"},
                 job : {NoJob} \cup JobIds, done : BOOLEAN, owner : BOOLEAN,
                 result : {"none", "active", "cancelled", "nil", "failed", "review_required"}]
  /\ runnerStopping \in BOOLEAN /\ restarts \in 0 .. MaxScanRestarts
  /\ jobScan \in [at : {"off", "walking", "committed", "failing", "reported"},
               job : {NoJob} \cup JobIds, cancelled : BOOLEAN]
  /\ scanOutcome \in Outcomes \cup {"running"} /\ published \subseteq JobIds /\ discarded \subseteq JobIds

ScanJobsInit ==
  /\ scanJobs = [j \in JobIds |-> NoScanJob]
  /\ activeJob = NoActiveJob /\ intents = [j \in JobIds |-> NoIntent] /\ consumed = {}
  /\ cancels = [c \in ScanCancellers |-> NoCancel]
  /\ runner = IdleRunner /\ runnerStopping = FALSE
  /\ jobScan \in {NoJobScan, [NoJobScan EXCEPT !.at = "walking"]}
  /\ scanOutcome = (IF jobScan.at = "off" THEN "complete" ELSE "running")
  /\ published = {} /\ discarded = {} /\ restarts = 0

-----------------------------------------------------------------------------
(* The queue.                                                              *)

Unused(j) == scanJobs[j].status = "absent"
NextId == CHOOSE j \in JobIds : Unused(j) /\ \A i \in JobIds : i < j => ~Unused(i)

\* The unique index scan_jobs_one_active_library.
LibraryBusy(library) ==
  \E j \in JobIds : scanJobs[j].library = library /\ scanJobs[j].status \in {"queued", "running"}

\* A request for a library with a queued or running job returns that job.
Insertable(library) == (\E j \in JobIds : Unused(j)) /\ ~LibraryBusy(library)
Inserted(library, attempt, delayed) ==
  [scanJobs EXCEPT ![NextId] = [library |-> library, status |-> "queued", cancel |-> FALSE,
                                attempt |-> attempt, delayed |-> delayed, retryable |-> FALSE]]

\* QueueLibraryScan, from the owner, at startup or for a schedule that is due.
QueueLibraryScan(library) ==
  /\ Insertable(library)
  /\ scanJobs' = Inserted(library, 1, FALSE)
  /\ UNCHANGED <<activeJob, intents, consumed, cancels, runner, runnerStopping, jobScan, scanOutcome,
                 published, discarded, restarts>>

\* A partial job needs a retryable file, the others rescan the whole library.
Retryable(j) ==
  /\ scanJobs[j].status \in {"partial", "failed", "interrupted", "cancelled"}
  /\ scanJobs[j].attempt < MaxScanAttempts
  /\ scanJobs[j].retryable \/ scanJobs[j].status # "partial"

RetryScanJob(j) ==
  /\ Retryable(j) /\ Insertable(scanJobs[j].library)
  /\ scanJobs' = Inserted(scanJobs[j].library, scanJobs[j].attempt + 1, FALSE)
  /\ UNCHANGED <<activeJob, intents, consumed, cancels, runner, runnerStopping, jobScan, scanOutcome,
                 published, discarded, restarts>>

\* pruneScanJobHistory deletes the oldest ended jobs of the library.
PrunedHistory(table, library) ==
  LET ended == {j \in JobIds : table[j].library = library /\ table[j].status \in Ended}
      old == {j \in ended : Cardinality({i \in ended : i > j}) >= ScanHistory}
  IN [j \in JobIds |-> IF j \in old THEN [NoScanJob EXCEPT !.status = "pruned"] ELSE table[j]]

-----------------------------------------------------------------------------
(* CancelScanJob.                                                          *)

\* The first critical section: a committed job is refused, the active one is
\* stopped, any other gets an intent.
CancelMark(c, j) ==
  /\ cancels[c].at = "idle" /\ ~Unused(j)
  /\ LET active == activeJob.job = j
         intent == IF intents[j] = NoIntent THEN c ELSE intents[j]
     IN
     /\ activeJob' = IF active /\ ~activeJob.committed
                     THEN [activeJob EXCEPT !.owner = TRUE, !.ended = TRUE] ELSE activeJob
     /\ intents' = IF active THEN intents ELSE [intents EXCEPT ![j] = intent]
     /\ cancels' = [cancels EXCEPT ![c] =
          [at |-> IF ~active THEN "marked" ELSE IF activeJob.committed THEN "refused" ELSE "stopped",
           job |-> j, intent |-> IF active THEN NoIntent ELSE intent]]
  /\ UNCHANGED <<scanJobs, consumed, runner, runnerStopping, jobScan, scanOutcome, published,
                 discarded, restarts>>

\* The request is recorded for a job that was active; it is stopped all the
\* same when the record fails.
CancelRecord(c, recorded) ==
  /\ cancels[c].at = "stopped"
  /\ scanJobs' = IF recorded THEN [scanJobs EXCEPT ![cancels[c].job].cancel = TRUE] ELSE scanJobs
  /\ cancels' = [cancels EXCEPT ![c].at = IF recorded THEN "ok" ELSE "refused"]
  /\ UNCHANGED <<activeJob, intents, consumed, runner, runnerStopping, jobScan, scanOutcome,
                 published, discarded, restarts>>

\* Otherwise a queued job ends here and a running one is asked to.
CancelUpdate(c, written) ==
  LET j == cancels[c].job
      hit == written /\ scanJobs[j].status \in {"queued", "running"}
  IN
  /\ cancels[c].at = "marked"
  /\ scanJobs' = IF ~hit THEN scanJobs
                 ELSE [scanJobs EXCEPT ![j].cancel = TRUE,
                         ![j].status = IF @ = "queued" THEN "cancelled" ELSE @]
  /\ cancels' = [cancels EXCEPT ![c].at =
       IF hit THEN "updated" ELSE IF written THEN "missed" ELSE "failed"]
  /\ UNCHANGED <<activeJob, intents, consumed, runner, runnerStopping, jobScan, scanOutcome,
                 published, discarded, restarts>>

\* A request withdraws the intent it shares, not a later one.
IntentsAfter(c) ==
  IF intents[cancels[c].job] = cancels[c].intent
  THEN [intents EXCEPT ![cancels[c].job] = NoIntent] ELSE intents

\* An intent that a failed request withdraws is also withdrawn from the requests
\* that share it.
IntentLost(c) ==
  /\ cancels[c].at = "failed" /\ intents[cancels[c].job] = cancels[c].intent
  /\ \E d \in ScanCancellers \ {c} : cancels[d].at = "marked" /\ cancels[d].intent = cancels[c].intent

\* The intent is withdrawn; the answer says whether anything was cancelled.
CancelSettle(c) ==
  LET j == cancels[c].job IN
  /\ cancels[c].at \in {"updated", "missed", "failed"}
  /\ intents' = IntentsAfter(c)
  /\ cancels' = [cancels EXCEPT ![c].at =
       IF @ = "updated" \/ (@ = "missed" /\ cancels[c].intent \in consumed) THEN "ok" ELSE "refused"]
  /\ scanJobs' = IF scanJobs[j].status = "cancelled" /\ cancels'[c].at = "ok"
                 THEN PrunedHistory(scanJobs, scanJobs[j].library) ELSE scanJobs
  /\ discarded' = IF IntentLost(c) THEN discarded \cup {j} ELSE discarded
  /\ UNCHANGED <<activeJob, consumed, runner, runnerStopping, jobScan, scanOutcome, published, restarts>>

-----------------------------------------------------------------------------
(* The runner.                                                             *)

RunnerAt(step) == runner' = [runner EXCEPT !.at = step]

\* The runner goes on after a database error of its job as if there were none.
NotesDiscarded(done) == discarded' = IF done THEN discarded ELSE discarded \cup {runner.job}

ClaimableJob(j) == scanJobs[j].status = "queued" /\ ~scanJobs[j].cancel /\ ~scanJobs[j].delayed

\* claimScanJob takes the oldest claimable job and commits the claim.
ClaimScanJob ==
  /\ runner.at = "idle" /\ ~runnerStopping
  /\ \E j \in JobIds :
       /\ ClaimableJob(j) /\ \A i \in JobIds : i < j => ~ClaimableJob(i)
       /\ scanJobs' = [scanJobs EXCEPT ![j].status = "running"]
       /\ runner' = [IdleRunner EXCEPT !.at = "claimed", !.job = j]
  /\ UNCHANGED <<activeJob, intents, consumed, cancels, runnerStopping, jobScan, scanOutcome,
                 published, discarded, restarts>>

\* It reads the claimed job back; when that fails the job is not executed.
RereadFails ==
  /\ runner.at = "claimed" /\ runner' = IdleRunner
  /\ NotesDiscarded(FALSE)
  /\ UNCHANGED <<scanJobs, activeJob, intents, consumed, cancels, runnerStopping, jobScan, scanOutcome,
                 published, restarts>>

\* executeScanJob registers the job and consumes a pending intent.
RegisterJob ==
  LET j == runner.job
      pending == intents[j] # NoIntent
  IN
  /\ runner.at = "claimed"
  /\ consumed' = consumed \cup ({intents[j]} \ {NoIntent})
  /\ intents' = [intents EXCEPT ![j] = NoIntent]
  /\ activeJob' = [job |-> j, ended |-> pending, committed |-> FALSE, owner |-> pending]
  /\ RunnerAt(IF pending THEN "starting" ELSE "registered")
  /\ UNCHANGED <<scanJobs, cancels, runnerStopping, jobScan, scanOutcome, published, discarded,
                 restarts>>

\* A request recorded before the registration is read back from the table; a
\* read that fails finds none.
CancelSeen == scanJobs[runner.job].cancel

CheckCancelRequested(read) ==
  /\ runner.at = "registered"
  /\ activeJob' = IF read /\ CancelSeen THEN [activeJob EXCEPT !.owner = TRUE, !.ended = TRUE] ELSE activeJob
  /\ RunnerAt("starting") /\ NotesDiscarded(CancelSeen => read)
  /\ UNCHANGED <<scanJobs, intents, consumed, cancels, runnerStopping, jobScan, scanOutcome,
                 published, restarts>>

\* startScan: ErrScanActive while another scan runs.
StartJobScan ==
  /\ runner.at = "starting"
  /\ IF jobScan.at # "off"
     THEN /\ runner' = [runner EXCEPT !.at = "settling", !.result = "active"]
          /\ UNCHANGED <<jobScan, scanOutcome>>
     ELSE /\ RunnerAt("started") /\ scanOutcome' = "running"
          /\ jobScan' = [at |-> "walking", job |-> runner.job, cancelled |-> FALSE]
  /\ UNCHANGED <<scanJobs, activeJob, intents, consumed, cancels, runnerStopping, published,
                 discarded, restarts>>

\* scanLibrary reads Catalog.done after startScan returned: nil when the scan is
\* over already.
ReadDone ==
  /\ runner.at = "started"
  /\ runner' = [runner EXCEPT !.at = "waiting", !.done = jobScan.at # "off"]
  /\ UNCHANGED <<scanJobs, activeJob, intents, consumed, cancels, runnerStopping, jobScan, scanOutcome,
                 published, discarded, restarts>>

JobContextDone == activeJob.ended \/ runnerStopping

\* The select of scanLibrary; a nil channel is never ready.
ScanDone ==
  /\ runner.at = "waiting" /\ runner.done /\ jobScan.at = "off"
  /\ runner' = [runner EXCEPT !.at = "settling", !.result =
       IF scanOutcome \in {"failed", "review_required"} THEN scanOutcome ELSE "nil"]
  /\ UNCHANGED <<scanJobs, activeJob, intents, consumed, cancels, runnerStopping, jobScan, scanOutcome,
                 published, discarded, restarts>>

ScanInterrupted ==
  /\ runner.at = "waiting" /\ JobContextDone
  /\ RunnerAt("draining") /\ jobScan' = [jobScan EXCEPT !.cancelled = jobScan.at # "off"]
  /\ UNCHANGED <<scanJobs, activeJob, intents, consumed, cancels, runnerStopping, scanOutcome,
                 published, discarded, restarts>>

ScanDrained ==
  /\ runner.at = "draining" /\ runner.done /\ jobScan.at = "off"
  /\ runner' = [runner EXCEPT !.at = "settling", !.result = "cancelled"]
  /\ UNCHANGED <<scanJobs, activeJob, intents, consumed, cancels, runnerStopping, jobScan, scanOutcome,
                 published, discarded, restarts>>

\* From here on a cancel is refused.
SettleJob ==
  /\ runner.at = "settling"
  /\ runner' = [runner EXCEPT !.at = "finishing", !.owner = activeJob.owner]
  /\ activeJob' = [activeJob EXCEPT !.committed = TRUE]
  /\ UNCHANGED <<scanJobs, intents, consumed, cancels, runnerStopping, jobScan, scanOutcome,
                 published, discarded, restarts>>

\* A job that met another scan is queued again, later, unless the owner stopped
\* it; when the write fails the job is marked failed, if that write succeeds.
RequeueJob(written, fallback) ==
  LET j == runner.job IN
  /\ runner.at = "finishing" /\ runner.result = "active"
  /\ scanJobs' = IF written /\ runner.owner
                 THEN [scanJobs EXCEPT ![j].status = "cancelled", ![j].cancel = TRUE]
                 ELSE IF written THEN [scanJobs EXCEPT ![j].status = "queued", ![j].delayed = TRUE]
                 ELSE IF fallback THEN [scanJobs EXCEPT ![j].status = "failed"] ELSE scanJobs
  /\ RunnerAt("clearing") /\ NotesDiscarded(written \/ fallback)
  /\ UNCHANGED <<activeJob, intents, consumed, cancels, runnerStopping, jobScan, scanOutcome,
                 published, restarts>>

\* The owner's cancel comes first, then an interruption, then the outcome.
TerminalStatus ==
  IF runner.owner THEN "cancelled"
  ELSE IF runner.result = "cancelled" THEN "interrupted"
  ELSE IF runner.result # "nil" \/ scanOutcome = "failed" THEN "failed"
  ELSE IF scanOutcome = "partial" THEN "partial" ELSE "succeeded"

\* Mutant of FinishedStatus: a failed terminal write leaves the row as it is.
FinishedUnrecorded(recorded, fallback) == IF recorded THEN TerminalStatus ELSE "running"

\* When finishScanJob fails the job is marked failed; when that fails too, the
\* row stays as it is.
FinishedStatus(recorded, fallback) ==
  IF recorded THEN TerminalStatus ELSE IF fallback THEN "failed" ELSE "running"

\* finishScanJob.  Failed files of the scan may be retryable, and a failure may
\* be permanent.  An unrecorded outcome ends the job without retry or pruning.
FinishJob(recorded, fallback, retryable, permanent) ==
  LET j == runner.job
      status == FinishedStatus(recorded, fallback)
      retry == /\ recorded /\ status \in {"partial", "failed"} /\ ~permanent
               /\ scanJobs[j].attempt < MaxScanAttempts
  IN
  /\ runner.at = "finishing" /\ runner.result # "active"
  /\ scanJobs' = [scanJobs EXCEPT ![j].status = status, ![j].retryable = recorded /\ retryable]
  /\ runner' = [runner EXCEPT !.at = IF retry THEN "retrying" ELSE "clearing",
                              !.result = IF recorded THEN @ ELSE "none"]
  /\ NotesDiscarded(recorded \/ fallback)
  /\ UNCHANGED <<activeJob, intents, consumed, cancels, runnerStopping, jobScan, scanOutcome,
                 published, restarts>>

\* The automatic retry waits for its delay; there is none when the library has a
\* new job already or the insert fails, and no delay when its write fails.
RetryAutomatically(inserted, delayed) ==
  LET j == runner.job IN
  /\ runner.at = "retrying"
  /\ scanJobs' = IF inserted /\ Retryable(j) /\ Insertable(scanJobs[j].library)
                 THEN Inserted(scanJobs[j].library, scanJobs[j].attempt + 1, delayed) ELSE scanJobs
  /\ RunnerAt("clearing")
  /\ UNCHANGED <<activeJob, intents, consumed, cancels, runnerStopping, jobScan, scanOutcome,
                 published, discarded, restarts>>

\* pruneScanJobHistory and clearActiveScanJob.
ClearActiveJob ==
  /\ runner.at = "clearing"
  /\ activeJob' = NoActiveJob /\ runner' = IdleRunner
  /\ scanJobs' = IF runner.result \in {"active", "none"} THEN scanJobs
                 ELSE PrunedHistory(scanJobs, scanJobs[runner.job].library)
  /\ UNCHANGED <<intents, consumed, cancels, runnerStopping, jobScan, scanOutcome, published,
                 discarded, restarts>>

RunnerExits ==
  /\ runner.at = "idle" /\ runnerStopping
  /\ RunnerAt("off")
  /\ UNCHANGED <<scanJobs, activeJob, intents, consumed, cancels, runnerStopping, jobScan, scanOutcome,
                 published, discarded, restarts>>

-----------------------------------------------------------------------------
(* The scan: runScan, scan and the commit of persist.                      *)

ScanContextDone == jobScan.cancelled \/ (jobScan.job # NoJob /\ JobContextDone)

\* Mutant of Committable: the context is not checked again under scanCommitMu.
CommittableLate == jobScan.at = "walking"

\* The last check of the context, with scanCommitMu held.
Committable == jobScan.at = "walking" /\ ~ScanContextDone

\* The transaction commits; whatever job is active can no longer be cancelled.
CommitJobScan ==
  /\ Committable
  /\ jobScan' = [jobScan EXCEPT !.at = "committed"]
  /\ published' = published \cup ({jobScan.job} \ {NoJob})
  /\ activeJob' = IF activeJob.job # NoJob THEN [activeJob EXCEPT !.committed = TRUE] ELSE activeJob
  /\ UNCHANGED <<scanJobs, intents, consumed, cancels, runner, runnerStopping, scanOutcome,
                 discarded, restarts>>

\* A location is unavailable, the context is done or the database fails.
FailJobScan ==
  /\ jobScan.at = "walking"
  /\ jobScan' = [jobScan EXCEPT !.at = "failing"]
  /\ UNCHANGED <<scanJobs, activeJob, intents, consumed, cancels, runner, runnerStopping, scanOutcome,
                 published, discarded, restarts>>

\* runScan sets the outcome, saves it, and only then ends the scan.
ReportScan(outcome) ==
  /\ \/ jobScan.at = "committed"
     \/ jobScan.at = "failing" /\ outcome = "failed"
  /\ jobScan' = [jobScan EXCEPT !.at = "reported"] /\ scanOutcome' = outcome
  /\ UNCHANGED <<scanJobs, activeJob, intents, consumed, cancels, runner, runnerStopping, published,
                 discarded, restarts>>

EndScan ==
  /\ jobScan.at = "reported" /\ jobScan' = NoJobScan
  /\ UNCHANGED <<scanJobs, activeJob, intents, consumed, cancels, runner, runnerStopping, scanOutcome,
                 published, discarded, restarts>>

-----------------------------------------------------------------------------
(* Time, shutdown and restart.                                             *)

DelayElapses(j) ==
  /\ scanJobs[j].status = "queued" /\ scanJobs[j].delayed
  /\ scanJobs' = [scanJobs EXCEPT ![j].delayed = FALSE]
  /\ UNCHANGED <<activeJob, intents, consumed, cancels, runner, runnerStopping, jobScan, scanOutcome,
                 published, discarded, restarts>>

\* Shutdown cancels the runner, waits for it and then cancels the scan.
StopRunner ==
  /\ ~runnerStopping /\ runnerStopping' = TRUE
  /\ UNCHANGED <<scanJobs, activeJob, intents, consumed, cancels, runner, jobScan, scanOutcome,
                 published, discarded, restarts>>
StopJobScan ==
  /\ runnerStopping /\ runner.at = "off" /\ jobScan.at # "off" /\ ~jobScan.cancelled
  /\ jobScan' = [jobScan EXCEPT !.cancelled = TRUE]
  /\ UNCHANGED <<scanJobs, activeJob, intents, consumed, cancels, runner, runnerStopping, scanOutcome,
                 published, discarded, restarts>>

\* Mutant of Interrupted: the jobs that were running are left as they are.
InterruptedNot == scanJobs

\* StartScanScheduler marks the jobs the last process left running.
Interrupted == [j \in JobIds |-> IF scanJobs[j].status = "running"
                                 THEN [scanJobs[j] EXCEPT !.status = "interrupted"] ELSE scanJobs[j]]

\* The process dies at any moment and starts again; only the table survives.
RestartServer ==
  /\ restarts < MaxScanRestarts /\ restarts' = restarts + 1
  /\ scanJobs' = Interrupted
  /\ activeJob' = NoActiveJob /\ intents' = [j \in JobIds |-> NoIntent] /\ consumed' = {}
  /\ cancels' = [c \in ScanCancellers |-> IF cancels[c].at \in {"ok", "refused"} THEN cancels[c] ELSE NoCancel]
  /\ runner' = IdleRunner /\ runnerStopping' = FALSE
  /\ jobScan' \in {NoJobScan, [NoJobScan EXCEPT !.at = "walking"]}
  /\ scanOutcome' = (IF jobScan'.at = "off" THEN "complete" ELSE "running")
  /\ UNCHANGED <<published, discarded>>

RunnerStep ==
  \/ ClaimScanJob \/ RereadFails \/ RegisterJob \/ StartJobScan \/ ReadDone
  \/ ScanDone \/ ScanInterrupted \/ ScanDrained \/ SettleJob \/ ClearActiveJob \/ RunnerExits
  \/ \E read \in BOOLEAN : CheckCancelRequested(read)
  \/ \E written, fallback \in BOOLEAN : RequeueJob(written, fallback)
  \/ \E recorded, fallback, retryable, permanent \in BOOLEAN :
       FinishJob(recorded, fallback, retryable, permanent)
  \/ \E inserted, delayed \in BOOLEAN : RetryAutomatically(inserted, delayed)
ScanStep ==
  \/ CommitJobScan \/ FailJobScan \/ EndScan \/ StopJobScan
  \/ \E outcome \in Outcomes : ReportScan(outcome)
CancelStep(c) ==
  CancelSettle(c) \/ \E written \in BOOLEAN : CancelRecord(c, written) \/ CancelUpdate(c, written)

ScanJobsNext ==
  \/ RunnerStep \/ ScanStep \/ StopRunner \/ RestartServer
  \/ \E c \in ScanCancellers : CancelStep(c) \/ \E j \in JobIds : CancelMark(c, j)
  \/ \E l \in ScanLibraries : QueueLibraryScan(l)
  \/ \E j \in JobIds : RetryScanJob(j) \/ DelayElapses(j)

\* The runner and the scan are goroutines that run to their end, requests are
\* served, delays elapse.  A statement may fail, but a failed claim is tried again
\* a second later and the database does not refuse it for ever.
ScanJobsFairness ==
  /\ WF_scanJobVars(RunnerStep) /\ WF_scanJobVars(ScanStep)
  /\ \A c \in ScanCancellers : WF_scanJobVars(CancelStep(c))
  /\ \A j \in JobIds : WF_scanJobVars(DelayElapses(j))

ScanJobsSpec == ScanJobsInit /\ [][ScanJobsNext]_scanJobVars /\ ScanJobsFairness

-----------------------------------------------------------------------------

\* A cancel that was acknowledged publishes nothing: whenever it came (queued,
\* claimed, registered, scanning, requeued), the job's scan has not committed
\* and never does.  ("Canceled scans publish no catalog changes.")  Only after a
\* database error may it have published: an outcome that was not recorded leaves
\* a running row that still accepts a cancel, a recorded request that could not
\* be read back is not seen, and a request that fails withdraws the intent
\* another one relies on.
CancelledPublishesNothing ==
  \A j \in published :
    /\ scanJobs[j].status # "cancelled"
    /\ \A c \in ScanCancellers : cancels[c].at = "ok" => cancels[c].job # j \/ j \in discarded

\* A queued job can be claimed: a cancel that crossed a requeue never leaves a
\* job that blocks its library and that no runner will take (unless the cancel
\* request could not be read back, or lost the intent it shared).
QueuedIsClaimable ==
  \A j \in JobIds : scanJobs[j].status = "queued" => ~scanJobs[j].cancel \/ j \in discarded

\* A running job is the one the runner works on: a failed terminal write, a
\* requeue or a restart leaves none behind to hold its library's place.  The
\* exceptions are the errors the runner drops: the read of the job after the
\* claim committed, and the write that marks a job failed whose own outcome or
\* requeue could not be written.
RunningIsOwned ==
  \A j \in JobIds : scanJobs[j].status = "running" =>
    \/ runner.job = j /\ runner.at \notin {"idle", "off", "retrying", "clearing"}
    \/ j \in discarded

\* Success is recorded only for a job whose own scan committed.
SucceededIsPublished ==
  \A j \in JobIds : scanJobs[j].status \in {"succeeded", "partial"} => j \in published

\* The recorded outcome of a job is what happened to the catalog, whenever the
\* cancel, the commit, a requeue or a restart came.
OutcomesTrue == CancelledPublishesNothing /\ SucceededIsPublished

\* The two locked flags agree with the runner: no cancellation intent is left for
\* a job once every cancel request for it has been answered.
IntentsAreTransient ==
  \A j \in JobIds : intents[j] # NoIntent =>
    \E c \in ScanCancellers : cancels[c].job = j /\ cancels[c].at \in {"marked", "updated", "missed", "failed"}

\* No job holds its library's place without somebody to end it, unless a database
\* error of that job was dropped: a queued one can be claimed, a running one is
\* the runner's, an intent has its request.
ScanJobsInv == ScanJobsTypeOK /\ QueuedIsClaimable /\ RunningIsOwned /\ IntentsAreTransient

\* The runner waits on a done channel it read too late.
LostDone == runner.at \in {"waiting", "draining"} /\ ~runner.done

\* Every queued job ends, through failed writes, requeues, retries and restarts,
\* unless the server stops, the runner lost its scan's done channel or a database
\* error of the job was dropped.
QueuedJobsEnd ==
  \A j \in JobIds : scanJobs[j].status \in {"queued", "running"} ~>
    (scanJobs[j].status \in Ended \cup {"pruned"} \/ runnerStopping \/ LostDone \/ j \in discarded)

\* The runner always drains when the server shuts down, which the shutdown waits
\* for until its deadline.
RunnerDrains == runnerStopping ~> (runner.at = "off" \/ ~runnerStopping)
=============================================================================
