----------------------------- MODULE BackupJobs -----------------------------
(**************************************************************************)
(* Backups: the durable job table, the one loop that runs them, the steps   *)
(* of Create that leave files in the destination, retention, cancellation   *)
(* by the owner, shutdown and restart.                                      *)
(*                                                                          *)
(* An archive is known by the job that wrote it, its creation order and its *)
(* size; its contents are abstracted to whether Verify accepts them.  Every *)
(* database statement, lock and rename another actor can overtake is an     *)
(* action.                                                                  *)
(**************************************************************************)
EXTENDS Integers, FiniteSets

CONSTANTS
  MaxBackups,        \* bound on the jobs ever queued
  Destinations,      \* backup folders
  RetainCount,       \* Policy.RetainCount
  BudgetBytes,       \* Policy.BudgetBytes
  BackupCancellers,  \* concurrent cancel requests
  MaxBackupRestarts  \* bound on server restarts
ASSUME BackupJobsAssumption ==
  /\ MaxBackups \in Nat /\ RetainCount \in Nat \ {0} /\ BudgetBytes \in Nat \ {0}
  /\ MaxBackupRestarts \in Nat

VARIABLES
  backups,        \* the backup_jobs table
  destination,    \* Policy.Destination
  armed,          \* Manager.cancel: the job whose context it cancels
  stopped,        \* the jobs whose context is cancelled
  worker,         \* loop, runOnce and Create
  halting,        \* the loop's context is cancelled
  backupCancels,  \* Cancel calls
  partials,       \* the .partial files of Create, <<folder, job>>
  archives,       \* the published archives
  lastVerified,   \* Policy.LastVerifiedFile
  newest,         \* history: the newest archive published in each destination
  unrecorded,     \* history: the jobs whose outcome could not be written
  bootFolder,     \* history: the folder the policy named at the last restart
  reboots

backupVars == <<backups, destination, armed, stopped, worker, halting, backupCancels, partials,
                archives, lastVerified, newest, unrecorded, bootFolder, reboots>>

BackupIds == 1 .. MaxBackups
NoBackup == 0
Finished == {"succeeded", "failed", "cancelled", "interrupted"}
IdleWorker == [at |-> "idle", job |-> NoBackup, to |-> CHOOSE d \in Destinations : TRUE,
               result |-> "none"]
Archives == [job : BackupIds, dir : Destinations, size : 1 .. 2]

\* The table, the loop and the files are well formed.
BackupTypeOK ==
  /\ backups \in [BackupIds -> [status : Finished \cup {"absent", "queued", "running"}, cancel : BOOLEAN]]
  /\ destination \in Destinations /\ armed \in {NoBackup} \cup BackupIds /\ stopped \subseteq BackupIds
  /\ worker \in [at : {"idle", "off", "selected", "armed", "claimed", "snapshot", "archive",
                       "publish", "sync", "record", "rotate", "report", "return"},
                 job : {NoBackup} \cup BackupIds, to : Destinations,
                 result : {"none", "ok", "error", "cancelled"}]
  /\ halting \in BOOLEAN /\ partials \subseteq Destinations \X BackupIds /\ archives \subseteq Archives
  /\ backupCancels \in [BackupCancellers -> [at : {"idle", "asked", "done", "missing"},
                                             job : {NoBackup} \cup BackupIds, running : BOOLEAN]]
  /\ lastVerified \in {NoBackup} \cup BackupIds
  /\ newest \in [Destinations -> {NoBackup} \cup BackupIds] /\ unrecorded \subseteq BackupIds
  /\ bootFolder \in Destinations /\ reboots \in 0 .. MaxBackupRestarts

BackupInit ==
  /\ backups = [j \in BackupIds |-> [status |-> "absent", cancel |-> FALSE]]
  /\ destination \in Destinations /\ armed = NoBackup /\ stopped = {} /\ worker = IdleWorker
  /\ halting = FALSE /\ partials = {} /\ archives = {} /\ lastVerified = NoBackup
  /\ backupCancels = [c \in BackupCancellers |-> [at |-> "idle", job |-> NoBackup, running |-> FALSE]]
  /\ newest = [d \in Destinations |-> NoBackup] /\ unrecorded = {}
  /\ bootFolder = destination /\ reboots = 0

-----------------------------------------------------------------------------
(* The owner: Queue, SetPolicy, Cancel.                                    *)

\* One job is queued or running (unique index); another request is refused.
Queue ==
  /\ \A j \in BackupIds : backups[j].status \notin {"queued", "running"}
  /\ \E j \in BackupIds :
       /\ backups[j].status = "absent" /\ \A i \in BackupIds : i < j => backups[i].status # "absent"
       /\ backups' = [backups EXCEPT ![j].status = "queued"]
  /\ UNCHANGED <<destination, armed, stopped, worker, halting, backupCancels, partials, archives,
                 lastVerified, newest, unrecorded, bootFolder, reboots>>

SetPolicy(d) ==
  /\ d # destination /\ destination' = d
  /\ UNCHANGED <<backups, armed, stopped, worker, halting, backupCancels, partials, archives,
                 lastVerified, newest, unrecorded, bootFolder, reboots>>

\* The transaction of Cancel: a queued job ends here.
CancelBackup(c, j) ==
  /\ backupCancels[c].at = "idle" /\ backups[j].status # "absent"
  /\ LET status == backups[j].status
         hit == status \in {"queued", "running"}
     IN
     /\ backups' = IF ~hit THEN backups
                   ELSE [backups EXCEPT ![j].cancel = TRUE,
                           ![j].status = IF @ = "queued" THEN "cancelled" ELSE @]
     /\ backupCancels' = [backupCancels EXCEPT ![c] =
          [at |-> IF ~hit THEN "missing" ELSE IF status = "running" THEN "asked" ELSE "done",
           job |-> j, running |-> status = "running"]]
  /\ UNCHANGED <<destination, armed, stopped, worker, halting, partials, archives, lastVerified,
                 newest, unrecorded, bootFolder, reboots>>

\* Then the cancel function of whatever run is current is called.
CallCancel(c) ==
  /\ backupCancels[c].at = "asked"
  /\ stopped' = stopped \cup ({armed} \ {NoBackup})
  /\ backupCancels' = [backupCancels EXCEPT ![c].at = "done"]
  /\ UNCHANGED <<backups, destination, armed, worker, halting, partials, archives, lastVerified,
                 newest, unrecorded, bootFolder, reboots>>

-----------------------------------------------------------------------------
(* runOnce.                                                                *)

To(step) == worker' = [worker EXCEPT !.at = step]

SelectJob ==
  /\ worker.at = "idle" /\ ~halting
  /\ \E j \in BackupIds : backups[j].status = "queued"
       /\ worker' = [IdleWorker EXCEPT !.at = "selected", !.job = j]
  /\ UNCHANGED <<backups, destination, armed, stopped, halting, backupCancels, partials, archives,
                 lastVerified, newest, unrecorded, bootFolder, reboots>>

\* Manager.cancel is set before the claim.
ArmedAt(step) == IF step = "selected" THEN worker.job ELSE armed

ArmCancel ==
  /\ worker.at = "selected" /\ armed' = ArmedAt("selected") /\ To("armed")
  /\ UNCHANGED <<backups, destination, stopped, halting, backupCancels, partials, archives,
                 lastVerified, newest, unrecorded, bootFolder, reboots>>

\* A job cancelled since it was selected is not claimed; when the claim cannot be
\* written the run returns, to be tried again.
ClaimJob(written) ==
  /\ worker.at = "armed"
  /\ IF written /\ backups[worker.job].status = "queued"
     THEN /\ backups' = [backups EXCEPT ![worker.job].status = "running"] /\ To("claimed")
     ELSE /\ backups' = backups /\ To("return")
  /\ UNCHANGED <<destination, armed, stopped, halting, backupCancels, partials, archives,
                 lastVerified, newest, unrecorded, bootFolder, reboots>>

ContextDone == worker.job \in stopped \/ halting

\* Create: the policy is read again, the snapshot and the partial are written.
BeginCreate ==
  /\ worker.at = "claimed"
  /\ worker' = [worker EXCEPT !.at = "snapshot", !.to = destination]
  /\ partials' = partials \cup {<<destination, worker.job>>}
  /\ armed' = ArmedAt("claimed")
  /\ UNCHANGED <<backups, destination, stopped, halting, backupCancels, archives, lastVerified,
                 newest, unrecorded, bootFolder, reboots>>

\* The policy cannot be read, or a step of Create fails: a source changed, space
\* ran out, verification failed.  The deferred removals take the partial files away.
CreateFails(result) ==
  /\ worker.at \in {"claimed", "snapshot", "archive", "publish"}
  /\ result = "cancelled" => ContextDone
  /\ worker' = [worker EXCEPT !.at = "record", !.result = result]
  /\ partials' = partials \ {<<worker.to, worker.job>>}
  /\ UNCHANGED <<backups, destination, armed, stopped, halting, backupCancels, archives,
                 lastVerified, newest, unrecorded, bootFolder, reboots>>

\* OnlineBackup and snapshotEntries, then writeArchive and Verify, which check the
\* context as they go.
CreateProceeds ==
  /\ \/ worker.at = "snapshot" /\ ~ContextDone /\ To("archive")
     \/ worker.at = "archive" /\ ~ContextDone /\ To("publish")
  /\ UNCHANGED <<backups, destination, armed, stopped, halting, backupCancels, partials, archives,
                 lastVerified, newest, unrecorded, bootFolder, reboots>>

\* The verified partial is renamed; the directory sync may fail after it.
PublishArchive(size, synced) ==
  /\ worker.at = "publish"
  /\ archives' = archives \cup {[job |-> worker.job, dir |-> worker.to, size |-> size]}
  /\ newest' = [newest EXCEPT ![worker.to] = worker.job]
  /\ partials' = partials \ {<<worker.to, worker.job>>}
  /\ worker' = [worker EXCEPT !.at = "record", !.result = IF synced THEN "ok" ELSE "error"]
  /\ UNCHANGED <<backups, destination, armed, stopped, halting, backupCancels, lastVerified,
                 unrecorded, bootFolder, reboots>>

\* Mutant of RunStatus: a failed run is queued again.
RunStatusRequeued ==
  IF worker.result = "ok" THEN "succeeded"
  ELSE IF worker.result = "error" THEN "queued"
  ELSE IF halting THEN "interrupted" ELSE "cancelled"

\* The status a run is recorded with; a cancelled context means the owner
\* unless the loop is being stopped.
RunStatus ==
  CASE worker.result = "ok" -> "succeeded"
    [] worker.result = "error" -> "failed"
    [] worker.result = "cancelled" -> IF halting THEN "interrupted" ELSE "cancelled"

\* The outcome is written; when that fails the run goes on and the job stays
\* running.
RecordStatus(written) ==
  /\ worker.at = "record"
  /\ backups' = IF written THEN [backups EXCEPT ![worker.job].status = RunStatus] ELSE backups
  /\ unrecorded' = IF written THEN unrecorded ELSE unrecorded \cup {worker.job}
  /\ To(IF worker.result = "ok" THEN "rotate" ELSE "return")
  /\ UNCHANGED <<destination, armed, stopped, halting, backupCancels, partials, archives,
                 lastVerified, newest, bootFolder, reboots>>

\* Mutant of Retained: retention starts with the newest archive itself.
RetainedFromFirst(valid, count, budget) ==
  {a \in valid : a.size <= budget /\ Cardinality({b \in valid : b.job > a.job}) < count - 1}

\* Rotate: newest first; the newest is kept, another goes when it is over the
\* count or the bytes kept so far leave no room for it.  The code orders archives
\* by the time in their manifest, which is the order of the jobs as long as the
\* clock is not set back.
Retained(valid, count, budget) ==
  LET n == Cardinality(valid)
      nth(i) == CHOOSE a \in valid : Cardinality({b \in valid : b.job > a.job}) = i
      over(i, used) == i # 0 /\ (i >= count \/ used > budget)
      used[i \in 0 .. n] ==
        IF i = 0 THEN 0
        ELSE LET sum == used[i - 1] + nth(i - 1).size IN IF over(i - 1, sum) THEN used[i - 1] ELSE sum
  IN {nth(i) : i \in {k \in 0 .. n - 1 : ~over(k, used[k] + nth(k).size)}}

\* The archives over the age limit are the oldest ones: they lower the count to
\* some young.  The removal of one archive may fail, which ends the rotation
\* before the older ones; the run succeeded anyway.
RotateArchives(young, failed) ==
  LET here == {a \in archives : a.dir = worker.to}
      gone == here \ Retained(here, young, BudgetBytes)
  IN
  /\ worker.at = "rotate"
  /\ archives' = archives \ {a \in gone : a.job > failed}
  /\ To("report")
  /\ UNCHANGED <<backups, destination, armed, stopped, halting, backupCancels, partials,
                 lastVerified, newest, unrecorded, bootFolder, reboots>>

ReportVerified ==
  /\ worker.at = "report" /\ lastVerified' = worker.job /\ To("return")
  /\ UNCHANGED <<backups, destination, armed, stopped, halting, backupCancels, partials, archives,
                 newest, unrecorded, bootFolder, reboots>>

\* The deferred function cancels the run's context and clears Manager.cancel.
ReturnFromRun ==
  /\ worker.at = "return"
  /\ worker' = IdleWorker /\ armed' = NoBackup
  /\ UNCHANGED <<backups, destination, stopped, halting, backupCancels, partials, archives,
                 lastVerified, newest, unrecorded, bootFolder, reboots>>

LoopExits ==
  /\ worker.at = "idle" /\ halting /\ To("off")
  /\ UNCHANGED <<backups, destination, armed, stopped, halting, backupCancels, partials, archives,
                 lastVerified, newest, unrecorded, bootFolder, reboots>>

-----------------------------------------------------------------------------
(* Shutdown and restart.                                                   *)

ShutdownBackups ==
  /\ ~halting /\ halting' = TRUE
  /\ UNCHANGED <<backups, destination, armed, stopped, worker, backupCancels, partials, archives,
                 lastVerified, newest, unrecorded, bootFolder, reboots>>

\* Mutant of PartialsAfterCrash: nothing is cleaned up at the start.
PartialsLeft == partials

\* cleanupPartials looks in the folder the policy names now.
PartialsAfterCrash == {p \in partials : p[1] # destination}

\* NewManager after a crash: open jobs are interrupted, partials are removed.
RestartBackups ==
  /\ reboots < MaxBackupRestarts /\ reboots' = reboots + 1
  /\ backups' = [j \in BackupIds |-> IF backups[j].status \in {"queued", "running"}
                   THEN [backups[j] EXCEPT !.status = "interrupted"] ELSE backups[j]]
  /\ partials' = PartialsAfterCrash /\ bootFolder' = destination
  /\ armed' = NoBackup /\ worker' = IdleWorker /\ halting' = FALSE
  /\ backupCancels' = [c \in BackupCancellers |-> IF backupCancels[c].at = "asked"
                         THEN [backupCancels[c] EXCEPT !.at = "done"] ELSE backupCancels[c]]
  /\ UNCHANGED <<destination, stopped, archives, lastVerified, newest, unrecorded>>

WorkerStep ==
  \/ SelectJob \/ ArmCancel \/ BeginCreate \/ CreateProceeds
  \/ \E r \in {"error", "cancelled"} : CreateFails(r)
  \/ \E size \in 1 .. 2, ok \in BOOLEAN : PublishArchive(size, ok)
  \/ \E written \in BOOLEAN : ClaimJob(written) \/ RecordStatus(written)
  \/ ReportVerified \/ ReturnFromRun \/ LoopExits
  \/ \E young \in 1 .. RetainCount, failed \in BackupIds \cup {NoBackup} : RotateArchives(young, failed)

BackupNext ==
  \/ WorkerStep \/ Queue \/ ShutdownBackups \/ RestartBackups
  \/ \E d \in Destinations : SetPolicy(d)
  \/ \E c \in BackupCancellers : CallCancel(c) \/ \E j \in BackupIds : CancelBackup(c, j)

\* The loop is one goroutine that keeps running; requests are served.  A claim may
\* fail, but the database does not refuse it for ever.
BackupFairness ==
  /\ WF_backupVars(WorkerStep) /\ SF_backupVars(ClaimJob(TRUE))
  /\ \A c \in BackupCancellers : WF_backupVars(CallCancel(c))

BackupSpec == BackupInit /\ [][BackupNext]_backupVars /\ BackupFairness

-----------------------------------------------------------------------------

\* The newest archive published in a folder is never removed: retention, failed
\* backups, cancellations and restarts leave at least that verified copy.
NewestArchiveKept ==
  \A d \in Destinations : newest[d] # NoBackup => \E a \in archives : a.job = newest[d] /\ a.dir = d

\* A cancel that found the job running takes effect: once the request has been
\* served, a run of that job still creating its archive has a cancelled context.
CancelReachesRun ==
  \A c \in BackupCancellers :
    backupCancels[c].at = "done" /\ backupCancels[c].running
      /\ worker.job = backupCancels[c].job /\ worker.at \in {"claimed", "snapshot", "archive"}
    => ContextDone

\* Partial files exist only while a run writes them or where a crash left them
\* in a folder the policy no longer named at the restart.
PartialsOwned ==
  \A p \in partials :
    \/ p = <<worker.to, worker.job>> /\ worker.at \in {"snapshot", "archive", "publish"}
    \/ reboots > 0 /\ p[1] # bootFolder

\* The job table and the folders agree with the one worker: what it writes is its
\* own, and a cancel served while it runs has reached it.
BackupInv == BackupTypeOK /\ CancelReachesRun /\ PartialsOwned

\* Every queued backup ends, unless the server is shutting down or its outcome
\* could not be written: such a job stays running, and Queue is refused, until
\* the next start interrupts it.
BackupsEnd ==
  \A j \in BackupIds : backups[j].status = "queued" ~>
    (backups[j].status \in Finished \/ halting \/ j \in unrecorded)
=============================================================================
