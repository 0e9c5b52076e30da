---------------------------- MODULE BackupProofs ----------------------------
(**************************************************************************)
(* Proofs about the backup worker of module BackupJobs, for any number of   *)
(* jobs, destinations, cancel requests and restarts and any retention:      *)
(*   - a cancel that was served while its job ran has reached the run, and  *)
(*     partial files are the worker's or where a crash left them;           *)
(*   - the newest archive of every destination is never removed.            *)
(**************************************************************************)
EXTENDS BackupJobs, FiniteSetTheorems, TLAPS

BackupRows == [status : Finished \cup {"absent", "queued", "running"}, cancel : BOOLEAN]
Workers == [at : {"idle", "off", "selected", "armed", "claimed", "snapshot", "archive",
                  "publish", "sync", "record", "rotate", "report", "return"},
            job : {NoBackup} \cup BackupIds, to : Destinations,
            result : {"none", "ok", "error", "cancelled"}]
CancelCalls == [at : {"idle", "asked", "done", "missing"},
                job : {NoBackup} \cup BackupIds, running : BOOLEAN]

Creating == {"claimed", "snapshot", "archive", "publish", "record"}

\* What the worker knows of its job.
WorkerOK ==
  /\ worker.at \notin {"idle", "off"} => worker.job \in BackupIds /\ backups[worker.job].status # "absent"
  /\ worker.at \notin {"idle", "off", "selected"} => armed = worker.job
  /\ worker.at \in Creating => backups[worker.job].status = "running"
  /\ worker.at = "record" => worker.result # "none"
RunningOwned ==
  \A j \in BackupIds : backups[j].status = "running" =>
    j \in unrecorded \/ (worker.job = j /\ worker.at \in Creating)

\* The worker has done with a job whose outcome it could not write.
UnrecordedLeft ==
  \A j \in unrecorded :
    /\ backups[j].status \notin {"absent", "queued"}
    /\ worker.job = j => worker.at \in {"idle", "off", "rotate", "report", "return"}

\* Jobs are used in order, and only the last one is open.
LastIsOpen ==
  \A i, j \in BackupIds : i < j /\ backups[i].status \in {"absent", "queued", "running"} =>
    backups[j].status = "absent"

\* A cancel that found its job running has stopped it, or the job has ended.
CancelServed(c) ==
  backupCancels[c].at \in {"asked", "done"} /\ backupCancels[c].running =>
    /\ backupCancels[c].job \in BackupIds
    /\ \/ backups[backupCancels[c].job].status \in Finished \/ backupCancels[c].job \in unrecorded
       \/ /\ backups[backupCancels[c].job].status = "running"
          /\ backupCancels[c].at = "done" => backupCancels[c].job \in stopped
CancelsServed == \A c \in BackupCancellers : CancelServed(c)

\* A job publishes one archive, and none is newer than the newest.
ArchivesOK ==
  /\ IsFiniteSet(archives)
  /\ \A a \in archives :
       /\ a.job <= newest[a.dir]
       /\ \/ backups[a.job].status \in Finished \/ a.job \in unrecorded
          \/ worker.at = "record" /\ worker.job = a.job
  /\ \A a, b \in archives : a.dir = b.dir /\ a.job = b.job => a = b

BackupOK ==
  /\ WorkerOK /\ RunningOwned /\ UnrecordedLeft /\ LastIsOpen
  /\ CancelsServed /\ PartialsOwned /\ ArchivesOK /\ NewestArchiveKept
BackupIInv == BackupTypeOK /\ BackupOK

-----------------------------------------------------------------------------
(* Retention.                                                              *)

\* Retention keeps the newest archive of the folder it looks at, whatever the
\* count and the budget.
LEMMA RetainsNewest ==
  ASSUME NEW valid, IsFiniteSet(valid), NEW count \in Nat, NEW budget \in Nat,
         \A a \in valid : a.job \in Nat,
         \A a, b \in valid : a.job = b.job => a = b,
         NEW x \in valid, \A a \in valid : a.job <= x.job
  PROVE  x \in Retained(valid, count, budget)
  <1> DEFINE n == Cardinality(valid)
             newer(a) == {b \in valid : b.job > a.job}
             nth(i) == CHOOSE a \in valid : Cardinality(newer(a)) = i
  <1>1. n \in Nat /\ n # 0
    BY FS_CardinalityType, FS_EmptySet
  <1>2. \A a \in valid : IsFiniteSet(newer(a)) /\ (Cardinality(newer(a)) = 0 <=> newer(a) = {})
    BY FS_Subset, FS_EmptySet
  <1>3. newer(x) = {} /\ \A a \in valid : newer(a) = {} => a = x
    OBVIOUS
  <1>4. nth(0) = x
    <2>1. \A a \in valid : Cardinality(newer(a)) = 0 <=> a = x
      BY <1>2, <1>3
    <2> HIDE DEF newer
    <2> QED
      BY <2>1
  <1> DEFINE over(i, sum) == i # 0 /\ (i >= count \/ sum > budget)
             used[i \in 0 .. n] ==
               IF i = 0 THEN 0
               ELSE LET sum == used[i - 1] + nth(i - 1).size
                    IN  IF over(i - 1, sum) THEN used[i - 1] ELSE sum
             kept == {k \in 0 .. n - 1 : ~over(k, used[k] + nth(k).size)}
  <1>5. 0 \in kept
    BY <1>1
  <1>6. Retained(valid, count, budget) = {nth(i) : i \in kept}
    BY DEF Retained
  <1> HIDE DEF kept, nth
  <1> QED
    BY <1>4, <1>5, <1>6

-----------------------------------------------------------------------------
(* Typing.                                                                 *)

\* The type invariant with its record sets named.
BackupTyped ==
  /\ backups \in [BackupIds -> BackupRows] /\ destination \in Destinations
  /\ armed \in {NoBackup} \cup BackupIds /\ stopped \subseteq BackupIds /\ worker \in Workers
  /\ halting \in BOOLEAN /\ partials \subseteq Destinations \X BackupIds /\ archives \subseteq Archives
  /\ backupCancels \in [BackupCancellers -> CancelCalls]
  /\ lastVerified \in {NoBackup} \cup BackupIds /\ newest \in [Destinations -> {NoBackup} \cup BackupIds]
  /\ unrecorded \subseteq BackupIds
  /\ bootFolder \in Destinations /\ reboots \in 0 .. MaxBackupRestarts

\* It is the type invariant.
LEMMA BackupTyping == BackupTyped <=> BackupTypeOK
  BY DEF BackupTyped, BackupTypeOK, BackupRows, Workers, CancelCalls

\* The values the actions give to rows and to the worker are well typed.
LEMMA BackupValues ==
  ASSUME BackupTyped
  PROVE  /\ IdleWorker \in Workers
         /\ \A j \in BackupIds : [IdleWorker EXCEPT !.at = "selected", !.job = j] \in Workers
         /\ \A r \in BackupRows :
              /\ \A x \in Finished \cup {"queued", "running"} : [r EXCEPT !.status = x] \in BackupRows
              /\ [r EXCEPT !.cancel = TRUE] \in BackupRows
         /\ \A x \in {"off", "armed", "claimed", "archive", "publish", "rotate", "report", "return"} :
              [worker EXCEPT !.at = x] \in Workers
         /\ \A r \in {"ok", "error", "cancelled"} : [worker EXCEPT !.at = "record", !.result = r] \in Workers
         /\ [worker EXCEPT !.at = "snapshot", !.to = destination] \in Workers
  <1>1. (CHOOSE d \in Destinations : TRUE) \in Destinations
    BY DEF BackupTyped
  <1>2. IdleWorker \in Workers /\ \A j \in BackupIds : [IdleWorker EXCEPT !.at = "selected", !.job = j] \in Workers
    BY <1>1 DEF IdleWorker, Workers
  <1>3. /\ \A x \in {"off", "armed", "claimed", "archive", "publish", "rotate", "report", "return"} :
              [worker EXCEPT !.at = x] \in Workers
        /\ \A r \in {"ok", "error", "cancelled"} : [worker EXCEPT !.at = "record", !.result = r] \in Workers
        /\ [worker EXCEPT !.at = "snapshot", !.to = destination] \in Workers
    BY DEF BackupTyped, Workers
  <1> QED
    BY <1>2, <1>3 DEF BackupRows

\* Every step keeps the table, the worker and the files well typed.
LEMMA BackupTypeStep == BackupTypeOK /\ WorkerOK /\ [BackupNext]_backupVars => BackupTypeOK'
  <1> SUFFICES ASSUME BackupTypeOK, WorkerOK, [BackupNext]_backupVars PROVE BackupTypeOK'
    OBVIOUS
  <1>S. SUFFICES BackupTyped'
    BY BackupTyping, PTL
  <1>0. BackupTyped
    BY BackupTyping
  <1> USE <1>0 DEF BackupTyped
  <1>J. ASSUME NEW f \in [BackupIds -> BackupRows], NEW j \in BackupIds, NEW x \in Finished \cup {"queued", "running"}
        PROVE  [f EXCEPT ![j].status = x] \in [BackupIds -> BackupRows]
    BY BackupValues
  <1>1. CASE UNCHANGED backupVars
    BY <1>1 DEF backupVars
  <1>2. CASE Queue
    <2>1. backups' \in [BackupIds -> BackupRows]
      BY <1>2, <1>J DEF Queue
    <2> QED
      BY <1>2, <2>1 DEF Queue
  <1>3. ASSUME NEW d \in Destinations, SetPolicy(d) PROVE BackupTyped'
    BY <1>3 DEF SetPolicy
  <1>4. ASSUME NEW c \in BackupCancellers, NEW j \in BackupIds, CancelBackup(c, j) PROVE BackupTyped'
    <2> DEFINE g == [backups EXCEPT ![j].cancel = TRUE]
               x == IF backups[j].status = "queued" THEN "cancelled" ELSE backups[j].status
    <2>1. g \in [BackupIds -> BackupRows]
      BY BackupValues
    <2>2. g[j].status = backups[j].status
      BY <2>1 DEF BackupRows
    <2>3. \/ backups' = backups
          \/ backups' = [g EXCEPT ![j].status = x] /\ x \in Finished \cup {"queued", "running"}
      BY <1>4, <2>2 DEF CancelBackup, Finished
    <2>4. backups' \in [BackupIds -> BackupRows]
      <3> HIDE DEF g, x
      <3> QED
        BY <2>1, <2>3, <1>J
    <2>5. backupCancels' \in [BackupCancellers -> CancelCalls]
      BY <1>4 DEF CancelBackup, CancelCalls
    <2> QED
      BY <1>4, <2>4, <2>5 DEF CancelBackup
  <1>5. ASSUME NEW c \in BackupCancellers, CallCancel(c) PROVE BackupTyped'
    <2>1. backupCancels' \in [BackupCancellers -> CancelCalls] /\ stopped' \subseteq BackupIds
      BY <1>5 DEF CallCancel, CancelCalls
    <2> QED
      BY <1>5, <2>1 DEF CallCancel
  <1>6. CASE SelectJob
    BY <1>6, BackupValues DEF SelectJob
  <1>7. CASE ArmCancel
    <2>1. worker.job \in {NoBackup} \cup BackupIds
      BY DEF Workers
    <2> QED
      BY <1>7, <2>1, BackupValues DEF ArmCancel, ArmedAt, To
  <1>8. ASSUME NEW w \in BOOLEAN, ClaimJob(w) PROVE BackupTyped'
    <2>1. worker.job \in BackupIds
      BY <1>8 DEF ClaimJob, WorkerOK
    <2>2. backups' \in [BackupIds -> BackupRows]
      <3>1. backups' = backups \/ backups' = [backups EXCEPT ![worker.job].status = "running"]
        BY <1>8 DEF ClaimJob
      <3> QED
        BY <2>1, <3>1, <1>J
    <2> QED
      BY <1>8, <2>2, BackupValues DEF ClaimJob, To
  <1>9. CASE BeginCreate
    <2>1. partials' \subseteq Destinations \X BackupIds
      <3>1. worker.job \in BackupIds
        BY <1>9 DEF BeginCreate, WorkerOK
      <3> QED
        BY <1>9, <3>1 DEF BeginCreate
    <2> QED
      BY <1>9, <2>1, BackupValues DEF BeginCreate, ArmedAt
  <1>10. ASSUME NEW r \in {"error", "cancelled"}, CreateFails(r) PROVE BackupTyped'
    BY <1>10, BackupValues DEF CreateFails
  <1>11. CASE CreateProceeds
    BY <1>11, BackupValues DEF CreateProceeds, To
  <1>12. ASSUME NEW size \in 1 .. 2, NEW ok \in BOOLEAN, PublishArchive(size, ok) PROVE BackupTyped'
    <2>1. worker.to \in Destinations /\ worker.job \in BackupIds
      BY <1>12 DEF PublishArchive, Workers, WorkerOK
    <2>2. archives' \subseteq Archives
      <3>1. [job |-> worker.job, dir |-> worker.to, size |-> size] \in Archives
        BY <2>1 DEF Archives
      <3> QED
        BY <1>12, <3>1 DEF PublishArchive
    <2>3. newest' \in [Destinations -> {NoBackup} \cup BackupIds]
      BY <1>12, <2>1 DEF PublishArchive
    <2>4. worker' \in Workers
      BY <1>12, BackupValues DEF PublishArchive
    <2> QED
      BY <1>12, <2>2, <2>3, <2>4 DEF PublishArchive
  <1>13. ASSUME NEW w \in BOOLEAN, RecordStatus(w) PROVE BackupTyped'
    <2>1. RunStatus \in Finished
      <3>1. worker.result \in {"ok", "error", "cancelled"}
        BY <1>13 DEF RecordStatus, WorkerOK, Workers
      <3> QED
        BY <3>1 DEF RunStatus, Finished
    <2>2. worker.job \in BackupIds
      BY <1>13 DEF RecordStatus, WorkerOK
    <2>3. backups' \in [BackupIds -> BackupRows] /\ unrecorded' \subseteq BackupIds
      BY <1>13, <2>1, <2>2, <1>J DEF RecordStatus
    <2> QED
      BY <1>13, <2>3, BackupValues DEF RecordStatus, To
  <1>14. ASSUME NEW young, NEW failed, RotateArchives(young, failed) PROVE BackupTyped'
    <2>1. archives' \subseteq archives /\ worker' \in Workers
      BY <1>14, BackupValues DEF RotateArchives, To
    <2> QED
      BY <1>14, <2>1 DEF RotateArchives
  <1>15. CASE ReportVerified
    BY <1>15, BackupValues DEF ReportVerified, To, WorkerOK
  <1>16. CASE ReturnFromRun \/ LoopExits \/ ShutdownBackups
    BY <1>16, BackupValues DEF ReturnFromRun, LoopExits, ShutdownBackups, To
  <1>17. CASE RestartBackups
    <2>1. backups' \in [BackupIds -> BackupRows]
      BY <1>17, BackupValues DEF RestartBackups, Finished
    <2>2. backupCancels' \in [BackupCancellers -> CancelCalls]
      BY <1>17 DEF RestartBackups, CancelCalls
    <2>3. reboots' \in 0 .. MaxBackupRestarts
      BY <1>17, BackupJobsAssumption DEF RestartBackups
    <2>4. partials' \subseteq Destinations \X BackupIds
      BY <1>17 DEF RestartBackups, PartialsAfterCrash
    <2> QED
      BY <1>17, <2>1, <2>2, <2>3, <2>4, BackupValues DEF RestartBackups
  <1> QED
    BY <1>1, <1>2, <1>3, <1>4, <1>5, <1>6, <1>7, <1>8, <1>9, <1>10, <1>11, <1>12, <1>13, <1>14, <1>15,
       <1>16, <1>17 DEF BackupNext, WorkerStep

-----------------------------------------------------------------------------
(* The invariant, action by action.                                        *)

\* What the typing gives of single fields.
LEMMA BackupFacts ==
  ASSUME BackupTypeOK
  PROVE  /\ NoBackup \notin BackupIds /\ BackupIds \subseteq Nat /\ stopped \subseteq BackupIds
         /\ \A j \in BackupIds : backups[j].status \in Finished \cup {"absent", "queued", "running"}
         /\ \A c \in BackupCancellers : backupCancels[c].at \in {"idle", "asked", "done", "missing"}
         /\ worker \in Workers /\ worker.job \in {NoBackup} \cup BackupIds /\ worker.to \in Destinations
         /\ \A a \in archives : a.job \in BackupIds /\ a.dir \in Destinations
         /\ \A d \in Destinations : newest[d] \in {NoBackup} \cup BackupIds
         /\ \A x \in Finished : x \notin {"absent", "queued", "running"}
         /\ unrecorded \subseteq BackupIds
  <1>1. NoBackup \notin BackupIds /\ BackupIds \subseteq Nat
    BY BackupJobsAssumption DEF NoBackup, BackupIds
  <1>2. \A a \in archives : a.job \in BackupIds /\ a.dir \in Destinations
    BY DEF BackupTypeOK, Archives
  <1> QED
    BY <1>1, <1>2 DEF BackupTypeOK, Workers, Finished

\* A job is queued.
LEMMA QueueKeeps ==
  ASSUME BackupIInv, BackupTypeOK', Queue
  PROVE  BackupOK'
  <1> USE BackupFacts DEF BackupIInv, BackupOK, Creating
  <1>0. /\ \A j \in BackupIds : backups[j].status \notin {"queued", "running"}
        /\ \E n \in BackupIds : /\ backups[n].status = "absent" /\ backups'[n].status = "queued"
                                /\ \A i \in BackupIds : i < n => backups[i].status # "absent"
                                /\ \A i \in BackupIds \ {n} : backups'[i] = backups[i]
        /\ UNCHANGED <<armed, stopped, worker, backupCancels, partials, archives, newest, unrecorded, bootFolder, reboots>>
    BY DEF Queue, BackupTypeOK
  <1>1. WorkerOK' /\ RunningOwned' /\ UnrecordedLeft' /\ LastIsOpen'
    BY <1>0 DEF WorkerOK, RunningOwned, UnrecordedLeft, LastIsOpen
  <1>2. CancelsServed'
    BY <1>0 DEF CancelsServed, CancelServed, WorkerOK, RunningOwned, UnrecordedLeft
  <1>3. PartialsOwned'
    BY <1>0 DEF PartialsOwned
  <1>4. ArchivesOK' /\ NewestArchiveKept'
    BY <1>0 DEF ArchivesOK, NewestArchiveKept, WorkerOK
  <1> QED
    BY <1>1, <1>2, <1>3, <1>4

\* The owner names another folder, or the server shuts down.
LEMMA PolicyKeeps ==
  ASSUME BackupIInv, BackupTypeOK', ShutdownBackups \/ \E d \in Destinations : SetPolicy(d)
  PROVE  BackupOK'
  <1> USE BackupFacts DEF BackupIInv, BackupOK, Creating
  <1>0. UNCHANGED <<backups, armed, stopped, worker, backupCancels, partials, archives, newest, unrecorded, bootFolder, reboots>>
    BY DEF ShutdownBackups, SetPolicy
  <1>1. WorkerOK' /\ RunningOwned' /\ UnrecordedLeft' /\ LastIsOpen'
    BY <1>0 DEF WorkerOK, RunningOwned, UnrecordedLeft, LastIsOpen
  <1>2. CancelsServed'
    BY <1>0 DEF CancelsServed, CancelServed, WorkerOK, RunningOwned, UnrecordedLeft
  <1>3. PartialsOwned'
    BY <1>0 DEF PartialsOwned
  <1>4. ArchivesOK' /\ NewestArchiveKept'
    BY <1>0 DEF ArchivesOK, NewestArchiveKept, WorkerOK
  <1> QED
    BY <1>1, <1>2, <1>3, <1>4

\* A queued job ends cancelled, a running one is asked to.
LEMMA CancelKeeps ==
  ASSUME BackupIInv, BackupTypeOK', NEW c \in BackupCancellers, NEW j \in BackupIds, CancelBackup(c, j)
  PROVE  BackupOK'
  <1> USE BackupFacts DEF BackupIInv, BackupOK, Creating
  <1>0. /\ \A i \in BackupIds : \/ backups'[i].status = backups[i].status
                                \/ backups[i].status = "queued" /\ backups'[i].status \in Finished
        /\ \A d \in BackupCancellers : d # c => backupCancels'[d] = backupCancels[d]
        /\ backupCancels'[c].job = j
        /\ backupCancels'[c].at \in {"asked", "done"} /\ backupCancels'[c].running =>
             backupCancels'[c].at = "asked" /\ backups[j].status = "running"
        /\ UNCHANGED <<armed, stopped, worker, partials, archives, newest, unrecorded, bootFolder, reboots>>
    BY DEF CancelBackup, BackupTypeOK, Finished
  <1>1. WorkerOK' /\ RunningOwned' /\ UnrecordedLeft' /\ LastIsOpen'
    BY <1>0 DEF WorkerOK, RunningOwned, UnrecordedLeft, LastIsOpen
  <1>2. CancelsServed'
    BY <1>0 DEF CancelsServed, CancelServed, WorkerOK, RunningOwned, UnrecordedLeft
  <1>3. PartialsOwned'
    BY <1>0 DEF PartialsOwned
  <1>4. ArchivesOK' /\ NewestArchiveKept'
    BY <1>0 DEF ArchivesOK, NewestArchiveKept, WorkerOK
  <1> QED
    BY <1>1, <1>2, <1>3, <1>4

\* The cancel function of the current run is called.
LEMMA CallKeeps ==
  ASSUME BackupIInv, BackupTypeOK', NEW c \in BackupCancellers, CallCancel(c)
  PROVE  BackupOK'
  <1> USE BackupFacts DEF BackupIInv, BackupOK, Creating
  <1>0. /\ backupCancels[c].at = "asked" /\ backupCancels'[c].job = backupCancels[c].job
        /\ backupCancels'[c].running = backupCancels[c].running
        /\ \A d \in BackupCancellers : d # c => backupCancels'[d] = backupCancels[d]
        /\ stopped \subseteq stopped' /\ (armed # NoBackup => armed \in stopped')
        /\ UNCHANGED <<backups, armed, worker, partials, archives, newest, unrecorded, bootFolder, reboots>>
    BY DEF CallCancel, BackupTypeOK
  <1>1. WorkerOK' /\ RunningOwned' /\ UnrecordedLeft' /\ LastIsOpen'
    BY <1>0 DEF WorkerOK, RunningOwned, UnrecordedLeft, LastIsOpen
  <1>2. CancelsServed'
    BY <1>0 DEF CancelsServed, CancelServed, WorkerOK, RunningOwned, UnrecordedLeft
  <1>3. PartialsOwned'
    BY <1>0 DEF PartialsOwned
  <1>4. ArchivesOK' /\ NewestArchiveKept'
    BY <1>0 DEF ArchivesOK, NewestArchiveKept, WorkerOK
  <1> QED
    BY <1>1, <1>2, <1>3, <1>4

\* The loop selects a queued job.
LEMMA SelectKeeps ==
  ASSUME BackupIInv, BackupTypeOK', SelectJob
  PROVE  BackupOK'
  <1> USE BackupFacts DEF BackupIInv, BackupOK, Creating
  <1>0. /\ worker.at = "idle" /\ worker'.at = "selected" /\ worker'.job \in BackupIds
        /\ backups[worker'.job].status = "queued"
        /\ UNCHANGED <<backups, stopped, backupCancels, partials, archives, newest, unrecorded, bootFolder, reboots>>
    BY DEF SelectJob, IdleWorker
  <1>1. WorkerOK' /\ RunningOwned' /\ UnrecordedLeft' /\ LastIsOpen'
    BY <1>0 DEF WorkerOK, RunningOwned, UnrecordedLeft, LastIsOpen
  <1>2. CancelsServed'
    BY <1>0 DEF CancelsServed, CancelServed, WorkerOK, RunningOwned, UnrecordedLeft
  <1>3. PartialsOwned'
    BY <1>0 DEF PartialsOwned
  <1>4. ArchivesOK' /\ NewestArchiveKept'
    BY <1>0 DEF ArchivesOK, NewestArchiveKept, WorkerOK
  <1> QED
    BY <1>1, <1>2, <1>3, <1>4

\* The cancel function of the run is set.
LEMMA ArmKeeps ==
  ASSUME BackupIInv, BackupTypeOK', ArmCancel
  PROVE  BackupOK'
  <1> USE BackupFacts DEF BackupIInv, BackupOK, Creating
  <1>0. /\ worker.at = "selected" /\ worker'.at = "armed" /\ worker'.job = worker.job /\ armed' = worker.job
        /\ UNCHANGED <<backups, stopped, backupCancels, partials, archives, newest, unrecorded, bootFolder, reboots>>
    BY DEF ArmCancel, ArmedAt, To, Workers
  <1>1. WorkerOK' /\ RunningOwned' /\ UnrecordedLeft' /\ LastIsOpen'
    BY <1>0 DEF WorkerOK, RunningOwned, UnrecordedLeft, LastIsOpen
  <1>2. CancelsServed'
    BY <1>0 DEF CancelsServed, CancelServed, WorkerOK, RunningOwned, UnrecordedLeft
  <1>3. PartialsOwned'
    BY <1>0 DEF PartialsOwned
  <1>4. ArchivesOK' /\ NewestArchiveKept'
    BY <1>0 DEF ArchivesOK, NewestArchiveKept, WorkerOK
  <1> QED
    BY <1>1, <1>2, <1>3, <1>4

\* The job is claimed unless it was cancelled.
LEMMA ClaimKeeps ==
  ASSUME BackupIInv, BackupTypeOK', NEW w \in BOOLEAN, ClaimJob(w)
  PROVE  BackupOK'
  <1> USE BackupFacts DEF BackupIInv, BackupOK, Creating
  <1>0. /\ worker.at = "armed" /\ worker'.job = worker.job /\ worker.job \in BackupIds
        /\ \/ worker'.at = "return" /\ backups' = backups
           \/ /\ worker'.at = "claimed" /\ backups[worker.job].status = "queued"
              /\ backups'[worker.job].status = "running"
              /\ \A i \in BackupIds \ {worker.job} : backups'[i] = backups[i]
        /\ UNCHANGED <<armed, stopped, backupCancels, partials, archives, newest, unrecorded, bootFolder, reboots>>
    BY DEF ClaimJob, To, Workers, WorkerOK, BackupTypeOK
  <1>1. WorkerOK' /\ RunningOwned' /\ UnrecordedLeft' /\ LastIsOpen'
    BY <1>0 DEF WorkerOK, RunningOwned, UnrecordedLeft, LastIsOpen
  <1>2. CancelsServed'
    BY <1>0 DEF CancelsServed, CancelServed, WorkerOK, RunningOwned, UnrecordedLeft
  <1>3. PartialsOwned'
    BY <1>0 DEF PartialsOwned
  <1>4. ArchivesOK' /\ NewestArchiveKept'
    BY <1>0 DEF ArchivesOK, NewestArchiveKept, WorkerOK
  <1> QED
    BY <1>1, <1>2, <1>3, <1>4

\* The partial file is created.
LEMMA BeginKeeps ==
  ASSUME BackupIInv, BackupTypeOK', BeginCreate
  PROVE  BackupOK'
  <1> USE BackupFacts DEF BackupIInv, BackupOK, Creating
  <1>0. /\ worker.at = "claimed" /\ worker'.at = "snapshot" /\ worker'.job = worker.job
        /\ partials' = partials \cup {<<worker'.to, worker'.job>>}
        /\ UNCHANGED <<backups, armed, stopped, backupCancels, archives, newest, unrecorded, bootFolder, reboots>>
    BY DEF BeginCreate, ArmedAt, Workers
  <1>1. WorkerOK' /\ RunningOwned' /\ UnrecordedLeft' /\ LastIsOpen'
    BY <1>0 DEF WorkerOK, RunningOwned, UnrecordedLeft, LastIsOpen
  <1>2. CancelsServed'
    BY <1>0 DEF CancelsServed, CancelServed, WorkerOK, RunningOwned, UnrecordedLeft
  <1>3. PartialsOwned'
    BY <1>0 DEF PartialsOwned
  <1>4. ArchivesOK' /\ NewestArchiveKept'
    BY <1>0 DEF ArchivesOK, NewestArchiveKept, WorkerOK
  <1> QED
    BY <1>1, <1>2, <1>3, <1>4

\* Create fails and removes its partial file.
LEMMA FailKeeps ==
  ASSUME BackupIInv, BackupTypeOK', NEW r \in {"error", "cancelled"}, CreateFails(r)
  PROVE  BackupOK'
  <1> USE BackupFacts DEF BackupIInv, BackupOK, Creating
  <1>0. /\ worker.at \in {"claimed", "snapshot", "archive", "publish"} /\ worker'.at = "record" /\ worker'.job = worker.job
        /\ worker'.result # "none" /\ partials' = partials \ {<<worker.to, worker.job>>}
        /\ UNCHANGED <<backups, armed, stopped, backupCancels, archives, newest, unrecorded, bootFolder, reboots>>
    BY DEF CreateFails, Workers
  <1>1. WorkerOK' /\ RunningOwned' /\ UnrecordedLeft' /\ LastIsOpen'
    BY <1>0 DEF WorkerOK, RunningOwned, UnrecordedLeft, LastIsOpen
  <1>2. CancelsServed'
    BY <1>0 DEF CancelsServed, CancelServed, WorkerOK, RunningOwned, UnrecordedLeft
  <1>3. PartialsOwned'
    BY <1>0 DEF PartialsOwned
  <1>4. ArchivesOK' /\ NewestArchiveKept'
    BY <1>0 DEF ArchivesOK, NewestArchiveKept, WorkerOK
  <1> QED
    BY <1>1, <1>2, <1>3, <1>4

\* Create goes on.
LEMMA ProceedKeeps ==
  ASSUME BackupIInv, BackupTypeOK', CreateProceeds
  PROVE  BackupOK'
  <1> USE BackupFacts DEF BackupIInv, BackupOK, Creating
  <1>0. /\ worker.at \in {"snapshot", "archive"} /\ worker'.at \in {"archive", "publish"}
        /\ worker'.job = worker.job /\ worker'.to = worker.to /\ armed' = armed
        /\ UNCHANGED <<backups, stopped, backupCancels, partials, archives, newest, unrecorded, bootFolder, reboots>>
    BY DEF CreateProceeds, To, Workers
  <1>1. WorkerOK' /\ RunningOwned' /\ UnrecordedLeft' /\ LastIsOpen'
    BY <1>0 DEF WorkerOK, RunningOwned, UnrecordedLeft, LastIsOpen
  <1>2. CancelsServed'
    BY <1>0 DEF CancelsServed, CancelServed, WorkerOK, RunningOwned, UnrecordedLeft
  <1>3. PartialsOwned'
    BY <1>0 DEF PartialsOwned
  <1>4. ArchivesOK' /\ NewestArchiveKept'
    BY <1>0 DEF ArchivesOK, NewestArchiveKept, WorkerOK
  <1> QED
    BY <1>1, <1>2, <1>3, <1>4

\* The run reports its archive, returns, or the loop ends.
LEMMA ReportKeeps ==
  ASSUME BackupIInv, BackupTypeOK', ReportVerified \/ ReturnFromRun \/ LoopExits
  PROVE  BackupOK'
  <1> USE BackupFacts DEF BackupIInv, BackupOK, Creating
  <1>0. /\ \/ worker.at = "report" /\ worker'.at = "return" /\ worker'.job = worker.job /\ armed' = armed
           \/ worker.at = "return" /\ worker'.at = "idle"
           \/ worker.at = "idle" /\ worker'.at = "off"
        /\ UNCHANGED <<backups, stopped, backupCancels, partials, archives, newest, unrecorded, bootFolder, reboots>>
    BY DEF ReportVerified, ReturnFromRun, LoopExits, IdleWorker, To, Workers
  <1>1. WorkerOK' /\ RunningOwned' /\ UnrecordedLeft' /\ LastIsOpen'
    BY <1>0 DEF WorkerOK, RunningOwned, UnrecordedLeft, LastIsOpen
  <1>2. CancelsServed'
    BY <1>0 DEF CancelsServed, CancelServed, WorkerOK, RunningOwned, UnrecordedLeft
  <1>3. PartialsOwned'
    BY <1>0 DEF PartialsOwned
  <1>4. ArchivesOK' /\ NewestArchiveKept'
    BY <1>0 DEF ArchivesOK, NewestArchiveKept, WorkerOK
  <1> QED
    BY <1>1, <1>2, <1>3, <1>4

\* The outcome is recorded.
LEMMA RecordKeeps ==
  ASSUME BackupIInv, BackupTypeOK', NEW w \in BOOLEAN, RecordStatus(w), RunStatus \in Finished
  PROVE  BackupOK'
  <1> USE BackupFacts DEF BackupIInv, BackupOK, Creating
  <1>0. /\ worker.at = "record" /\ worker'.at \in {"rotate", "return"} /\ worker'.job = worker.job
        /\ worker.job \in BackupIds /\ unrecorded \subseteq unrecorded'
        /\ \/ backups'[worker.job].status \in Finished /\ unrecorded' = unrecorded
           \/ backups' = backups /\ unrecorded' = unrecorded \cup {worker.job}
        /\ \A i \in BackupIds \ {worker.job} : backups'[i] = backups[i]
        /\ UNCHANGED <<armed, stopped, backupCancels, partials, archives, newest, bootFolder, reboots>>
    BY DEF RecordStatus, To, Workers, WorkerOK, BackupTypeOK
  <1>1. WorkerOK' /\ RunningOwned' /\ UnrecordedLeft' /\ LastIsOpen'
    BY <1>0 DEF WorkerOK, RunningOwned, UnrecordedLeft, LastIsOpen
  <1>2. CancelsServed'
    BY <1>0 DEF CancelsServed, CancelServed, WorkerOK, RunningOwned, UnrecordedLeft
  <1>3. PartialsOwned'
    BY <1>0 DEF PartialsOwned
  <1>4. ArchivesOK' /\ NewestArchiveKept'
    BY <1>0 DEF ArchivesOK, NewestArchiveKept, WorkerOK
  <1> QED
    BY <1>1, <1>2, <1>3, <1>4

\* The archive that is published is the newest of its folder.
LEMMA PublishKeeps ==
  ASSUME BackupIInv, BackupTypeOK', NEW size \in 1 .. 2, NEW ok \in BOOLEAN, PublishArchive(size, ok)
  PROVE  BackupOK'
  <1> USE BackupFacts DEF BackupIInv, BackupOK, Creating
  <1>0. /\ worker.at = "publish" /\ worker'.at = "record" /\ worker'.job = worker.job /\ worker'.result # "none"
        /\ partials' = partials \ {<<worker.to, worker.job>>}
        /\ UNCHANGED <<backups, armed, stopped, backupCancels, unrecorded, bootFolder, reboots>>
    BY DEF PublishArchive, Workers
  <1>1. WorkerOK' /\ RunningOwned' /\ UnrecordedLeft' /\ LastIsOpen'
    BY <1>0 DEF WorkerOK, RunningOwned, UnrecordedLeft, LastIsOpen
  <1>2. CancelsServed' /\ PartialsOwned'
    BY <1>0 DEF CancelsServed, CancelServed, PartialsOwned
  <1>3. PICK x \in Archives : x.job = worker.job /\ x.dir = worker.to /\ archives' = archives \cup {x}
    <2>1. [job |-> worker.job, dir |-> worker.to, size |-> size] \in Archives
      BY <1>0 DEF WorkerOK, Archives
    <2> QED
      BY <2>1 DEF PublishArchive
  <1>4. \A a \in archives : a.job < x.job
    <2> SUFFICES ASSUME NEW a \in archives PROVE a.job < x.job
      OBVIOUS
    <2>1. /\ backups[a.job].status \in Finished \/ a.job \in unrecorded
          /\ backups[x.job].status = "running" /\ x.job \in BackupIds /\ x.job \notin unrecorded
      BY <1>0, <1>3 DEF ArchivesOK, WorkerOK, UnrecordedLeft, Archives
    <2>2. a.job # x.job /\ ~(x.job < a.job)
      BY <2>1 DEF LastIsOpen, UnrecordedLeft
    <2> QED
      BY <2>1, <2>2
  <1>5. /\ newest'[worker.to] = worker.job
        /\ \A d \in Destinations : d # worker.to => newest'[d] = newest[d]
    BY DEF PublishArchive, BackupTypeOK
  <1>6. ArchivesOK'
    <2>1. IsFiniteSet(archives')
      BY <1>3, FS_AddElement DEF ArchivesOK
    <2>2. ASSUME NEW a \in archives' PROVE a.job <= newest'[a.dir]
      <3>1. CASE a = x
        BY <1>3, <1>5, <3>1 DEF Archives
      <3>2. CASE a \in archives /\ a.dir = worker.to
        BY <1>3, <1>4, <1>5, <3>2 DEF Archives
      <3>3. CASE a \in archives /\ a.dir # worker.to
        BY <1>5, <3>3 DEF ArchivesOK
      <3> QED
        BY <1>3, <3>1, <3>2, <3>3
    <2>3. ASSUME NEW a \in archives'
          PROVE  \/ backups'[a.job].status \in Finished \/ a.job \in unrecorded'
                 \/ worker'.at = "record" /\ worker'.job = a.job
      <3>1. CASE a = x
        BY <1>0, <1>3, <3>1
      <3>2. CASE a \in archives
        BY <1>0, <3>2 DEF ArchivesOK
      <3> QED
        BY <1>3, <3>1, <3>2
    <2>4. \A a, b \in archives' : a.dir = b.dir /\ a.job = b.job => a = b
      BY <1>3, <1>4 DEF ArchivesOK
    <2> QED
      BY <2>1, <2>2, <2>3, <2>4 DEF ArchivesOK
  <1>7. NewestArchiveKept'
    BY <1>3, <1>5 DEF NewestArchiveKept
  <1> QED
    BY <1>1, <1>2, <1>6, <1>7

\* Retention leaves the newest archive of the folder.
LEMMA RotateKeeps ==
  ASSUME BackupIInv, BackupTypeOK', NEW young \in 1 .. RetainCount, NEW failed, RotateArchives(young, failed)
  PROVE  BackupOK'
  <1> USE BackupFacts DEF BackupIInv, BackupOK, Creating
  <1>0. /\ worker.at = "rotate" /\ worker'.at = "report" /\ worker'.job = worker.job
        /\ UNCHANGED <<backups, armed, stopped, backupCancels, partials, newest, unrecorded, bootFolder, reboots>>
    BY DEF RotateArchives, To, Workers
  <1>1. WorkerOK' /\ RunningOwned' /\ UnrecordedLeft' /\ LastIsOpen'
    BY <1>0 DEF WorkerOK, RunningOwned, UnrecordedLeft, LastIsOpen
  <1>2. CancelsServed' /\ PartialsOwned'
    BY <1>0 DEF CancelsServed, CancelServed, PartialsOwned
  <1> DEFINE here == {a \in archives : a.dir = worker.to}
  <1>3. /\ archives' \subseteq archives
        /\ \A a \in archives : a.dir # worker.to \/ a \in Retained(here, young, BudgetBytes) => a \in archives'
    BY DEF RotateArchives
  <1>4. ArchivesOK'
    <2>1. IsFiniteSet(archives')
      BY <1>3, FS_Subset DEF ArchivesOK
    <2> QED
      BY <1>0, <1>3, <2>1 DEF ArchivesOK
  <1>5. ASSUME NEW x \in here, x.job = newest[worker.to] PROVE x \in Retained(here, young, BudgetBytes)
    <2>1. IsFiniteSet(here)
      <3>1. here \subseteq archives
        OBVIOUS
      <3> QED
        BY <3>1, FS_Subset DEF ArchivesOK
    <2>2. /\ \A a \in here : a.job \in Nat /\ a.job <= x.job
          /\ \A a, b \in here : a.job = b.job => a = b
      BY <1>5 DEF ArchivesOK
    <2>3. young \in Nat /\ BudgetBytes \in Nat
      BY BackupJobsAssumption
    <2> HIDE DEF here
    <2> QED
      BY <1>5, <2>1, <2>2, <2>3, RetainsNewest
  <1>6. NewestArchiveKept'
    <2> SUFFICES ASSUME NEW d \in Destinations, newest[d] # NoBackup
                 PROVE  \E a \in archives' : a.job = newest[d] /\ a.dir = d
      BY <1>0 DEF NewestArchiveKept
    <2>1. PICK a \in archives : a.job = newest[d] /\ a.dir = d
      BY DEF NewestArchiveKept
    <2>2. d # worker.to \/ a \in here
      BY <2>1
    <2> QED
      BY <1>3, <1>5, <2>1, <2>2
  <1> QED
    BY <1>1, <1>2, <1>4, <1>6

\* A restart interrupts what was open and leaves the archives alone.
LEMMA RestartKeeps ==
  ASSUME BackupIInv, BackupTypeOK', RestartBackups
  PROVE  BackupOK'
  <1> USE BackupFacts DEF BackupIInv, BackupOK, Creating
  <1>0. /\ worker'.at = "idle" /\ reboots' > 0
        /\ \A j \in BackupIds : \/ backups'[j] = backups[j] /\ backups[j].status \notin {"queued", "running"}
                                \/ backups[j].status \in {"queued", "running"} /\ backups'[j].status \in Finished
        /\ \A c \in BackupCancellers :
             /\ backupCancels'[c].job = backupCancels[c].job /\ backupCancels'[c].running = backupCancels[c].running
             /\ backupCancels'[c].at \in {"asked", "done"} => backupCancels[c].at \in {"asked", "done"}
        /\ \A p \in partials' : p[1] # bootFolder'
        /\ UNCHANGED <<stopped, archives, newest, unrecorded>>
    BY BackupJobsAssumption DEF RestartBackups, IdleWorker, PartialsAfterCrash, BackupTypeOK, Finished
  <1>1. WorkerOK' /\ RunningOwned' /\ UnrecordedLeft' /\ LastIsOpen'
    BY <1>0 DEF WorkerOK, RunningOwned, UnrecordedLeft, LastIsOpen
  <1>2. CancelsServed' /\ PartialsOwned'
    BY <1>0 DEF CancelsServed, CancelServed, PartialsOwned
  <1>3. ArchivesOK' /\ NewestArchiveKept'
    BY <1>0 DEF ArchivesOK, NewestArchiveKept, WorkerOK
  <1> QED
    BY <1>1, <1>2, <1>3

-----------------------------------------------------------------------------
(* The theorems.                                                           *)

\* Every step keeps the invariant.
LEMMA BackupStepKeeps == BackupIInv /\ [BackupNext]_backupVars => BackupIInv'
  <1> SUFFICES ASSUME BackupIInv, [BackupNext]_backupVars PROVE BackupIInv'
    OBVIOUS
  <1>T. BackupTypeOK'
    BY BackupTypeStep DEF BackupIInv, BackupOK
  <1> SUFFICES BackupOK'
    BY <1>T DEF BackupIInv
  <1>1. CASE UNCHANGED backupVars
    BY <1>1 DEF backupVars, BackupIInv, BackupOK, WorkerOK, RunningOwned, UnrecordedLeft, LastIsOpen,
       CancelsServed, CancelServed, PartialsOwned, ArchivesOK, NewestArchiveKept
  <1>2. ASSUME NEW w \in BOOLEAN, RecordStatus(w) PROVE BackupOK'
    <2>1. worker.result \in {"ok", "error", "cancelled"}
      BY <1>2, BackupFacts DEF RecordStatus, BackupIInv, BackupOK, WorkerOK, Workers
    <2>2. RunStatus \in Finished
      BY <2>1 DEF RunStatus, Finished
    <2> QED
      BY <1>2, <1>T, <2>2, RecordKeeps
  <1>3. CASE WorkerStep
    BY <1>2, <1>3, <1>T, SelectKeeps, ArmKeeps, ClaimKeeps, BeginKeeps, FailKeeps, ProceedKeeps, PublishKeeps,
       ReportKeeps, RotateKeeps DEF WorkerStep
  <1> QED
    BY <1>1, <1>3, <1>T, QueueKeeps, PolicyKeeps, CancelKeeps, CallKeeps, RestartKeeps DEF BackupNext

\* The invariant holds in every reachable state.
LEMMA BackupInductive == BackupSpec => []BackupIInv
  <1>1. BackupInit => BackupIInv
    <2> SUFFICES ASSUME BackupInit PROVE BackupIInv
      OBVIOUS
    <2>1. BackupTyped
      <3>1. IdleWorker \in Workers
        <4>1. (CHOOSE d \in Destinations : TRUE) \in Destinations
          BY DEF BackupInit
        <4> QED
          BY <4>1 DEF IdleWorker, Workers
      <3>2. /\ [status |-> "absent", cancel |-> FALSE] \in BackupRows
            /\ [at |-> "idle", job |-> NoBackup, running |-> FALSE] \in CancelCalls
        BY DEF BackupRows, CancelCalls
      <3>3. 0 \in 0 .. MaxBackupRestarts
        BY BackupJobsAssumption
      <3> QED
        BY <3>1, <3>2, <3>3 DEF BackupTyped, BackupInit
    <2>2. BackupTypeOK
      BY <2>1, BackupTyping
    <2>3. /\ \A j \in BackupIds : backups[j].status = "absent"
          /\ \A c \in BackupCancellers : backupCancels[c].at = "idle"
          /\ worker.at = "idle" /\ partials = {} /\ archives = {} /\ unrecorded = {}
          /\ \A d \in Destinations : newest[d] = NoBackup
      BY DEF BackupInit, IdleWorker
    <2>4. ArchivesOK
      BY <2>3, FS_EmptySet DEF ArchivesOK
    <2> QED
      BY <2>2, <2>3, <2>4 DEF BackupIInv, BackupOK, WorkerOK, RunningOwned, UnrecordedLeft, LastIsOpen,
         CancelsServed, CancelServed, PartialsOwned, NewestArchiveKept, Creating
  <1> QED
    BY <1>1, BackupStepKeeps, PTL DEF BackupSpec

\* The table and the folders agree with the one worker, for any number of jobs,
\* destinations, cancel requests and restarts.
THEOREM BackupCorrect == BackupSpec => []BackupInv
  <1>1. BackupIInv => BackupInv
    <2> SUFFICES ASSUME BackupIInv PROVE CancelReachesRun
      BY DEF BackupIInv, BackupOK, BackupInv
    <2> QED
      BY BackupFacts DEF BackupIInv, BackupOK, CancelReachesRun, CancelsServed, CancelServed, WorkerOK,
         UnrecordedLeft, Creating, ContextDone
  <1> QED
    BY <1>1, BackupInductive, PTL

\* Neither retention, nor a failed or cancelled backup, nor a crash removes the
\* newest archive of a destination, whatever the count, the budget and the age.
THEOREM NewestIsKept == BackupSpec => []NewestArchiveKept
  <1>1. BackupIInv => NewestArchiveKept
    BY DEF BackupIInv, BackupOK
  <1> QED
    BY <1>1, BackupInductive, PTL
=============================================================================
