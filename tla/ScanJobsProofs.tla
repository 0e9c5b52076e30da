--------------------------- MODULE ScanJobsProofs ---------------------------
(**************************************************************************)
(* Proofs about the scan jobs of module ScanJobs, for any number of         *)
(* libraries, jobs, attempts, cancel requests and restarts:                 *)
(*   - no job holds its library's place without somebody to end it;         *)
(*   - the recorded outcome of a job is what happened to the catalog: a     *)
(*     cancel that was acknowledged publishes nothing, a job that is        *)
(*     recorded as succeeded published its own scan.                        *)
(**************************************************************************)
EXTENDS ScanJobs, FiniteSetTheorems, WellFoundedInduction, TLAPS

JobTable == [library : ScanLibraries, cancel : BOOLEAN, delayed : BOOLEAN,
             status : Ended \cup {"absent", "queued", "running", "pruned"},
             attempt : 1 .. MaxScanAttempts, retryable : BOOLEAN]
ActiveJobs == [job : {NoJob} \cup JobIds, ended : BOOLEAN, committed : BOOLEAN, owner : BOOLEAN]
CancelCalls == [at : {"idle", "stopped", "marked", "updated", "missed", "failed", "ok", "refused"},
                job : {NoJob} \cup JobIds, intent : ScanCancellers \cup {NoIntent}]
RunnerStates == [at : {"idle", "off", "claimed", "registered", "starting", "started", "waiting",
                       "draining", "settling", "finishing", "retrying", "clearing"},
                 job : {NoJob} \cup JobIds, done : BOOLEAN, owner : BOOLEAN,
                 result : {"none", "active", "cancelled", "nil", "failed", "review_required"}]
Scans == [at : {"off", "walking", "committed", "failing", "reported"},
          job : {NoJob} \cup JobIds, cancelled : BOOLEAN]

Resting == {"idle", "off"}
Executing == {"claimed", "registered", "starting", "started", "waiting", "draining",
              "settling", "finishing"}
Scanning == {"started", "waiting", "draining"}
Open == {"marked", "updated", "missed", "failed"}

Over(j) == scanJobs[j].status \in Ended \cup {"pruned"}

\* The runner has taken note that its job is cancelled, or will before it starts
\* the scan.
Stopping ==
  \/ runner.at = "claimed" /\ scanJobs[runner.job].cancel
  \/ runner.at = "registered" /\ (activeJob.owner \/ scanJobs[runner.job].cancel)
  \/ runner.at \in Scanning \cup {"starting", "settling"} /\ activeJob.owner
  \/ runner.at = "finishing" /\ runner.owner

\* The job has published nothing and never will, unless a database error of it
\* was dropped.
Doomed(j) ==
  \/ j \in discarded
  \/ j \notin published /\ (Over(j) \/ (runner.job = j /\ Stopping))

\* The runner's job is running while it executes, and active once registered.
RunnerOK ==
  /\ runner.at \notin Resting => runner.job \in JobIds
  /\ activeJob.job = IF runner.at \in Resting \cup {"claimed"} THEN NoJob ELSE runner.job
  /\ runner.at \in Executing => scanJobs[runner.job].status = "running"

\* A job's scan runs only while the runner waits for it.
OwnScan ==
  /\ jobScan.at # "off" /\ jobScan.job # NoJob => runner.at \in Scanning
  /\ runner.at \in Scanning /\ jobScan.at # "off" => jobScan.job = runner.job

\* What the runner knows of its job's scan is whether it committed.
ScanKnown ==
  /\ runner.at \in {"claimed", "registered", "starting"} => runner.job \notin published
  /\ runner.at \in {"settling", "finishing"} =>
       /\ runner.result = "active" => runner.job \notin published
       /\ runner.result = "nil" => runner.job \in published
  /\ runner.at \in Scanning =>
       /\ jobScan.at \in {"walking", "failing"} => runner.job \notin published
       /\ jobScan.at = "committed" => runner.job \in published
       /\ jobScan.at \in {"off", "reported"} /\ scanOutcome # "failed" => runner.job \in published

\* The locked flags of the active job.
ActiveOK ==
  /\ activeJob.owner => activeJob.ended
  /\ activeJob.owner \/ ~activeJob.committed => activeJob.job \notin published
  /\ runner.at \in {"finishing", "retrying", "clearing"} => activeJob.committed
  /\ runner.at = "finishing" /\ runner.owner => runner.job \notin published
  /\ activeJob.job # NoJob => intents[activeJob.job] = NoIntent

\* What the table says of a job.
RowsTrue ==
  \A j \in JobIds :
    /\ scanJobs[j].status \in {"absent", "queued", "cancelled"} => j \notin published
    /\ scanJobs[j].status = "running" /\ scanJobs[j].cancel => Doomed(j)

\* The state of one cancel request.
CancelOK(c) ==
  /\ cancels[c].at = "idle" => c \notin consumed
  /\ cancels[c].at # "idle" => cancels[c].job \in JobIds /\ ~Unused(cancels[c].job)
  /\ cancels[c].at \in Open =>
       /\ cancels[c].intent \in ScanCancellers
       /\ cancels[cancels[c].intent].job = cancels[c].job
       /\ cancels[cancels[c].intent].at # "idle"
       /\ cancels[c].intent \in consumed => Doomed(cancels[c].job)
  /\ cancels[c].at = "marked" =>
       intents[cancels[c].job] = cancels[c].intent \/ Doomed(cancels[c].job) \/ Over(cancels[c].job)
  /\ cancels[c].at \in {"updated", "stopped", "ok"} => Doomed(cancels[c].job)
  /\ cancels[c].at = "missed" => Over(cancels[c].job)
CancelsOK == \A c \in ScanCancellers : CancelOK(c)

\* An intent is its request's, which is not answered yet.
IntentsOwned ==
  \A j \in JobIds : intents[j] # NoIntent =>
    /\ cancels[intents[j]].job = j /\ cancels[intents[j]].intent = intents[j]
    /\ cancels[intents[j]].at \in Open

ScanOK ==
  /\ QueuedIsClaimable /\ RunningIsOwned /\ SucceededIsPublished
  /\ RunnerOK /\ OwnScan /\ ScanKnown /\ ActiveOK /\ RowsTrue /\ CancelsOK /\ IntentsOwned
ScanIInv == ScanJobsTypeOK /\ ScanOK

-----------------------------------------------------------------------------
(* Typing.                                                                 *)

\* The smallest unused job is an unused job.
LEMMA NextIdUnused ==
  ASSUME \E j \in JobIds : Unused(j)
  PROVE  NextId \in JobIds /\ Unused(NextId)
  <1> DEFINE S == {j \in JobIds : Unused(j)}
  <1>1. S \subseteq Nat /\ S # {}
    BY DEF JobIds
  <1>2. IsWellFoundedOn(OpToRel(<, Nat), Nat)
    BY NatLessThanWellFounded
  <1>3. PICK x \in S : \A y \in S : ~(<<y, x>> \in OpToRel(<, Nat))
    BY <1>1, <1>2, WFMin
  <1>4. \A y \in S : ~(y < x)
    BY <1>1, <1>3 DEF OpToRel
  <1>5. x \in JobIds /\ Unused(x) /\ \A i \in JobIds : i < x => ~Unused(i)
    BY <1>4
  <1> QED
    BY <1>5 DEF NextId

\* The rows the queue, the runner and the cancel requests write are well typed.
LEMMA RowTypes ==
  /\ NoScanJob \in JobTable /\ [NoScanJob EXCEPT !.status = "pruned"] \in JobTable
  /\ \A l \in ScanLibraries, a \in 1 .. MaxScanAttempts, d \in BOOLEAN :
       [library |-> l, status |-> "queued", cancel |-> FALSE, attempt |-> a,
        delayed |-> d, retryable |-> FALSE] \in JobTable
  /\ \A r \in JobTable :
       /\ \A b \in BOOLEAN : [r EXCEPT !.cancel = b] \in JobTable /\ [r EXCEPT !.delayed = b] \in JobTable
       /\ \A b \in BOOLEAN : [r EXCEPT !.retryable = b] \in JobTable
       /\ \A s \in Ended \cup {"queued", "running"} : [r EXCEPT !.status = s] \in JobTable
  <1>1. 1 \in 1 .. MaxScanAttempts /\ (CHOOSE l \in ScanLibraries : TRUE) \in ScanLibraries
    BY ScanJobsAssumption
  <1>2. NoScanJob \in JobTable /\ [NoScanJob EXCEPT !.status = "pruned"] \in JobTable
    BY <1>1 DEF NoScanJob, JobTable
  <1> QED
    BY <1>2 DEF JobTable, Ended

\* One job is added to the queue.
InsertStep ==
  \E n \in JobIds :
    /\ scanJobs[n].status = "absent"
    /\ scanJobs'[n].status = "queued" /\ scanJobs'[n].cancel = FALSE
    /\ \A j \in JobIds \ {n} : scanJobs'[j] = scanJobs[j]

\* Jobs that are over are deleted.
PruneStep ==
  \A j \in JobIds : \/ scanJobs'[j] = scanJobs[j]
                    \/ scanJobs[j].status \in Ended /\ scanJobs'[j].status = "pruned"

\* The fields of a row are typed as the table is.
LEMMA RowFacts ==
  ASSUME ScanJobsTypeOK
  PROVE  /\ scanJobs \in [JobIds -> JobTable]
         /\ \A j \in JobIds : /\ scanJobs[j] \in JobTable /\ scanJobs[j].cancel \in BOOLEAN
                              /\ scanJobs[j].library \in ScanLibraries
                              /\ scanJobs[j].attempt \in 1 .. MaxScanAttempts
                              /\ scanJobs[j].status \in Ended \cup {"absent", "queued", "running", "pruned"}
  BY DEF ScanJobsTypeOK, JobTable

\* An insertion fills one unused row.
LEMMA InsertEffect ==
  ASSUME ScanJobsTypeOK, NEW l \in ScanLibraries, NEW a \in 1 .. MaxScanAttempts, NEW d \in BOOLEAN,
         \E j \in JobIds : Unused(j), scanJobs' = Inserted(l, a, d)
  PROVE  scanJobs' \in [JobIds -> JobTable] /\ InsertStep
  <1>1. PICK n \in JobIds : n = NextId /\ Unused(n)
    BY NextIdUnused
  <1>2. PICK r \in JobTable : r = [library |-> l, status |-> "queued", cancel |-> FALSE, attempt |-> a,
                                   delayed |-> d, retryable |-> FALSE]
    BY RowTypes
  <1>3. scanJobs' = [scanJobs EXCEPT ![n] = r]
    BY <1>1, <1>2 DEF Inserted
  <1>4. r.status = "queued" /\ r.cancel = FALSE
    BY <1>2
  <1> QED
    BY <1>1, <1>3, <1>4, RowFacts DEF InsertStep, Unused

\* Pruning touches only jobs that are over.
LEMMA PruneEffect ==
  ASSUME ScanJobsTypeOK, NEW l, scanJobs' = PrunedHistory(scanJobs, l)
  PROVE  scanJobs' \in [JobIds -> JobTable] /\ PruneStep
  <1>1. PICK r \in JobTable : r = [NoScanJob EXCEPT !.status = "pruned"]
    BY RowTypes
  <1>2. r.status = "pruned"
    BY <1>1 DEF NoScanJob
  <1> DEFINE ended == {j \in JobIds : scanJobs[j].library = l /\ scanJobs[j].status \in Ended}
             old == {j \in ended : Cardinality({i \in ended : i > j}) >= ScanHistory}
  <1>3. scanJobs' = [j \in JobIds |-> IF j \in old THEN r ELSE scanJobs[j]]
    BY <1>1 DEF PrunedHistory
  <1>4. old \subseteq ended /\ \A j \in ended : scanJobs[j].status \in Ended
    OBVIOUS
  <1> HIDE DEF old, ended
  <1> QED
    BY <1>2, <1>3, <1>4, RowFacts DEF PruneStep

\* The type invariant with its record sets named.
ScanTyped ==
  /\ scanJobs \in [JobIds -> JobTable] /\ activeJob \in ActiveJobs
  /\ intents \in [JobIds -> ScanCancellers \cup {NoIntent}] /\ consumed \subseteq ScanCancellers
  /\ cancels \in [ScanCancellers -> CancelCalls] /\ runner \in RunnerStates
  /\ runnerStopping \in BOOLEAN /\ restarts \in 0 .. MaxScanRestarts /\ jobScan \in Scans
  /\ scanOutcome \in Outcomes \cup {"running"} /\ published \subseteq JobIds
  /\ discarded \subseteq JobIds

\* It is the type invariant.
LEMMA ScanTyping == ScanTyped <=> ScanJobsTypeOK
  BY DEF ScanTyped, ScanJobsTypeOK, JobTable, ActiveJobs, CancelCalls, RunnerStates, Scans

\* Every step keeps the table, the runner, the scan and the requests well typed.
LEMMA ScanTypeStep == ScanJobsTypeOK /\ RunnerOK /\ CancelsOK /\ [ScanJobsNext]_scanJobVars => ScanJobsTypeOK'
  <1> SUFFICES ASSUME ScanJobsTypeOK, RunnerOK, CancelsOK, [ScanJobsNext]_scanJobVars PROVE ScanJobsTypeOK'
    OBVIOUS
  <1>S. SUFFICES ScanTyped'
    BY ScanTyping, PTL
  <1>0. ScanTyped
    BY ScanTyping
  <1> USE <1>0 DEF ScanTyped
  <1>R. ASSUME NEW s \in {"off", "claimed", "registered", "starting", "started", "waiting", "draining",
                          "settling", "finishing", "retrying", "clearing"}
        PROVE  [runner EXCEPT !.at = s] \in RunnerStates
    BY DEF RunnerStates
  <1>J. ASSUME NEW j \in JobIds, NEW r \in JobTable PROVE [scanJobs EXCEPT ![j] = r] \in [JobIds -> JobTable]
    OBVIOUS
  <1>C. ASSUME NEW c \in ScanCancellers, NEW r \in CancelCalls
        PROVE  [cancels EXCEPT ![c] = r] \in [ScanCancellers -> CancelCalls]
    OBVIOUS
  <1>1. CASE UNCHANGED scanJobVars
    BY <1>1 DEF scanJobVars
  <1>2. ASSUME NEW l \in ScanLibraries, QueueLibraryScan(l) PROVE ScanTyped'
    <2>1. 1 \in 1 .. MaxScanAttempts
      BY ScanJobsAssumption
    <2>2. scanJobs' \in [JobIds -> JobTable]
      BY <1>2, <2>1, InsertEffect DEF QueueLibraryScan, Insertable
    <2> QED
      BY <1>2, <2>2 DEF QueueLibraryScan
  <1>3. ASSUME NEW j \in JobIds, RetryScanJob(j) PROVE ScanTyped'
    <2>1. scanJobs[j].library \in ScanLibraries /\ scanJobs[j].attempt + 1 \in 1 .. MaxScanAttempts
      BY <1>3, RowFacts, ScanJobsAssumption DEF RetryScanJob, Retryable
    <2>2. scanJobs' \in [JobIds -> JobTable]
      BY <1>3, <2>1, InsertEffect DEF RetryScanJob, Insertable
    <2> QED
      BY <1>3, <2>2 DEF RetryScanJob
  <1>4. ASSUME NEW c \in ScanCancellers, NEW j \in JobIds, CancelMark(c, j) PROVE ScanTyped'
    <2>1. activeJob' \in ActiveJobs
      BY <1>4 DEF CancelMark, ActiveJobs
    <2>2. intents' \in [JobIds -> ScanCancellers \cup {NoIntent}]
      BY <1>4 DEF CancelMark
    <2>3. cancels' \in [ScanCancellers -> CancelCalls]
      BY <1>4 DEF CancelMark, CancelCalls
    <2> QED
      BY <1>4, <2>1, <2>2, <2>3 DEF CancelMark
  <1>5. ASSUME NEW c \in ScanCancellers, NEW w \in BOOLEAN, CancelRecord(c, w) PROVE ScanTyped'
    <2>1. scanJobs' \in [JobIds -> JobTable]
      BY <1>5, RowTypes DEF CancelRecord
    <2>2. cancels' \in [ScanCancellers -> CancelCalls]
      BY <1>5 DEF CancelRecord, CancelCalls
    <2> QED
      BY <1>5, <2>1, <2>2 DEF CancelRecord
  <1>6. ASSUME NEW c \in ScanCancellers, NEW w \in BOOLEAN, CancelUpdate(c, w) PROVE ScanTyped'
    <2>1. scanJobs' \in [JobIds -> JobTable]
      <3>1. CASE cancels[c].job \notin JobIds \/ scanJobs' = scanJobs
        BY <1>6, <3>1 DEF CancelUpdate
      <3>2. CASE cancels[c].job \in JobIds /\ scanJobs' # scanJobs
        <4>1. PICK j \in JobIds : j = cancels[c].job
          BY <3>2
        <4> DEFINE g == [scanJobs EXCEPT ![j].cancel = TRUE]
                   s == IF scanJobs[j].status = "queued" THEN "cancelled" ELSE scanJobs[j].status
        <4>2. g \in [JobIds -> JobTable] /\ g[j].status = scanJobs[j].status
          <5>1. g \in [JobIds -> JobTable]
            BY RowTypes
          <5> QED
            BY <5>1 DEF JobTable
        <4>3. scanJobs' = [g EXCEPT ![j].status = s] /\ s \in Ended \cup {"queued", "running"}
          BY <1>6, <3>2, <4>1 DEF CancelUpdate, Ended
        <4> HIDE DEF g, s
        <4> QED
          BY <4>2, <4>3, RowTypes
      <3> QED
        BY <3>1, <3>2
    <2>2. cancels' \in [ScanCancellers -> CancelCalls]
      BY <1>6 DEF CancelUpdate, CancelCalls
    <2> QED
      BY <1>6, <2>1, <2>2 DEF CancelUpdate
  <1>7. ASSUME NEW c \in ScanCancellers, CancelSettle(c) PROVE ScanTyped'
    <2>1. scanJobs' \in [JobIds -> JobTable]
      BY <1>7, PruneEffect DEF CancelSettle
    <2>2. cancels' \in [ScanCancellers -> CancelCalls]
      BY <1>7 DEF CancelSettle, CancelCalls
    <2>3. intents' \in [JobIds -> ScanCancellers \cup {NoIntent}]
      BY <1>7 DEF CancelSettle, IntentsAfter
    <2>4. discarded' \subseteq JobIds
      <3>1. IntentLost(c) => cancels[c].job \in JobIds
        BY DEF IntentLost, CancelsOK, CancelOK
      <3> QED
        BY <1>7, <3>1 DEF CancelSettle
    <2> QED
      BY <1>7, <2>1, <2>2, <2>3, <2>4 DEF CancelSettle
  <1>8. CASE ClaimScanJob
    <2>1. PICK j \in JobIds : /\ scanJobs' = [scanJobs EXCEPT ![j].status = "running"]
                              /\ runner' = [IdleRunner EXCEPT !.at = "claimed", !.job = j]
      BY <1>8 DEF ClaimScanJob
    <2>2. scanJobs' \in [JobIds -> JobTable]
      BY <2>1, RowTypes
    <2>3. runner' \in RunnerStates
      BY <2>1 DEF IdleRunner, RunnerStates
    <2> QED
      BY <1>8, <2>2, <2>3 DEF ClaimScanJob
  <1>24. CASE RereadFails
    <2>1. IdleRunner \in RunnerStates
      BY DEF IdleRunner, RunnerStates
    <2>2. discarded' \subseteq JobIds
      BY <1>24 DEF RereadFails, NotesDiscarded, RunnerOK, Resting
    <2> QED
      BY <1>24, <2>1, <2>2 DEF RereadFails
  <1>9. CASE RegisterJob
    <2>1. activeJob' \in ActiveJobs
      BY <1>9 DEF RegisterJob, ActiveJobs, RunnerStates
    <2>2. intents' \in [JobIds -> ScanCancellers \cup {NoIntent}] /\ consumed' \subseteq ScanCancellers
      BY <1>9 DEF RegisterJob, RunnerOK, Resting
    <2> QED
      BY <1>9, <1>R, <2>1, <2>2 DEF RegisterJob, RunnerAt
  <1>10. ASSUME NEW a \in BOOLEAN, CheckCancelRequested(a) PROVE ScanTyped'
    <2>1. activeJob' \in ActiveJobs
      BY <1>10 DEF CheckCancelRequested, ActiveJobs
    <2>2. discarded' \subseteq JobIds
      BY <1>10 DEF CheckCancelRequested, NotesDiscarded, RunnerOK, Resting
    <2> QED
      BY <1>10, <1>R, <2>1, <2>2 DEF CheckCancelRequested, RunnerAt
  <1>11. CASE StartJobScan
    <2>1. runner' \in RunnerStates
      BY <1>11 DEF StartJobScan, RunnerAt, RunnerStates
    <2>2. jobScan' \in Scans /\ scanOutcome' \in Outcomes \cup {"running"}
      <3>1. CASE jobScan.at # "off"
        BY <1>11, <3>1 DEF StartJobScan
      <3>2. CASE jobScan.at = "off"
        <4>1. runner.job \in {NoJob} \cup JobIds
          BY DEF RunnerStates
        <4>2. [at |-> "walking", job |-> runner.job, cancelled |-> FALSE] \in Scans
          BY <4>1 DEF Scans
        <4> QED
          BY <1>11, <3>2, <4>2 DEF StartJobScan
      <3> QED
        BY <3>1, <3>2
    <2> QED
      BY <1>11, <2>1, <2>2 DEF StartJobScan
  <1>12. CASE ReadDone \/ ScanDone \/ ScanDrained \/ RunnerExits
    <2>1. runner' \in RunnerStates
      BY <1>12 DEF ReadDone, ScanDone, ScanDrained, RunnerExits, RunnerAt, RunnerStates
    <2> QED
      BY <1>12, <2>1 DEF ReadDone, ScanDone, ScanDrained, RunnerExits
  <1>13. CASE ScanInterrupted
    <2>1. jobScan' \in Scans
      BY <1>13 DEF ScanInterrupted, Scans
    <2> QED
      BY <1>13, <1>R, <2>1 DEF ScanInterrupted, RunnerAt
  <1>14. CASE SettleJob
    <2>1. runner' \in RunnerStates /\ activeJob' \in ActiveJobs
      BY <1>14 DEF SettleJob, RunnerStates, ActiveJobs
    <2> QED
      BY <1>14, <2>1 DEF SettleJob
  <1>15. ASSUME NEW w \in BOOLEAN, NEW a \in BOOLEAN, RequeueJob(w, a) PROVE ScanTyped'
    <2>1. scanJobs' \in [JobIds -> JobTable]
      <3>1. PICK j \in JobIds : j = runner.job
        BY <1>15 DEF RequeueJob, RunnerOK, Resting
      <3> DEFINE g == [scanJobs EXCEPT ![j].status = IF runner.owner THEN "cancelled" ELSE "queued"]
      <3>2. g \in [JobIds -> JobTable]
        BY RowTypes DEF Ended
      <3>3. \/ scanJobs' = [g EXCEPT ![j].cancel = TRUE] \/ scanJobs' = [g EXCEPT ![j].delayed = TRUE]
            \/ scanJobs' = [scanJobs EXCEPT ![j].status = "failed"] \/ scanJobs' = scanJobs
        BY <1>15, <3>1 DEF RequeueJob
      <3>4. [g[j] EXCEPT !.cancel = TRUE] \in JobTable /\ [g[j] EXCEPT !.delayed = TRUE] \in JobTable
        BY <3>2, RowTypes
      <3>5. [scanJobs[j] EXCEPT !.status = "failed"] \in JobTable
        BY RowTypes DEF Ended
      <3> HIDE DEF g
      <3> QED
        BY <3>2, <3>3, <3>4, <3>5
    <2>2. discarded' \subseteq JobIds
      BY <1>15 DEF RequeueJob, NotesDiscarded, RunnerOK, Resting
    <2> QED
      BY <1>15, <1>R, <2>1, <2>2 DEF RequeueJob, RunnerAt
  <1>16. ASSUME NEW a \in BOOLEAN, NEW f \in BOOLEAN, NEW b \in BOOLEAN, NEW d \in BOOLEAN,
                FinishJob(a, f, b, d)
         PROVE  ScanTyped'
    <2>1. FinishedStatus(a, f) \in Ended \cup {"queued", "running"}
      BY DEF FinishedStatus, TerminalStatus, Ended
    <2>2. scanJobs' \in [JobIds -> JobTable]
      <3>1. PICK j \in JobIds : j = runner.job
        BY <1>16 DEF FinishJob, RunnerOK, Resting
      <3> DEFINE g == [scanJobs EXCEPT ![j].status = FinishedStatus(a, f)]
      <3>2. g \in [JobIds -> JobTable]
        BY <2>1, RowTypes
      <3>3. PICK v \in BOOLEAN : v = (a /\ b)
        OBVIOUS
      <3>4. scanJobs' = [g EXCEPT ![j].retryable = v]
        BY <1>16, <3>1, <3>3 DEF FinishJob
      <3> HIDE DEF g
      <3> QED
        BY <3>2, <3>4, RowTypes
    <2>3. discarded' \subseteq JobIds
      BY <1>16 DEF FinishJob, NotesDiscarded, RunnerOK, Resting
    <2>4. runner' \in RunnerStates
      BY <1>16 DEF FinishJob, RunnerStates
    <2> QED
      BY <1>16, <2>2, <2>3, <2>4 DEF FinishJob
  <1>17. ASSUME NEW a \in BOOLEAN, NEW d \in BOOLEAN, RetryAutomatically(a, d) PROVE ScanTyped'
    <2> DEFINE j == runner.job
    <2>1. CASE a /\ Retryable(j) /\ Insertable(scanJobs[j].library)
      <3>1. scanJobs[j].library \in ScanLibraries /\ scanJobs[j].attempt + 1 \in 1 .. MaxScanAttempts
        BY <1>17, <2>1, RowFacts, ScanJobsAssumption DEF Retryable, RetryAutomatically, RunnerOK, Resting
      <3>2. scanJobs' \in [JobIds -> JobTable]
        BY <1>17, <2>1, <3>1, InsertEffect DEF RetryAutomatically, Insertable
      <3> QED
        BY <1>17, <1>R, <3>2 DEF RetryAutomatically, RunnerAt
    <2> QED
      BY <1>17, <2>1, <1>R DEF RetryAutomatically, RunnerAt
  <1>18. CASE ClearActiveJob
    <2>1. scanJobs' \in [JobIds -> JobTable]
      BY <1>18, PruneEffect DEF ClearActiveJob
    <2>2. activeJob' \in ActiveJobs /\ runner' \in RunnerStates
      BY <1>18 DEF ClearActiveJob, NoActiveJob, ActiveJobs, IdleRunner, RunnerStates
    <2> QED
      BY <1>18, <2>1, <2>2 DEF ClearActiveJob
  <1>19. CASE CommitJobScan
    <2>1. jobScan' \in Scans /\ activeJob' \in ActiveJobs
      BY <1>19 DEF CommitJobScan, Scans, ActiveJobs
    <2>2. published' \subseteq JobIds
      BY <1>19 DEF CommitJobScan, Scans
    <2> QED
      BY <1>19, <2>1, <2>2 DEF CommitJobScan
  <1>20. CASE FailJobScan \/ EndScan \/ StopJobScan \/ \E outcome \in Outcomes : ReportScan(outcome)
    <2>1. jobScan' \in Scans /\ scanOutcome' \in Outcomes \cup {"running"}
      <3>1. NoJobScan \in Scans /\ [jobScan EXCEPT !.at = "failing"] \in Scans
            /\ [jobScan EXCEPT !.at = "reported"] \in Scans /\ [jobScan EXCEPT !.cancelled = TRUE] \in Scans
        BY DEF NoJobScan, Scans
      <3> QED
        BY <1>20, <3>1 DEF FailJobScan, EndScan, StopJobScan, ReportScan
    <2> QED
      BY <1>20, <2>1 DEF FailJobScan, EndScan, StopJobScan, ReportScan
  <1>21. ASSUME NEW j \in JobIds, DelayElapses(j) PROVE ScanTyped'
    <2>1. scanJobs' \in [JobIds -> JobTable]
      BY <1>21, RowTypes DEF DelayElapses
    <2> QED
      BY <1>21, <2>1 DEF DelayElapses
  <1>22. CASE StopRunner
    BY <1>22 DEF StopRunner
  <1>23. CASE RestartServer
    <2>1. scanJobs' \in [JobIds -> JobTable]
      BY <1>23, RowTypes DEF RestartServer, Interrupted, Ended
    <2>2. activeJob' \in ActiveJobs /\ runner' \in RunnerStates /\ jobScan' \in Scans
      <3>1. NoActiveJob \in ActiveJobs /\ IdleRunner \in RunnerStates
        BY DEF NoActiveJob, ActiveJobs, IdleRunner, RunnerStates
      <3>2. NoJobScan \in Scans /\ [NoJobScan EXCEPT !.at = "walking"] \in Scans
        BY DEF NoJobScan, Scans
      <3> QED
        BY <1>23, <3>1, <3>2 DEF RestartServer
    <2>3. cancels' \in [ScanCancellers -> CancelCalls] /\ scanOutcome' \in Outcomes \cup {"running"}
      BY <1>23 DEF RestartServer, NoCancel, CancelCalls, Outcomes
    <2> QED
      <3>1. restarts' \in 0 .. MaxScanRestarts
        BY <1>23, ScanJobsAssumption DEF RestartServer
      <3>2. intents' \in [JobIds -> ScanCancellers \cup {NoIntent}] /\ consumed' \subseteq ScanCancellers
        BY <1>23 DEF RestartServer
      <3> QED
        BY <1>23, <2>1, <2>2, <2>3, <3>1, <3>2 DEF RestartServer
  <1> QED
    BY <1>1, <1>2, <1>3, <1>4, <1>5, <1>6, <1>7, <1>8, <1>9, <1>10, <1>11, <1>12, <1>13, <1>14, <1>15,
       <1>16, <1>17, <1>18, <1>19, <1>20, <1>21, <1>22, <1>23, <1>24
    DEF ScanJobsNext, RunnerStep, ScanStep, CancelStep

-----------------------------------------------------------------------------
(* The invariant, action by action.                                        *)

\* What the typing gives of single fields.
LEMMA ScanFacts ==
  ASSUME ScanJobsTypeOK
  PROVE  /\ NoJob \notin JobIds /\ published \subseteq JobIds /\ NoIntent \notin ScanCancellers
         /\ consumed \subseteq ScanCancellers
         /\ \A j \in JobIds : /\ scanJobs[j].cancel \in BOOLEAN
                              /\ scanJobs[j].status \in Ended \cup {"absent", "queued", "running", "pruned"}
         /\ \A j \in JobIds : intents[j] \in ScanCancellers \cup {NoIntent}
         /\ \A c \in ScanCancellers :
              /\ cancels[c].at \in {"idle", "stopped", "marked", "updated", "missed", "failed", "ok", "refused"}
              /\ cancels[c].job \in {NoJob} \cup JobIds /\ cancels[c].intent \in ScanCancellers \cup {NoIntent}
         /\ activeJob \in ActiveJobs /\ runner \in RunnerStates /\ jobScan \in Scans
  <1>1. NoJob \notin JobIds
    BY ScanJobsAssumption DEF NoJob, JobIds
  <1> QED
    BY <1>1, RowFacts, ScanJobsAssumption DEF ScanJobsTypeOK, ActiveJobs, RunnerStates, Scans

\* A cancel request stops the active job or leaves an intent for any other.
LEMMA MarkKeeps ==
  ASSUME ScanIInv, ScanJobsTypeOK', NEW c \in ScanCancellers, NEW j \in JobIds, CancelMark(c, j)
  PROVE  ScanOK'
  <1> USE ScanFacts DEF ScanIInv, ScanOK, Open, Resting, Executing, Scanning
  <1>1. QueuedIsClaimable' /\ RunningIsOwned' /\ SucceededIsPublished'
    BY DEF CancelMark, QueuedIsClaimable, RunningIsOwned, SucceededIsPublished
  <1>2. RunnerOK' /\ OwnScan' /\ ScanKnown'
    BY DEF CancelMark, RunnerOK, OwnScan, ScanKnown, ActiveJobs
  <1>3. ActiveOK'
    BY DEF CancelMark, ActiveOK, ActiveJobs
  <1>4. \A i \in JobIds : Doomed(i) => Doomed(i)'
    BY DEF CancelMark, Doomed, Over, Stopping, ActiveJobs
  <1>5. RowsTrue'
    BY <1>4 DEF CancelMark, RowsTrue
  <1>0. ~Unused(j)
    BY DEF CancelMark
  <1> DEFINE active == activeJob.job = j
             intent == IF intents[j] = NoIntent THEN c ELSE intents[j]
  <1>6. /\ cancels[c].at = "idle" /\ c \notin consumed /\ UNCHANGED <<scanJobs, consumed, runner, published, discarded>>
        /\ \A d \in ScanCancellers : d # c => cancels'[d] = cancels[d]
        /\ cancels'[c].job = j /\ \A i \in JobIds : i # j \/ active => intents'[i] = intents[i]
        /\ ~active => cancels'[c].at = "marked" /\ cancels'[c].intent = intent /\ intents'[j] = intent
        /\ active => cancels'[c].at \in {"refused", "stopped"}
        /\ cancels'[c].at = "stopped" => ~activeJob.committed /\ activeJob'.owner /\ active
    BY DEF CancelMark, CancelsOK, CancelOK, ScanJobsTypeOK
  <1>7. /\ intent \in ScanCancellers /\ cancels'[intent].at # "idle" /\ cancels'[intent].job = j
        /\ intent # c => cancels[intent].job = j /\ cancels[intent].intent = intent /\ cancels[intent].at \in Open
    BY <1>6 DEF IntentsOwned
  <1>8. intent \in consumed => Doomed(j)
    BY <1>6, <1>7 DEF CancelsOK, CancelOK
  <1> HIDE DEF active, intent
  <1>9. IntentsOwned'
    <2> SUFFICES ASSUME NEW i \in JobIds, intents'[i] # NoIntent
                 PROVE  /\ cancels'[intents'[i]].job = i /\ cancels'[intents'[i]].intent = intents'[i]
                        /\ cancels'[intents'[i]].at \in Open
      BY DEF IntentsOwned
    <2>1. CASE i = j /\ ~active
      BY <1>6, <1>7, <2>1
    <2>2. CASE i # j \/ active
      BY <1>6, <2>2 DEF IntentsOwned
    <2> QED
      BY <2>1, <2>2
  <1>10. ASSUME NEW d \in ScanCancellers PROVE CancelOK(d)'
    <2>1. CASE d # c
      <3>1. cancels[d].at \in Open => cancels[d].intent # c
        BY <1>6 DEF CancelsOK, CancelOK
      <3>2. \A i \in JobIds : intents[i] # NoIntent => intents'[i] = intents[i]
        BY <1>6 DEF active, intent
      <3> QED
        BY <1>4, <1>6, <2>1, <3>1, <3>2 DEF CancelsOK, CancelOK, Over, Unused
    <2>2. CASE d = c /\ active
      <3>1. cancels'[c].at = "stopped" => Doomed(j)'
        BY <1>6 DEF Doomed, Stopping, RunnerOK, ActiveOK, active, RunnerStates
      <3> QED
        BY <1>6, <1>0, <2>2, <3>1 DEF CancelOK, Unused
    <2>3. CASE d = c /\ ~active
      BY <1>4, <1>6, <1>7, <1>8, <1>0, <2>3 DEF CancelOK, Unused
    <2> QED
      BY <2>1, <2>2, <2>3
  <1>11. CancelsOK'
    BY <1>10 DEF CancelsOK
  <1> QED
    BY <1>1, <1>2, <1>3, <1>5, <1>9, <1>11

\* A step that leaves the requests and their intents alone and undoes no
\* cancellation keeps what is said of them.
LEMMA CancelsStay ==
  ASSUME ScanIInv, UNCHANGED <<cancels, intents, consumed>>,
         \A j \in JobIds : (Doomed(j) => Doomed(j)') /\ (Over(j) => Over(j)') /\ (~Unused(j) => ~Unused(j)')
  PROVE  CancelsOK' /\ IntentsOwned'
  <1>1. IntentsOwned'
    BY DEF ScanIInv, ScanOK, IntentsOwned
  <1>2. ASSUME NEW c \in ScanCancellers PROVE CancelOK(c)'
    BY DEF ScanIInv, ScanOK, CancelsOK, CancelOK, Open
  <1> QED
    BY <1>1, <1>2 DEF CancelsOK

\* The runner reads the recorded request back.
LEMMA CheckKeeps ==
  ASSUME ScanIInv, ScanJobsTypeOK', NEW a \in BOOLEAN, CheckCancelRequested(a)
  PROVE  ScanOK'
  <1> USE ScanFacts DEF ScanIInv, ScanOK, Open, Resting, Executing, Scanning
  <1>1. QueuedIsClaimable' /\ RunningIsOwned' /\ SucceededIsPublished'
    BY DEF CheckCancelRequested, RunnerAt, NotesDiscarded, CancelSeen, QueuedIsClaimable, RunningIsOwned,
       SucceededIsPublished, RunnerStates
  <1>2. RunnerOK' /\ OwnScan'
    BY DEF CheckCancelRequested, RunnerAt, NotesDiscarded, CancelSeen, RunnerOK, OwnScan, RunnerStates, ActiveJobs, Scans
  <1>3. ScanKnown'
    BY DEF CheckCancelRequested, RunnerAt, NotesDiscarded, CancelSeen, RunnerOK, OwnScan, ScanKnown, RunnerStates, Scans
  <1>4. ActiveOK'
    BY DEF CheckCancelRequested, RunnerAt, NotesDiscarded, CancelSeen, RunnerOK, ScanKnown, ActiveOK, RunnerStates,
       ActiveJobs
  <1>5. \A i \in JobIds : (Doomed(i) => Doomed(i)') /\ (Over(i) => Over(i)') /\ (~Unused(i) => ~Unused(i)')
    BY DEF CheckCancelRequested, RunnerAt, NotesDiscarded, CancelSeen, Doomed, Over, Unused, Stopping, RunnerOK,
       ActiveOK, ScanKnown, RunnerStates, ActiveJobs
  <1>6. RowsTrue'
    BY <1>5 DEF CheckCancelRequested, RunnerAt, NotesDiscarded, CancelSeen, RowsTrue
  <1>7. CancelsOK' /\ IntentsOwned'
    BY <1>5, CancelsStay DEF CheckCancelRequested, RunnerAt, NotesDiscarded, CancelSeen
  <1> QED
    BY <1>1, <1>2, <1>3, <1>4, <1>6, <1>7

\* The runner starts its scan, or meets another one.
LEMMA StartKeeps ==
  ASSUME ScanIInv, ScanJobsTypeOK', StartJobScan
  PROVE  ScanOK'
  <1> USE ScanFacts DEF ScanIInv, ScanOK, Open, Resting, Executing, Scanning
  <1>0. /\ runner.at = "starting" /\ runner'.job = runner.job
        /\ UNCHANGED <<scanJobs, activeJob, intents, consumed, cancels, published, discarded>>
        /\ \/ /\ jobScan.at # "off" /\ UNCHANGED <<jobScan, scanOutcome>>
              /\ runner'.at = "settling" /\ runner'.result = "active"
           \/ /\ jobScan.at = "off" /\ jobScan'.at = "walking" /\ jobScan'.job = runner.job
              /\ runner'.at = "started"
    <2>1. CASE jobScan.at # "off"
      BY <2>1 DEF StartJobScan, RunnerStates
    <2>2. CASE jobScan.at = "off"
      BY <2>2 DEF StartJobScan, RunnerAt, RunnerStates
    <2> QED
      BY <2>1, <2>2
  <1>1. QueuedIsClaimable' /\ RunningIsOwned' /\ SucceededIsPublished'
    BY <1>0 DEF QueuedIsClaimable, RunningIsOwned, SucceededIsPublished, RunnerStates
  <1>2. RunnerOK' /\ OwnScan'
    BY <1>0 DEF RunnerOK, OwnScan, RunnerStates, ActiveJobs, Scans
  <1>3. ScanKnown'
    BY <1>0 DEF RunnerOK, OwnScan, ScanKnown, RunnerStates, Scans
  <1>4. ActiveOK'
    BY <1>0 DEF RunnerOK, ScanKnown, ActiveOK, RunnerStates, ActiveJobs
  <1>5. \A i \in JobIds : (Doomed(i) => Doomed(i)') /\ (Over(i) => Over(i)') /\ (~Unused(i) => ~Unused(i)')
    BY <1>0 DEF Doomed, Over, Unused, Stopping, RunnerOK, ActiveOK, ScanKnown, RunnerStates, ActiveJobs
  <1>6. RowsTrue'
    BY <1>0, <1>5 DEF RowsTrue
  <1>7. CancelsOK' /\ IntentsOwned'
    BY <1>0, <1>5, CancelsStay
  <1> QED
    BY <1>1, <1>2, <1>3, <1>4, <1>6, <1>7

\* The runner reads the done channel.
LEMMA ReadDoneKeeps ==
  ASSUME ScanIInv, ScanJobsTypeOK', ReadDone
  PROVE  ScanOK'
  <1> USE ScanFacts DEF ScanIInv, ScanOK, Open, Resting, Executing, Scanning
  <1>1. QueuedIsClaimable' /\ RunningIsOwned' /\ SucceededIsPublished'
    BY DEF ReadDone, QueuedIsClaimable, RunningIsOwned, SucceededIsPublished, RunnerStates
  <1>2. RunnerOK' /\ OwnScan'
    BY DEF ReadDone, RunnerOK, OwnScan, RunnerStates, ActiveJobs, Scans
  <1>3. ScanKnown'
    BY DEF ReadDone, RunnerOK, OwnScan, ScanKnown, RunnerStates, Scans
  <1>4. ActiveOK'
    BY DEF ReadDone, RunnerOK, ScanKnown, ActiveOK, RunnerStates, ActiveJobs
  <1>5. \A i \in JobIds : (Doomed(i) => Doomed(i)') /\ (Over(i) => Over(i)') /\ (~Unused(i) => ~Unused(i)')
    BY DEF ReadDone, Doomed, Over, Unused, Stopping, RunnerOK, ActiveOK, ScanKnown, RunnerStates,
       ActiveJobs
  <1>6. RowsTrue'
    BY <1>5 DEF ReadDone, RowsTrue
  <1>7. CancelsOK' /\ IntentsOwned'
    BY <1>5, CancelsStay DEF ReadDone
  <1> QED
    BY <1>1, <1>2, <1>3, <1>4, <1>6, <1>7

\* The runner sees its scan end.
LEMMA DoneKeeps ==
  ASSUME ScanIInv, ScanJobsTypeOK', ScanDone
  PROVE  ScanOK'
  <1> USE ScanFacts DEF ScanIInv, ScanOK, Open, Resting, Executing, Scanning
  <1>1. QueuedIsClaimable' /\ RunningIsOwned' /\ SucceededIsPublished'
    BY DEF ScanDone, QueuedIsClaimable, RunningIsOwned, SucceededIsPublished, RunnerStates
  <1>2. RunnerOK' /\ OwnScan'
    BY DEF ScanDone, RunnerOK, OwnScan, RunnerStates, ActiveJobs, Scans
  <1>3. ScanKnown'
    BY DEF ScanDone, RunnerOK, OwnScan, ScanKnown, RunnerStates, Scans
  <1>4. ActiveOK'
    BY DEF ScanDone, RunnerOK, ScanKnown, ActiveOK, RunnerStates, ActiveJobs
  <1>5. \A i \in JobIds : (Doomed(i) => Doomed(i)') /\ (Over(i) => Over(i)') /\ (~Unused(i) => ~Unused(i)')
    BY DEF ScanDone, Doomed, Over, Unused, Stopping, RunnerOK, ActiveOK, ScanKnown, RunnerStates,
       ActiveJobs
  <1>6. RowsTrue'
    BY <1>5 DEF ScanDone, RowsTrue
  <1>7. CancelsOK' /\ IntentsOwned'
    BY <1>5, CancelsStay DEF ScanDone
  <1> QED
    BY <1>1, <1>2, <1>3, <1>4, <1>6, <1>7

\* The runner cancels its scan.
LEMMA InterruptedKeeps ==
  ASSUME ScanIInv, ScanJobsTypeOK', ScanInterrupted
  PROVE  ScanOK'
  <1> USE ScanFacts DEF ScanIInv, ScanOK, Open, Resting, Executing, Scanning
  <1>1. QueuedIsClaimable' /\ RunningIsOwned' /\ SucceededIsPublished'
    BY DEF ScanInterrupted, RunnerAt, QueuedIsClaimable, RunningIsOwned, SucceededIsPublished,
       RunnerStates
  <1>2. RunnerOK' /\ OwnScan'
    BY DEF ScanInterrupted, RunnerAt, RunnerOK, OwnScan, RunnerStates, ActiveJobs, Scans
  <1>3. ScanKnown'
    BY DEF ScanInterrupted, RunnerAt, RunnerOK, OwnScan, ScanKnown, RunnerStates, Scans
  <1>4. ActiveOK'
    BY DEF ScanInterrupted, RunnerAt, RunnerOK, ScanKnown, ActiveOK, RunnerStates, ActiveJobs
  <1>5. \A i \in JobIds : (Doomed(i) => Doomed(i)') /\ (Over(i) => Over(i)') /\ (~Unused(i) => ~Unused(i)')
    BY DEF ScanInterrupted, RunnerAt, Doomed, Over, Unused, Stopping, RunnerOK, ActiveOK,
       ScanKnown, RunnerStates, ActiveJobs
  <1>6. RowsTrue'
    BY <1>5 DEF ScanInterrupted, RunnerAt, RowsTrue
  <1>7. CancelsOK' /\ IntentsOwned'
    BY <1>5, CancelsStay DEF ScanInterrupted, RunnerAt
  <1> QED
    BY <1>1, <1>2, <1>3, <1>4, <1>6, <1>7

\* The runner waited for the scan it cancelled.
LEMMA DrainedKeeps ==
  ASSUME ScanIInv, ScanJobsTypeOK', ScanDrained
  PROVE  ScanOK'
  <1> USE ScanFacts DEF ScanIInv, ScanOK, Open, Resting, Executing, Scanning
  <1>1. QueuedIsClaimable' /\ RunningIsOwned' /\ SucceededIsPublished'
    BY DEF ScanDrained, QueuedIsClaimable, RunningIsOwned, SucceededIsPublished, RunnerStates
  <1>2. RunnerOK' /\ OwnScan'
    BY DEF ScanDrained, RunnerOK, OwnScan, RunnerStates, ActiveJobs, Scans
  <1>3. ScanKnown'
    BY DEF ScanDrained, RunnerOK, OwnScan, ScanKnown, RunnerStates, Scans
  <1>4. ActiveOK'
    BY DEF ScanDrained, RunnerOK, ScanKnown, ActiveOK, RunnerStates, ActiveJobs
  <1>5. \A i \in JobIds : (Doomed(i) => Doomed(i)') /\ (Over(i) => Over(i)') /\ (~Unused(i) => ~Unused(i)')
    BY DEF ScanDrained, Doomed, Over, Unused, Stopping, RunnerOK, ActiveOK, ScanKnown,
       RunnerStates, ActiveJobs
  <1>6. RowsTrue'
    BY <1>5 DEF ScanDrained, RowsTrue
  <1>7. CancelsOK' /\ IntentsOwned'
    BY <1>5, CancelsStay DEF ScanDrained
  <1> QED
    BY <1>1, <1>2, <1>3, <1>4, <1>6, <1>7

\* The runner settles whether its job was cancelled.
LEMMA SettleKeeps ==
  ASSUME ScanIInv, ScanJobsTypeOK', SettleJob
  PROVE  ScanOK'
  <1> USE ScanFacts DEF ScanIInv, ScanOK, Open, Resting, Executing, Scanning
  <1>1. QueuedIsClaimable' /\ RunningIsOwned' /\ SucceededIsPublished'
    BY DEF SettleJob, QueuedIsClaimable, RunningIsOwned, SucceededIsPublished, RunnerStates
  <1>2. RunnerOK' /\ OwnScan'
    BY DEF SettleJob, RunnerOK, OwnScan, RunnerStates, ActiveJobs, Scans
  <1>3. ScanKnown'
    BY DEF SettleJob, RunnerOK, OwnScan, ScanKnown, RunnerStates, Scans
  <1>4. ActiveOK'
    BY DEF SettleJob, RunnerOK, ScanKnown, ActiveOK, RunnerStates, ActiveJobs
  <1>5. \A i \in JobIds : (Doomed(i) => Doomed(i)') /\ (Over(i) => Over(i)') /\ (~Unused(i) => ~Unused(i)')
    BY DEF SettleJob, Doomed, Over, Unused, Stopping, RunnerOK, ActiveOK, ScanKnown, RunnerStates,
       ActiveJobs
  <1>6. RowsTrue'
    BY <1>5 DEF SettleJob, RowsTrue
  <1>7. CancelsOK' /\ IntentsOwned'
    BY <1>5, CancelsStay DEF SettleJob
  <1> QED
    BY <1>1, <1>2, <1>3, <1>4, <1>6, <1>7

\* The runner ends.
LEMMA ExitsKeep ==
  ASSUME ScanIInv, ScanJobsTypeOK', RunnerExits
  PROVE  ScanOK'
  <1> USE ScanFacts DEF ScanIInv, ScanOK, Open, Resting, Executing, Scanning
  <1>1. QueuedIsClaimable' /\ RunningIsOwned' /\ SucceededIsPublished'
    BY DEF RunnerExits, RunnerAt, QueuedIsClaimable, RunningIsOwned, SucceededIsPublished, RunnerStates
  <1>2. RunnerOK' /\ OwnScan'
    BY DEF RunnerExits, RunnerAt, RunnerOK, OwnScan, RunnerStates, ActiveJobs, Scans
  <1>3. ScanKnown'
    BY DEF RunnerExits, RunnerAt, RunnerOK, OwnScan, ScanKnown, RunnerStates, Scans
  <1>4. ActiveOK'
    BY DEF RunnerExits, RunnerAt, RunnerOK, ScanKnown, ActiveOK, RunnerStates, ActiveJobs
  <1>5. \A i \in JobIds : (Doomed(i) => Doomed(i)') /\ (Over(i) => Over(i)') /\ (~Unused(i) => ~Unused(i)')
    BY DEF RunnerExits, RunnerAt, Doomed, Over, Unused, Stopping, RunnerOK, ActiveOK, ScanKnown,
       RunnerStates, ActiveJobs
  <1>6. RowsTrue'
    BY <1>5 DEF RunnerExits, RunnerAt, RowsTrue
  <1>7. CancelsOK' /\ IntentsOwned'
    BY <1>5, CancelsStay DEF RunnerExits, RunnerAt
  <1> QED
    BY <1>1, <1>2, <1>3, <1>4, <1>6, <1>7

\* The scan fails.
LEMMA FailKeeps ==
  ASSUME ScanIInv, ScanJobsTypeOK', FailJobScan
  PROVE  ScanOK'
  <1> USE ScanFacts DEF ScanIInv, ScanOK, Open, Resting, Executing, Scanning
  <1>1. QueuedIsClaimable' /\ RunningIsOwned' /\ SucceededIsPublished'
    BY DEF FailJobScan, QueuedIsClaimable, RunningIsOwned, SucceededIsPublished, RunnerStates
  <1>2. RunnerOK' /\ OwnScan'
    BY DEF FailJobScan, RunnerOK, OwnScan, RunnerStates, ActiveJobs, Scans
  <1>3. ScanKnown'
    BY DEF FailJobScan, RunnerOK, OwnScan, ScanKnown, RunnerStates, Scans
  <1>4. ActiveOK'
    BY DEF FailJobScan, RunnerOK, ScanKnown, ActiveOK, RunnerStates, ActiveJobs
  <1>5. \A i \in JobIds : (Doomed(i) => Doomed(i)') /\ (Over(i) => Over(i)') /\ (~Unused(i) => ~Unused(i)')
    BY DEF FailJobScan, Doomed, Over, Unused, Stopping, RunnerOK, ActiveOK, ScanKnown,
       RunnerStates, ActiveJobs
  <1>6. RowsTrue'
    BY <1>5 DEF FailJobScan, RowsTrue
  <1>7. CancelsOK' /\ IntentsOwned'
    BY <1>5, CancelsStay DEF FailJobScan
  <1> QED
    BY <1>1, <1>2, <1>3, <1>4, <1>6, <1>7

\* The scan ends.
LEMMA EndKeeps ==
  ASSUME ScanIInv, ScanJobsTypeOK', EndScan
  PROVE  ScanOK'
  <1> USE ScanFacts DEF ScanIInv, ScanOK, Open, Resting, Executing, Scanning
  <1>1. QueuedIsClaimable' /\ RunningIsOwned' /\ SucceededIsPublished'
    BY DEF EndScan, NoJobScan, QueuedIsClaimable, RunningIsOwned, SucceededIsPublished, RunnerStates
  <1>2. RunnerOK' /\ OwnScan'
    BY DEF EndScan, NoJobScan, RunnerOK, OwnScan, RunnerStates, ActiveJobs, Scans
  <1>3. ScanKnown'
    BY DEF EndScan, NoJobScan, RunnerOK, OwnScan, ScanKnown, RunnerStates, Scans
  <1>4. ActiveOK'
    BY DEF EndScan, NoJobScan, RunnerOK, ScanKnown, ActiveOK, RunnerStates, ActiveJobs
  <1>5. \A i \in JobIds : (Doomed(i) => Doomed(i)') /\ (Over(i) => Over(i)') /\ (~Unused(i) => ~Unused(i)')
    BY DEF EndScan, NoJobScan, Doomed, Over, Unused, Stopping, RunnerOK, ActiveOK, ScanKnown,
       RunnerStates, ActiveJobs
  <1>6. RowsTrue'
    BY <1>5 DEF EndScan, NoJobScan, RowsTrue
  <1>7. CancelsOK' /\ IntentsOwned'
    BY <1>5, CancelsStay DEF EndScan, NoJobScan
  <1> QED
    BY <1>1, <1>2, <1>3, <1>4, <1>6, <1>7

\* The scan reports its outcome.
LEMMA ReportKeeps ==
  ASSUME ScanIInv, ScanJobsTypeOK', NEW outcome \in Outcomes, ReportScan(outcome)
  PROVE  ScanOK'
  <1> USE ScanFacts DEF ScanIInv, ScanOK, Open, Resting, Executing, Scanning
  <1>1. QueuedIsClaimable' /\ RunningIsOwned' /\ SucceededIsPublished'
    BY DEF ReportScan, Outcomes, QueuedIsClaimable, RunningIsOwned, SucceededIsPublished, RunnerStates
  <1>2. RunnerOK' /\ OwnScan'
    BY DEF ReportScan, Outcomes, RunnerOK, OwnScan, RunnerStates, ActiveJobs, Scans
  <1>3. ScanKnown'
    BY DEF ReportScan, Outcomes, RunnerOK, OwnScan, ScanKnown, RunnerStates, Scans
  <1>4. ActiveOK'
    BY DEF ReportScan, Outcomes, RunnerOK, ScanKnown, ActiveOK, RunnerStates, ActiveJobs
  <1>5. \A i \in JobIds : (Doomed(i) => Doomed(i)') /\ (Over(i) => Over(i)') /\ (~Unused(i) => ~Unused(i)')
    BY DEF ReportScan, Outcomes, Doomed, Over, Unused, Stopping, RunnerOK, ActiveOK, ScanKnown,
       RunnerStates, ActiveJobs
  <1>6. RowsTrue'
    BY <1>5 DEF ReportScan, Outcomes, RowsTrue
  <1>7. CancelsOK' /\ IntentsOwned'
    BY <1>5, CancelsStay DEF ReportScan, Outcomes
  <1> QED
    BY <1>1, <1>2, <1>3, <1>4, <1>6, <1>7

\* Shutdown cancels the scan.
LEMMA StopScanKeeps ==
  ASSUME ScanIInv, ScanJobsTypeOK', StopJobScan
  PROVE  ScanOK'
  <1> USE ScanFacts DEF ScanIInv, ScanOK, Open, Resting, Executing, Scanning
  <1>1. QueuedIsClaimable' /\ RunningIsOwned' /\ SucceededIsPublished'
    BY DEF StopJobScan, QueuedIsClaimable, RunningIsOwned, SucceededIsPublished, RunnerStates
  <1>2. RunnerOK' /\ OwnScan'
    BY DEF StopJobScan, RunnerOK, OwnScan, RunnerStates, ActiveJobs, Scans
  <1>3. ScanKnown'
    BY DEF StopJobScan, RunnerOK, OwnScan, ScanKnown, RunnerStates, Scans
  <1>4. ActiveOK'
    BY DEF StopJobScan, RunnerOK, ScanKnown, ActiveOK, RunnerStates, ActiveJobs
  <1>5. \A i \in JobIds : (Doomed(i) => Doomed(i)') /\ (Over(i) => Over(i)') /\ (~Unused(i) => ~Unused(i)')
    BY DEF StopJobScan, Doomed, Over, Unused, Stopping, RunnerOK, ActiveOK, ScanKnown,
       RunnerStates, ActiveJobs
  <1>6. RowsTrue'
    BY <1>5 DEF StopJobScan, RowsTrue
  <1>7. CancelsOK' /\ IntentsOwned'
    BY <1>5, CancelsStay DEF StopJobScan
  <1> QED
    BY <1>1, <1>2, <1>3, <1>4, <1>6, <1>7

\* Shutdown cancels the runner.
LEMMA StopRunnerKeeps ==
  ASSUME ScanIInv, ScanJobsTypeOK', StopRunner
  PROVE  ScanOK'
  <1> USE ScanFacts DEF ScanIInv, ScanOK, Open, Resting, Executing, Scanning
  <1>1. QueuedIsClaimable' /\ RunningIsOwned' /\ SucceededIsPublished'
    BY DEF StopRunner, QueuedIsClaimable, RunningIsOwned, SucceededIsPublished, RunnerStates
  <1>2. RunnerOK' /\ OwnScan'
    BY DEF StopRunner, RunnerOK, OwnScan, RunnerStates, ActiveJobs, Scans
  <1>3. ScanKnown'
    BY DEF StopRunner, RunnerOK, OwnScan, ScanKnown, RunnerStates, Scans
  <1>4. ActiveOK'
    BY DEF StopRunner, RunnerOK, ScanKnown, ActiveOK, RunnerStates, ActiveJobs
  <1>5. \A i \in JobIds : (Doomed(i) => Doomed(i)') /\ (Over(i) => Over(i)') /\ (~Unused(i) => ~Unused(i)')
    BY DEF StopRunner, Doomed, Over, Unused, Stopping, RunnerOK, ActiveOK, ScanKnown, RunnerStates,
       ActiveJobs
  <1>6. RowsTrue'
    BY <1>5 DEF StopRunner, RowsTrue
  <1>7. CancelsOK' /\ IntentsOwned'
    BY <1>5, CancelsStay DEF StopRunner
  <1> QED
    BY <1>1, <1>2, <1>3, <1>4, <1>6, <1>7

\* The delay of a queued job elapses.
LEMMA DelayKeeps ==
  ASSUME ScanIInv, ScanJobsTypeOK', NEW j \in JobIds, DelayElapses(j)
  PROVE  ScanOK'
  <1> USE ScanFacts DEF ScanIInv, ScanOK, Open, Resting, Executing, Scanning
  <1>0. /\ UNCHANGED <<activeJob, intents, consumed, cancels, runner, jobScan, scanOutcome, published, discarded>>
        /\ \A i \in JobIds : scanJobs'[i].status = scanJobs[i].status /\ scanJobs'[i].cancel = scanJobs[i].cancel
    BY DEF DelayElapses, ScanJobsTypeOK
  <1>1. QueuedIsClaimable' /\ RunningIsOwned' /\ SucceededIsPublished'
    BY <1>0 DEF QueuedIsClaimable, RunningIsOwned, SucceededIsPublished, RunnerStates
  <1>2. RunnerOK' /\ OwnScan'
    BY <1>0 DEF RunnerOK, OwnScan, RunnerStates, ActiveJobs, Scans
  <1>3. ScanKnown'
    BY <1>0 DEF RunnerOK, OwnScan, ScanKnown, RunnerStates, Scans
  <1>4. ActiveOK'
    BY <1>0 DEF RunnerOK, ScanKnown, ActiveOK, RunnerStates, ActiveJobs
  <1>5. \A i \in JobIds : (Doomed(i) => Doomed(i)') /\ (Over(i) => Over(i)') /\ (~Unused(i) => ~Unused(i)')
    BY <1>0 DEF Doomed, Over, Unused, Stopping, RunnerOK, ActiveOK, ScanKnown, RunnerStates, ActiveJobs
  <1>6. RowsTrue'
    BY <1>0, <1>5 DEF RowsTrue
  <1>7. CancelsOK' /\ IntentsOwned'
    BY <1>0, <1>5, CancelsStay
  <1> QED
    BY <1>1, <1>2, <1>3, <1>4, <1>6, <1>7

\* A job is added to the queue, by the owner, a schedule or a manual retry.
LEMMA InsertKeeps ==
  ASSUME ScanIInv, ScanJobsTypeOK', InsertStep,
         UNCHANGED <<activeJob, intents, consumed, cancels, runner, jobScan, scanOutcome, published, discarded>>
  PROVE  ScanOK'
  <1> USE ScanFacts DEF ScanIInv, ScanOK, Open, Resting, Executing, Scanning
  <1>1. QueuedIsClaimable' /\ RunningIsOwned' /\ SucceededIsPublished'
    BY DEF InsertStep, QueuedIsClaimable, RunningIsOwned, SucceededIsPublished, RunnerStates
  <1>2. RunnerOK' /\ OwnScan'
    BY DEF InsertStep, RunnerOK, OwnScan, RunnerStates, ActiveJobs, Scans
  <1>3. ScanKnown'
    BY DEF InsertStep, RunnerOK, OwnScan, ScanKnown, RunnerStates, Scans
  <1>4. ActiveOK'
    BY DEF InsertStep, RunnerOK, ScanKnown, ActiveOK, RunnerStates, ActiveJobs
  <1>5. \A i \in JobIds : (Doomed(i) => Doomed(i)') /\ (Over(i) => Over(i)') /\ (~Unused(i) => ~Unused(i)')
    <2>1. PICK n \in JobIds : /\ scanJobs[n].status = "absent" /\ scanJobs'[n].status = "queued"
                              /\ \A j \in JobIds \ {n} : scanJobs'[j] = scanJobs[j]
      BY DEF InsertStep
    <2>2. \A i \in JobIds : (Over(i) => Over(i)') /\ (~Unused(i) => ~Unused(i)')
      BY <2>1 DEF Over, Unused, Ended
    <2>3. Stopping => runner.job # n /\ runner.job \in JobIds
      BY <2>1 DEF Stopping, RunnerOK
    <2>4. Stopping => Stopping'
      BY <2>1, <2>3 DEF Stopping
    <2> QED
      BY <2>2, <2>4 DEF Doomed
  <1>6. RowsTrue'
    BY <1>5 DEF InsertStep, RowsTrue
  <1>7. CancelsOK' /\ IntentsOwned'
    BY <1>5, CancelsStay DEF InsertStep
  <1> QED
    BY <1>1, <1>2, <1>3, <1>4, <1>6, <1>7

\* The runner claims the oldest job.
LEMMA ClaimKeeps ==
  ASSUME ScanIInv, ScanJobsTypeOK', NEW j \in JobIds, ClaimableJob(j), runner.at = "idle",
         scanJobs' = [scanJobs EXCEPT ![j].status = "running"],
         runner' = [IdleRunner EXCEPT !.at = "claimed", !.job = j],
         UNCHANGED <<activeJob, intents, consumed, cancels, jobScan, scanOutcome, published, discarded>>
  PROVE  ScanOK'
  <1> USE ScanFacts DEF ScanIInv, ScanOK, Open, Resting, Executing, Scanning
  <1>0. /\ runner'.at = "claimed" /\ runner'.job = j
        /\ scanJobs[j].status = "queued" /\ scanJobs'[j].status = "running" /\ scanJobs'[j].cancel = FALSE
        /\ \A i \in JobIds \ {j} : scanJobs'[i] = scanJobs[i]
    BY DEF IdleRunner, ClaimableJob, ScanJobsTypeOK
  <1>1. QueuedIsClaimable' /\ RunningIsOwned' /\ SucceededIsPublished'
    BY <1>0 DEF QueuedIsClaimable, RunningIsOwned, SucceededIsPublished, RunnerStates
  <1>2. RunnerOK' /\ OwnScan'
    BY <1>0 DEF RunnerOK, OwnScan, RunnerStates, ActiveJobs, Scans
  <1>3. ScanKnown'
    BY <1>0 DEF ScanKnown, RowsTrue
  <1>4. ActiveOK'
    BY <1>0 DEF RunnerOK, ScanKnown, ActiveOK, RunnerStates, ActiveJobs
  <1>5. \A i \in JobIds : (Doomed(i) => Doomed(i)') /\ (Over(i) => Over(i)') /\ (~Unused(i) => ~Unused(i)')
    BY <1>0 DEF Doomed, Over, Unused, Stopping, Ended
  <1>6. RowsTrue'
    BY <1>0, <1>5 DEF RowsTrue
  <1>7. CancelsOK' /\ IntentsOwned'
    BY <1>0, <1>5, CancelsStay
  <1> QED
    BY <1>1, <1>2, <1>3, <1>4, <1>6, <1>7

\* The job whose claim could not be read back is left running.
LEMMA RereadKeeps ==
  ASSUME ScanIInv, ScanJobsTypeOK', RereadFails
  PROVE  ScanOK'
  <1> USE ScanFacts DEF ScanIInv, ScanOK, Open, Resting, Executing, Scanning
  <1>0. /\ runner.at = "claimed" /\ runner'.at = "idle" /\ discarded' = discarded \cup {runner.job}
        /\ UNCHANGED <<scanJobs, activeJob, intents, consumed, cancels, jobScan, scanOutcome, published>>
    BY DEF RereadFails, NotesDiscarded, IdleRunner
  <1>1. QueuedIsClaimable' /\ RunningIsOwned' /\ SucceededIsPublished'
    BY <1>0 DEF QueuedIsClaimable, RunningIsOwned, SucceededIsPublished
  <1>2. RunnerOK' /\ OwnScan' /\ ScanKnown' /\ ActiveOK'
    BY <1>0 DEF RunnerOK, OwnScan, ScanKnown, ActiveOK
  <1>3. \A i \in JobIds : (Doomed(i) => Doomed(i)') /\ (Over(i) => Over(i)') /\ (~Unused(i) => ~Unused(i)')
    BY <1>0 DEF Doomed, Over, Unused
  <1>4. RowsTrue'
    BY <1>0, <1>3 DEF RowsTrue
  <1>5. CancelsOK' /\ IntentsOwned'
    BY <1>0, <1>3, CancelsStay
  <1> QED
    BY <1>1, <1>2, <1>4, <1>5

\* A job that met another scan is queued again, or ends cancelled; when that
\* cannot be written it ends failed, or stays as it is.
LEMMA RequeueKeeps ==
  ASSUME ScanIInv, ScanJobsTypeOK', NEW w \in BOOLEAN, NEW a \in BOOLEAN, RequeueJob(w, a)
  PROVE  ScanOK'
  <1> USE ScanFacts DEF ScanIInv, ScanOK, Open, Resting, Executing, Scanning
  <1>0. /\ runner.at = "finishing" /\ runner.result = "active" /\ runner'.at = "clearing" /\ runner'.job = runner.job
        /\ runner.job \in JobIds
        /\ \/ scanJobs'[runner.job].status = "cancelled" /\ runner.owner
           \/ scanJobs'[runner.job].status = "failed"
           \/ /\ scanJobs'[runner.job].status = "queued" /\ ~runner.owner
              /\ scanJobs'[runner.job].cancel = scanJobs[runner.job].cancel
           \/ scanJobs'[runner.job] = scanJobs[runner.job] /\ runner.job \in discarded'
        /\ \A i \in JobIds \ {runner.job} : scanJobs'[i] = scanJobs[i]
        /\ discarded \subseteq discarded'
        /\ UNCHANGED <<activeJob, intents, consumed, cancels, jobScan, scanOutcome, published>>
    <2>1. PICK j \in JobIds : j = runner.job
      BY DEF RequeueJob, RunnerOK
    <2>2. scanJobs \in [JobIds -> JobTable]
      BY RowFacts
    <2>3. CASE w /\ runner.owner
      BY <2>1, <2>2, <2>3 DEF RequeueJob, RunnerAt, NotesDiscarded, RunnerStates, JobTable
    <2>4. CASE w /\ ~runner.owner
      BY <2>1, <2>2, <2>4 DEF RequeueJob, RunnerAt, NotesDiscarded, RunnerStates, JobTable
    <2>5. CASE ~w
      BY <2>1, <2>2, <2>5 DEF RequeueJob, RunnerAt, NotesDiscarded, RunnerStates, JobTable
    <2> QED
      BY <2>3, <2>4, <2>5 DEF RunnerStates
  <1>A. scanJobs[runner.job].cancel => runner.owner \/ runner.job \in discarded
    BY <1>0 DEF RowsTrue, RunnerOK, Doomed, Over, Stopping, Ended
  <1>1. QueuedIsClaimable' /\ RunningIsOwned' /\ SucceededIsPublished'
    BY <1>0, <1>A DEF QueuedIsClaimable, RunningIsOwned, SucceededIsPublished
  <1>2. RunnerOK' /\ OwnScan'
    BY <1>0 DEF RunnerOK, OwnScan, RunnerStates, ActiveJobs, Scans
  <1>3. ScanKnown'
    BY <1>0 DEF RunnerOK, OwnScan, ScanKnown, RunnerStates, Scans
  <1>4. ActiveOK'
    BY <1>0 DEF RunnerOK, ScanKnown, ActiveOK, RunnerStates, ActiveJobs
  <1>5. \A i \in JobIds : (Doomed(i) => Doomed(i)') /\ (Over(i) => Over(i)') /\ (~Unused(i) => ~Unused(i)')
    BY <1>0 DEF Doomed, Over, Unused, Stopping, Ended, RunnerOK
  <1>6. RowsTrue'
    BY <1>0, <1>5 DEF RowsTrue, ScanKnown, RunningIsOwned
  <1>7. CancelsOK' /\ IntentsOwned'
    BY <1>0, <1>5, CancelsStay
  <1> QED
    BY <1>1, <1>2, <1>3, <1>4, <1>6, <1>7

\* The job ends with what its scan came to.
LEMMA FinishKeeps ==
  ASSUME ScanIInv, ScanJobsTypeOK', NEW a \in BOOLEAN, NEW f \in BOOLEAN, NEW b \in BOOLEAN,
         NEW d \in BOOLEAN, FinishJob(a, f, b, d)
  PROVE  ScanOK'
  <1> USE ScanFacts DEF ScanIInv, ScanOK, Open, Resting, Executing, Scanning
  <1>0. /\ runner.at = "finishing" /\ runner'.at \in {"clearing", "retrying"} /\ runner'.job = runner.job
        /\ runner.job \in JobIds /\ scanJobs'[runner.job].status = FinishedStatus(a, f)
        /\ \A i \in JobIds \ {runner.job} : scanJobs'[i] = scanJobs[i]
        /\ scanJobs'[runner.job].cancel = scanJobs[runner.job].cancel
        /\ discarded \subseteq discarded' /\ (~a /\ ~f => runner.job \in discarded')
        /\ UNCHANGED <<activeJob, intents, consumed, cancels, jobScan, scanOutcome, published>>
    BY DEF FinishJob, NotesDiscarded, RunnerOK, RunnerStates, ScanJobsTypeOK
  <1>A. /\ FinishedStatus(a, f) \in Ended \/ (FinishedStatus(a, f) = "running" /\ runner.job \in discarded')
        /\ FinishedStatus(a, f) \in {"succeeded", "partial"} => runner.job \in published
        /\ FinishedStatus(a, f) = "cancelled" => runner.job \notin published
    <2>1. /\ FinishedStatus(a, f) \in Ended \/ (FinishedStatus(a, f) = "running" /\ ~a /\ ~f)
          /\ FinishedStatus(a, f) = "cancelled" => runner.owner
          /\ FinishedStatus(a, f) \in {"succeeded", "partial"} => runner.result = "nil"
      BY DEF FinishedStatus, TerminalStatus, Ended
    <2> QED
      BY <1>0, <2>1 DEF ScanKnown, ActiveOK
  <1>1. QueuedIsClaimable' /\ RunningIsOwned' /\ SucceededIsPublished'
    BY <1>0, <1>A DEF QueuedIsClaimable, RunningIsOwned, SucceededIsPublished, Ended
  <1>2. RunnerOK' /\ OwnScan'
    BY <1>0 DEF RunnerOK, OwnScan, RunnerStates, ActiveJobs, Scans
  <1>3. ScanKnown'
    BY <1>0 DEF RunnerOK, OwnScan, ScanKnown, RunnerStates, Scans
  <1>4. ActiveOK'
    BY <1>0 DEF RunnerOK, ScanKnown, ActiveOK, RunnerStates, ActiveJobs
  <1>5. \A i \in JobIds : (Doomed(i) => Doomed(i)') /\ (Over(i) => Over(i)') /\ (~Unused(i) => ~Unused(i)')
    <2>1. \A i \in JobIds \ {runner.job} : Doomed(i) => i \in discarded \/ (i \notin published /\ Over(i))
      BY DEF Doomed
    <2>2. runner.job \in discarded' \/ Over(runner.job)'
      BY <1>0, <1>A DEF Over
    <2>3. Doomed(runner.job) => runner.job \in discarded \/ runner.job \notin published
      BY DEF Doomed
    <2>4. \A i \in JobIds \ {runner.job} : Over(i)' = Over(i) /\ Unused(i)' = Unused(i)
      BY <1>0 DEF Over, Unused
    <2>5. ~Over(runner.job) /\ ~Unused(runner.job)'
      BY <1>0, <1>A DEF Over, Unused, RunnerOK, Ended
    <2> QED
      BY <1>0, <2>1, <2>2, <2>3, <2>4, <2>5 DEF Doomed
  <1>6. RowsTrue'
    BY <1>0, <1>A, <1>5 DEF RowsTrue, Doomed, Ended
  <1>7. CancelsOK' /\ IntentsOwned'
    BY <1>0, <1>5, CancelsStay
  <1> QED
    BY <1>1, <1>2, <1>3, <1>4, <1>6, <1>7

\* The automatic retry is queued or dropped.
LEMMA RetryKeeps ==
  ASSUME ScanIInv, ScanJobsTypeOK', NEW a \in BOOLEAN, NEW d \in BOOLEAN, RetryAutomatically(a, d),
         InsertStep \/ UNCHANGED scanJobs
  PROVE  ScanOK'
  <1> USE ScanFacts DEF ScanIInv, ScanOK, Open, Resting, Executing, Scanning
  <1>0. /\ runner.at = "retrying" /\ runner'.at = "clearing" /\ runner'.job = runner.job
        /\ UNCHANGED <<activeJob, intents, consumed, cancels, jobScan, scanOutcome, published, discarded>>
    BY DEF RetryAutomatically, RunnerAt, RunnerStates, ActiveJobs, Scans
  <1>1. QueuedIsClaimable' /\ RunningIsOwned' /\ SucceededIsPublished'
    BY <1>0 DEF QueuedIsClaimable, RunningIsOwned, SucceededIsPublished, InsertStep
  <1>2. RunnerOK' /\ OwnScan'
    BY <1>0 DEF RunnerOK, OwnScan, RunnerStates, ActiveJobs, Scans
  <1>3. ScanKnown'
    BY <1>0 DEF RunnerOK, OwnScan, ScanKnown, RunnerStates, Scans
  <1>4. ActiveOK'
    BY <1>0 DEF RunnerOK, ScanKnown, ActiveOK, RunnerStates, ActiveJobs
  <1>5. \A i \in JobIds : (Doomed(i) => Doomed(i)') /\ (Over(i) => Over(i)') /\ (~Unused(i) => ~Unused(i)')
    BY <1>0 DEF Doomed, Over, Unused, Stopping, InsertStep, Ended
  <1>6. RowsTrue'
    BY <1>0, <1>5 DEF RowsTrue, InsertStep
  <1>7. CancelsOK' /\ IntentsOwned'
    BY <1>0, <1>5, CancelsStay
  <1> QED
    BY <1>1, <1>2, <1>3, <1>4, <1>6, <1>7

\* The runner has done with its job.
LEMMA ClearKeeps ==
  ASSUME ScanIInv, ScanJobsTypeOK', ClearActiveJob, PruneStep \/ UNCHANGED scanJobs
  PROVE  ScanOK'
  <1> USE ScanFacts DEF ScanIInv, ScanOK, Open, Resting, Executing, Scanning
  <1>0. /\ runner.at = "clearing" /\ runner'.at = "idle"
        /\ activeJob'.job = NoJob /\ ~activeJob'.owner
        /\ UNCHANGED <<intents, consumed, cancels, jobScan, scanOutcome, published, discarded>>
    BY DEF ClearActiveJob, NoActiveJob, IdleRunner, RunnerStates, ActiveJobs, Scans
  <1>1. QueuedIsClaimable' /\ RunningIsOwned' /\ SucceededIsPublished'
    BY <1>0 DEF QueuedIsClaimable, RunningIsOwned, SucceededIsPublished, PruneStep
  <1>2. RunnerOK' /\ OwnScan'
    BY <1>0 DEF RunnerOK, OwnScan, RunnerStates, ActiveJobs, Scans
  <1>3. ScanKnown'
    BY <1>0 DEF RunnerOK, OwnScan, ScanKnown, RunnerStates, Scans
  <1>4. ActiveOK'
    BY <1>0 DEF RunnerOK, ScanKnown, ActiveOK, RunnerStates, ActiveJobs
  <1>5. \A i \in JobIds : (Doomed(i) => Doomed(i)') /\ (Over(i) => Over(i)') /\ (~Unused(i) => ~Unused(i)')
    BY <1>0 DEF Doomed, Over, Unused, Stopping, PruneStep, Ended
  <1>6. RowsTrue'
    BY <1>0, <1>5 DEF RowsTrue, PruneStep, Ended
  <1>7. CancelsOK' /\ IntentsOwned'
    BY <1>0, <1>5, CancelsStay
  <1> QED
    BY <1>1, <1>2, <1>3, <1>4, <1>6, <1>7

\* The runner registers its job and consumes a pending intent.
LEMMA RegisterKeeps ==
  ASSUME ScanIInv, ScanJobsTypeOK', RegisterJob
  PROVE  ScanOK'
  <1> USE ScanFacts DEF ScanIInv, ScanOK, Open, Resting, Executing, Scanning
  <1>1. PICK j \in JobIds : j = runner.job
    BY DEF RegisterJob, RunnerOK
  <1>2. /\ runner.at = "claimed" /\ runner'.job = j /\ activeJob'.job = j /\ ~activeJob'.committed
        /\ runner'.at = (IF intents[j] = NoIntent THEN "registered" ELSE "starting")
        /\ activeJob'.owner = (intents[j] # NoIntent) /\ activeJob'.ended = (intents[j] # NoIntent)
        /\ consumed' = consumed \cup ({intents[j]} \ {NoIntent}) /\ intents'[j] = NoIntent
        /\ \A i \in JobIds \ {j} : intents'[i] = intents[i]
        /\ UNCHANGED <<scanJobs, cancels, jobScan, scanOutcome, published, discarded>>
    BY <1>1 DEF RegisterJob, RunnerAt, RunnerStates, ScanJobsTypeOK
  <1>3. j \notin published /\ scanJobs[j].status = "running"
    BY <1>1, <1>2 DEF ScanKnown, RunnerOK
  <1>4. QueuedIsClaimable' /\ RunningIsOwned' /\ SucceededIsPublished'
    BY <1>1, <1>2 DEF QueuedIsClaimable, RunningIsOwned, SucceededIsPublished
  <1>5. RunnerOK' /\ OwnScan' /\ ScanKnown'
    BY <1>2, <1>3 DEF RunnerOK, OwnScan, ScanKnown
  <1>6. ActiveOK'
    BY <1>2, <1>3 DEF ActiveOK
  <1>7. \A i \in JobIds : (Doomed(i) => Doomed(i)') /\ (Over(i) => Over(i)') /\ (~Unused(i) => ~Unused(i)')
    BY <1>1, <1>2 DEF Doomed, Over, Unused, Stopping
  <1>8. intents[j] # NoIntent => Doomed(j)'
    BY <1>2, <1>3 DEF Doomed, Stopping
  <1>9. RowsTrue'
    BY <1>2, <1>7 DEF RowsTrue
  <1>10. IntentsOwned'
    BY <1>2 DEF IntentsOwned
  <1>11. ASSUME NEW c \in ScanCancellers PROVE CancelOK(c)'
    <2>1. CancelOK(c)
      BY DEF CancelsOK
    <2>2. intents[j] # NoIntent => cancels[intents[j]].at \in Open /\ cancels[intents[j]].job = j
      BY DEF IntentsOwned
    <2> QED
      BY <1>2, <1>7, <1>8, <2>1, <2>2 DEF CancelOK
  <1> QED
    BY <1>4, <1>5, <1>6, <1>9, <1>10, <1>11 DEF CancelsOK

\* A scan commits only while its job is not cancelled.
LEMMA CommitKeeps ==
  ASSUME ScanIInv, ScanJobsTypeOK', CommitJobScan
  PROVE  ScanOK'
  <1> USE ScanFacts DEF ScanIInv, ScanOK, Open, Resting, Executing, Scanning
  <1>1. /\ jobScan.at = "walking" /\ jobScan'.at = "committed" /\ jobScan'.job = jobScan.job
        /\ published' = published \cup ({jobScan.job} \ {NoJob})
        /\ activeJob'.job = activeJob.job /\ activeJob'.owner = activeJob.owner /\ activeJob'.ended = activeJob.ended
        /\ activeJob.committed => activeJob'.committed
        /\ activeJob.job # NoJob => activeJob'.committed
        /\ UNCHANGED <<scanJobs, intents, consumed, cancels, runner, scanOutcome, discarded>>
    BY DEF CommitJobScan, Committable, Scans, ActiveJobs
  <1>2. jobScan.job # NoJob => /\ runner.at \in Scanning /\ runner.job = jobScan.job /\ activeJob.job = jobScan.job
                               /\ ~activeJob.owner /\ scanJobs[jobScan.job].status = "running"
    BY <1>1 DEF CommitJobScan, Committable, ScanContextDone, JobContextDone, OwnScan, RunnerOK, ActiveOK
  <1>3. jobScan.job # NoJob => ~Over(jobScan.job) /\ (Doomed(jobScan.job) => jobScan.job \in discarded)
    BY <1>2 DEF Doomed, Over, Stopping, Ended
  <1>4. QueuedIsClaimable' /\ RunningIsOwned' /\ SucceededIsPublished'
    BY <1>1 DEF QueuedIsClaimable, RunningIsOwned, SucceededIsPublished
  <1>5. RunnerOK' /\ OwnScan'
    BY <1>1 DEF RunnerOK, OwnScan
  <1>6. ScanKnown'
    BY <1>1, <1>2 DEF ScanKnown, OwnScan, RunnerOK
  <1>7. ActiveOK'
    BY <1>1, <1>2 DEF ActiveOK, RunnerOK
  <1>8. \A i \in JobIds : (Doomed(i) => Doomed(i)') /\ (Over(i) => Over(i)') /\ (~Unused(i) => ~Unused(i)')
    BY <1>1, <1>3 DEF Doomed, Over, Unused, Stopping
  <1>9. RowsTrue'
    BY <1>1, <1>2, <1>3, <1>8 DEF RowsTrue, Ended
  <1>10. CancelsOK' /\ IntentsOwned'
    BY <1>1, <1>8, CancelsStay
  <1> QED
    BY <1>4, <1>5, <1>6, <1>7, <1>9, <1>10

\* Recording the request of a job that was stopped changes nothing else.
LEMMA RecordKeeps ==
  ASSUME ScanIInv, ScanJobsTypeOK', NEW c \in ScanCancellers, NEW w \in BOOLEAN, CancelRecord(c, w)
  PROVE  ScanOK'
  <1> USE ScanFacts DEF ScanIInv, ScanOK, Open, Resting, Executing, Scanning
  <1>1. PICK j \in JobIds : j = cancels[c].job
    BY DEF CancelRecord, CancelsOK, CancelOK
  <1>2. /\ cancels[c].at = "stopped" /\ cancels'[c].at \in {"ok", "refused"} /\ cancels'[c].job = j
        /\ \A d \in ScanCancellers \ {c} : cancels'[d] = cancels[d]
        /\ scanJobs'[j].cancel \in {TRUE, scanJobs[j].cancel} /\ scanJobs'[j].status = scanJobs[j].status
        /\ \A i \in JobIds \ {j} : scanJobs'[i] = scanJobs[i]
        /\ UNCHANGED <<activeJob, intents, consumed, runner, jobScan, scanOutcome, published, discarded>>
    BY <1>1 DEF CancelRecord, ScanJobsTypeOK
  <1>3. Doomed(j) /\ (scanJobs[j].status = "queued" => j \in discarded)
    BY <1>1, <1>2 DEF CancelsOK, CancelOK, Doomed, Over, Stopping, RunnerOK, Ended
  <1>4. QueuedIsClaimable' /\ RunningIsOwned' /\ SucceededIsPublished'
    BY <1>2, <1>3 DEF QueuedIsClaimable, RunningIsOwned, SucceededIsPublished
  <1>5. RunnerOK' /\ OwnScan' /\ ScanKnown' /\ ActiveOK'
    BY <1>2 DEF RunnerOK, OwnScan, ScanKnown, ActiveOK
  <1>6. \A i \in JobIds : (Doomed(i) => Doomed(i)') /\ (Over(i) => Over(i)') /\ (~Unused(i) => ~Unused(i)')
    BY <1>2 DEF Doomed, Over, Unused, Stopping, RunnerOK
  <1>7. RowsTrue'
    BY <1>2, <1>3, <1>6 DEF RowsTrue
  <1>8. IntentsOwned'
    BY <1>2 DEF IntentsOwned
  <1>9. ASSUME NEW d \in ScanCancellers PROVE CancelOK(d)'
    <2>1. CancelOK(d)
      BY DEF CancelsOK
    <2>2. CASE d = c
      BY <1>1, <1>2, <1>3, <1>6, <2>1, <2>2 DEF CancelOK
    <2>3. CASE d # c
      BY <1>1, <1>2, <1>6, <2>1, <2>3 DEF CancelOK
    <2> QED
      BY <2>2, <2>3
  <1> QED
    BY <1>4, <1>5, <1>7, <1>8, <1>9 DEF CancelsOK

\* A queued job ends cancelled and a running one is asked to, while the intent
\* still stops it.
LEMMA UpdateKeeps ==
  ASSUME ScanIInv, ScanJobsTypeOK', NEW c \in ScanCancellers, NEW w \in BOOLEAN, CancelUpdate(c, w)
  PROVE  ScanOK'
  <1> USE ScanFacts DEF ScanIInv, ScanOK, Open, Resting, Executing, Scanning
  <1>1. PICK j \in JobIds : j = cancels[c].job
    BY DEF CancelUpdate, CancelsOK, CancelOK
  <1> DEFINE hit == w /\ scanJobs[j].status \in {"queued", "running"}
  <1>2. /\ cancels[c].at = "marked" /\ cancels'[c].at = (IF hit THEN "updated" ELSE IF w THEN "missed" ELSE "failed")
        /\ cancels'[c].job = j /\ cancels'[c].intent = cancels[c].intent
        /\ \A d \in ScanCancellers \ {c} : cancels'[d] = cancels[d]
        /\ UNCHANGED <<activeJob, intents, consumed, runner, jobScan, scanOutcome, published, discarded>>
    BY <1>1 DEF CancelUpdate, ScanJobsTypeOK
  <1>3. /\ hit => /\ scanJobs'[j].cancel = TRUE
                  /\ scanJobs'[j].status = IF scanJobs[j].status = "queued" THEN "cancelled" ELSE "running"
        /\ ~hit => scanJobs'[j] = scanJobs[j]
        /\ \A i \in JobIds \ {j} : scanJobs'[i] = scanJobs[i]
    <2>1. CASE hit
      <3>1. scanJobs' = [scanJobs EXCEPT ![j] = [scanJobs[j] EXCEPT !.cancel = TRUE,
                           !.status = IF scanJobs[j].status = "queued" THEN "cancelled" ELSE "running"]]
        BY <1>1, <2>1 DEF CancelUpdate
      <3> QED
        BY <2>1, <3>1 DEF ScanJobsTypeOK
    <2>2. CASE ~hit
      BY <1>1, <2>2 DEF CancelUpdate
    <2> QED
      BY <2>1, <2>2
  <1> HIDE DEF hit
  <1>4. hit => scanJobs[j].status \in {"queued", "running"}
    BY DEF hit
  <1>5. QueuedIsClaimable' /\ RunningIsOwned' /\ SucceededIsPublished'
    BY <1>2, <1>3, <1>4 DEF QueuedIsClaimable, RunningIsOwned, SucceededIsPublished
  <1>6. RunnerOK' /\ OwnScan' /\ ScanKnown' /\ ActiveOK'
    BY <1>2, <1>3, <1>4 DEF RunnerOK, OwnScan, ScanKnown, ActiveOK
  <1>7. \A i \in JobIds : (Doomed(i) => Doomed(i)') /\ (Over(i) => Over(i)') /\ (~Unused(i) => ~Unused(i)')
    BY <1>2, <1>3, <1>4 DEF Doomed, Over, Unused, Stopping, RunnerOK, Ended
  <1>8. hit => Doomed(j)'
    <2>1. CASE scanJobs[j].status = "queued"
      BY <1>2, <1>3, <2>1 DEF hit, Doomed, Over, Ended, RowsTrue
    <2>2. CASE scanJobs[j].status = "running"
      <3>0. SUFFICES ASSUME j \notin discarded PROVE hit => Doomed(j)'
        BY <1>7 DEF Doomed
      <3>1. runner.job = j /\ runner.at \in Executing
        BY <2>2, <3>0 DEF RunningIsOwned, RunnerStates
      <3>2. intents[j] = cancels[c].intent \/ Doomed(j)
        BY <1>1, <1>2, <2>2 DEF CancelsOK, CancelOK, Over, Ended
      <3>3. intents[j] = cancels[c].intent => runner.at = "claimed"
        BY <1>2, <3>1 DEF CancelsOK, CancelOK, ActiveOK, RunnerOK
      <3>4. hit /\ runner.at = "claimed" => Doomed(j)'
        BY <1>2, <1>3, <2>2, <3>1 DEF Doomed, Stopping, ScanKnown
      <3> QED
        BY <1>7, <3>2, <3>3, <3>4
    <2> QED
      BY <1>4, <2>1, <2>2
  <1>9. ~hit /\ w => Over(j)'
    BY <1>1, <1>2, <1>3 DEF hit, Over, Unused, CancelsOK, CancelOK
  <1>10. RowsTrue'
    BY <1>2, <1>3, <1>4, <1>7, <1>8 DEF RowsTrue
  <1>11. IntentsOwned'
    BY <1>1, <1>2 DEF IntentsOwned
  <1>12. ASSUME NEW d \in ScanCancellers PROVE CancelOK(d)'
    <2>1. CancelOK(d)
      BY DEF CancelsOK
    <2>2. CASE d = c
      BY <1>1, <1>2, <1>7, <1>8, <1>9, <2>1, <2>2 DEF CancelOK
    <2>3. CASE d # c
      BY <1>1, <1>2, <1>7, <2>1, <2>3 DEF CancelOK
    <2> QED
      BY <2>2, <2>3
  <1> QED
    BY <1>5, <1>6, <1>10, <1>11, <1>12 DEF CancelsOK

\* The answer of a cancel request: "ok" only when its job is stopped for good.
LEMMA SettleCancelKeeps ==
  ASSUME ScanIInv, ScanJobsTypeOK', NEW c \in ScanCancellers, CancelSettle(c), PruneStep
  PROVE  ScanOK'
  <1> USE ScanFacts DEF ScanIInv, ScanOK, Open, Resting, Executing, Scanning
  <1>1. PICK j \in JobIds : j = cancels[c].job
    BY DEF CancelSettle, CancelsOK, CancelOK
  <1>2. /\ cancels[c].at \in {"updated", "missed", "failed"} /\ cancels'[c].job = j
        /\ cancels'[c].at = (IF \/ cancels[c].at = "updated"
                                \/ cancels[c].at = "missed" /\ cancels[c].intent \in consumed
                             THEN "ok" ELSE "refused")
        /\ \A d \in ScanCancellers \ {c} : cancels'[d] = cancels[d]
        /\ \A i \in JobIds \ {j} : intents'[i] = intents[i]
        /\ intents'[j] = IF intents[j] = cancels[c].intent THEN NoIntent ELSE intents[j]
        /\ discarded' = (IF IntentLost(c) THEN discarded \cup {j} ELSE discarded)
        /\ UNCHANGED <<activeJob, consumed, runner, jobScan, scanOutcome, published>>
    BY <1>1 DEF CancelSettle, IntentsAfter, ScanJobsTypeOK
  <1>3. QueuedIsClaimable' /\ RunningIsOwned' /\ SucceededIsPublished'
    BY <1>2 DEF QueuedIsClaimable, RunningIsOwned, SucceededIsPublished, PruneStep
  <1>4. RunnerOK' /\ OwnScan' /\ ScanKnown' /\ ActiveOK'
    BY <1>2 DEF RunnerOK, OwnScan, ScanKnown, ActiveOK, PruneStep, Ended
  <1>5. \A i \in JobIds : (Doomed(i) => Doomed(i)') /\ (Over(i) => Over(i)') /\ (~Unused(i) => ~Unused(i)')
    BY <1>2 DEF Doomed, Over, Unused, Stopping, RunnerOK, PruneStep, Ended
  <1>6. RowsTrue'
    BY <1>2, <1>5 DEF RowsTrue, PruneStep
  <1>7. Doomed(j) \/ Over(j) \/ cancels[c].at = "failed"
    BY <1>1, <1>2 DEF CancelsOK, CancelOK
  <1>8. cancels'[c].at = "ok" => Doomed(j)
    BY <1>1, <1>2 DEF CancelsOK, CancelOK
  <1>9. IntentsOwned'
    <2> SUFFICES ASSUME NEW i \in JobIds, intents'[i] # NoIntent
                 PROVE  /\ cancels'[intents'[i]].job = i /\ cancels'[intents'[i]].intent = intents'[i]
                        /\ cancels'[intents'[i]].at \in Open
      BY DEF IntentsOwned
    <2>1. intents'[i] = intents[i] /\ intents[i] # NoIntent
      BY <1>2
    <2>2. intents[i] # c
      BY <1>1, <1>2, <2>1 DEF IntentsOwned
    <2> QED
      BY <1>2, <2>1, <2>2 DEF IntentsOwned
  <1>10. ASSUME NEW d \in ScanCancellers PROVE CancelOK(d)'
    <2>1. CancelOK(d)
      BY DEF CancelsOK
    <2>2. CASE d = c
      BY <1>1, <1>2, <1>5, <1>8, <2>1, <2>2 DEF CancelOK
    <2>3. CASE d # c
      <3>1. ASSUME cancels[d].at = "marked", intents[cancels[d].job] = cancels[d].intent
            PROVE  \/ intents'[cancels[d].job] = cancels[d].intent
                   \/ Doomed(cancels[d].job)' \/ Over(cancels[d].job)'
        <4>1. CASE cancels[d].job # j \/ cancels[d].intent # cancels[c].intent
          BY <1>2, <2>1, <3>1, <4>1 DEF CancelOK
        <4>2. CASE cancels[d].job = j /\ cancels[d].intent = cancels[c].intent /\ cancels[c].at = "failed"
          BY <1>1, <1>2, <2>3, <3>1, <4>2 DEF IntentLost, Doomed
        <4>3. CASE cancels[d].job = j /\ cancels[c].at # "failed"
          BY <1>1, <1>2, <1>5, <1>7, <2>3, <4>3
        <4> QED
          BY <4>1, <4>2, <4>3
      <3> QED
        BY <1>1, <1>2, <1>5, <2>1, <2>3, <3>1 DEF CancelOK
    <2> QED
      BY <2>2, <2>3
  <1> QED
    BY <1>3, <1>4, <1>6, <1>9, <1>10 DEF CancelsOK

\* A restart ends what ran and forgets the open requests.
LEMMA RestartKeeps ==
  ASSUME ScanIInv, ScanJobsTypeOK', RestartServer
  PROVE  ScanOK'
  <1> USE ScanFacts DEF ScanIInv, ScanOK, Open, Resting, Executing, Scanning
  <1>1. /\ runner'.at = "idle" /\ activeJob'.job = NoJob /\ ~activeJob'.owner /\ jobScan'.job = NoJob
        /\ consumed' = {} /\ published' = published /\ discarded' = discarded /\ \A j \in JobIds : intents'[j] = NoIntent
        /\ \A c \in ScanCancellers : \/ cancels'[c] = cancels[c] /\ cancels[c].at \in {"ok", "refused"}
                                     \/ cancels'[c].at = "idle"
    BY DEF RestartServer, IdleRunner, NoActiveJob, NoJobScan, NoCancel
  <1>2. \A j \in JobIds : IF scanJobs[j].status = "running" THEN scanJobs'[j].status = "interrupted"
                          ELSE scanJobs'[j] = scanJobs[j]
    BY DEF RestartServer, Interrupted, ScanJobsTypeOK
  <1>3. QueuedIsClaimable' /\ RunningIsOwned' /\ SucceededIsPublished'
    BY <1>1, <1>2 DEF QueuedIsClaimable, RunningIsOwned, SucceededIsPublished
  <1>4. RunnerOK' /\ OwnScan' /\ ScanKnown' /\ ActiveOK'
    BY <1>1 DEF RunnerOK, OwnScan, ScanKnown, ActiveOK
  <1>5. \A i \in JobIds : (Doomed(i) => Doomed(i)') /\ (~Unused(i) => ~Unused(i)')
    BY <1>1, <1>2 DEF Doomed, Over, Unused, Stopping, RunnerOK, Ended
  <1>6. RowsTrue' /\ IntentsOwned'
    BY <1>1, <1>2 DEF RowsTrue, IntentsOwned
  <1>7. ASSUME NEW c \in ScanCancellers PROVE CancelOK(c)'
    BY <1>1, <1>5 DEF CancelsOK, CancelOK
  <1> QED
    BY <1>3, <1>4, <1>6, <1>7 DEF CancelsOK

-----------------------------------------------------------------------------
(* The theorems.                                                           *)

\* Every step keeps the invariant.
LEMMA ScanStepKeeps == ScanIInv /\ [ScanJobsNext]_scanJobVars => ScanIInv'
  <1> SUFFICES ASSUME ScanIInv, [ScanJobsNext]_scanJobVars PROVE ScanIInv'
    OBVIOUS
  <1>T. ScanJobsTypeOK' /\ ScanJobsTypeOK
    BY ScanTypeStep DEF ScanIInv, ScanOK
  <1> SUFFICES ScanOK'
    BY <1>T DEF ScanIInv
  <1>1. CASE UNCHANGED scanJobVars
    BY <1>1 DEF scanJobVars, ScanIInv, ScanOK, QueuedIsClaimable, RunningIsOwned, SucceededIsPublished,
         RunnerOK, OwnScan, ScanKnown, ActiveOK, RowsTrue, CancelsOK, CancelOK, IntentsOwned, Doomed, Over, Unused,
         Stopping
  <1>2. ASSUME NEW l \in ScanLibraries, QueueLibraryScan(l) PROVE ScanOK'
    <2>1. 1 \in 1 .. MaxScanAttempts
      BY ScanJobsAssumption
    <2>2. InsertStep
      BY <1>2, <1>T, <2>1, InsertEffect DEF QueueLibraryScan, Insertable
    <2> QED
      BY <1>2, <1>T, <2>2, InsertKeeps DEF QueueLibraryScan
  <1>3. ASSUME NEW j \in JobIds, RetryScanJob(j) PROVE ScanOK'
    <2>1. scanJobs[j].library \in ScanLibraries /\ scanJobs[j].attempt + 1 \in 1 .. MaxScanAttempts
      BY <1>3, <1>T, RowFacts, ScanJobsAssumption DEF RetryScanJob, Retryable
    <2>2. InsertStep
      BY <1>3, <1>T, <2>1, InsertEffect DEF RetryScanJob, Insertable
    <2> QED
      BY <1>3, <1>T, <2>2, InsertKeeps DEF RetryScanJob
  <1>4. ASSUME NEW a \in BOOLEAN, NEW d \in BOOLEAN, RetryAutomatically(a, d) PROVE ScanOK'
    <2>1. PICK j \in JobIds : j = runner.job
      BY <1>4 DEF RetryAutomatically, ScanIInv, ScanOK, RunnerOK, Resting
    <2>2. CASE a /\ Retryable(j) /\ Insertable(scanJobs[j].library)
      <3>1. scanJobs[j].library \in ScanLibraries /\ scanJobs[j].attempt + 1 \in 1 .. MaxScanAttempts
        BY <2>2, <1>T, RowFacts, ScanJobsAssumption DEF Retryable
      <3>2. InsertStep
        BY <1>4, <1>T, <2>1, <2>2, <3>1, InsertEffect DEF RetryAutomatically, Insertable
      <3> QED
        BY <1>4, <1>T, <3>2, RetryKeeps
    <2> QED
      BY <1>4, <1>T, <2>1, <2>2, RetryKeeps DEF RetryAutomatically
  <1>5. CASE ClearActiveJob
    <2>1. PruneStep \/ UNCHANGED scanJobs
      BY <1>5, <1>T, PruneEffect DEF ClearActiveJob
    <2> QED
      BY <1>5, <1>T, <2>1, ClearKeeps
  <1>6. ASSUME NEW c \in ScanCancellers, CancelSettle(c) PROVE ScanOK'
    <2>1. PruneStep
      BY <1>6, <1>T, PruneEffect DEF CancelSettle, PruneStep
    <2> QED
      BY <1>6, <1>T, <2>1, SettleCancelKeeps
  <1>7. CASE ClaimScanJob
    BY <1>7, <1>T, ClaimKeeps DEF ClaimScanJob
  <1>8. CASE RunnerStep
    BY <1>4, <1>5, <1>7, <1>8, <1>T, RegisterKeeps, CheckKeeps, StartKeeps, ReadDoneKeeps, DoneKeeps,
       RereadKeeps, InterruptedKeeps, DrainedKeeps, SettleKeeps, RequeueKeeps, FinishKeeps, ExitsKeep DEF RunnerStep
  <1>9. CASE ScanStep
    BY <1>9, <1>T, CommitKeeps, FailKeeps, EndKeeps, StopScanKeeps, ReportKeeps DEF ScanStep
  <1>10. ASSUME NEW c \in ScanCancellers, CancelStep(c) PROVE ScanOK'
    BY <1>6, <1>10, <1>T, RecordKeeps, UpdateKeeps DEF CancelStep
  <1> QED
    BY <1>1, <1>2, <1>3, <1>8, <1>9, <1>10, <1>T, MarkKeeps, DelayKeeps, StopRunnerKeeps, RestartKeeps
    DEF ScanJobsNext

\* The invariant holds in every reachable state.
LEMMA ScanInductive == ScanJobsSpec => []ScanIInv
  <1>1. ScanJobsInit => ScanIInv
    <2> SUFFICES ASSUME ScanJobsInit PROVE ScanIInv
      OBVIOUS
    <2>1. ScanTyped
      <3>1. NoScanJob \in JobTable
        BY RowTypes
      <3>2. NoActiveJob \in ActiveJobs /\ IdleRunner \in RunnerStates /\ NoCancel \in CancelCalls
        BY DEF NoActiveJob, ActiveJobs, IdleRunner, RunnerStates, NoCancel, CancelCalls
      <3>3. NoJobScan \in Scans /\ [NoJobScan EXCEPT !.at = "walking"] \in Scans
        BY DEF NoJobScan, Scans
      <3>4. 0 \in 0 .. MaxScanRestarts
        BY ScanJobsAssumption
      <3> QED
        BY <3>1, <3>2, <3>3, <3>4 DEF ScanTyped, ScanJobsInit, Outcomes
    <2>2. ScanJobsTypeOK
      BY <2>1, ScanTyping
    <2>3. /\ \A j \in JobIds : scanJobs[j].status = "absent" /\ intents[j] = NoIntent
          /\ \A c \in ScanCancellers : cancels[c].at = "idle"
          /\ runner.at = "idle" /\ activeJob.job = NoJob /\ ~activeJob.owner /\ jobScan.job = NoJob
          /\ published = {} /\ consumed = {} /\ discarded = {}
      BY DEF ScanJobsInit, NoScanJob, NoCancel, IdleRunner, NoActiveJob, NoJobScan
    <2> QED
      BY <2>2, <2>3 DEF ScanIInv, ScanOK, QueuedIsClaimable, RunningIsOwned, SucceededIsPublished,
         RunnerOK, OwnScan, ScanKnown, ActiveOK, RowsTrue, CancelsOK, CancelOK, IntentsOwned,
         Resting, Executing, Scanning, Open
  <1> QED
    BY <1>1, ScanStepKeeps, PTL DEF ScanJobsSpec

\* No job holds its library's place without somebody to end it, for any number
\* of libraries, jobs, attempts, cancel requests and restarts.
THEOREM ScanJobsCorrect == ScanJobsSpec => []ScanJobsInv
  <1>1. ScanIInv => ScanJobsInv
    BY ScanFacts DEF ScanIInv, ScanOK, ScanJobsInv, IntentsAreTransient, IntentsOwned, Open
  <1> QED
    BY <1>1, ScanInductive, PTL

\* The recorded outcome of a job and the answers to its cancel requests are what
\* happened to the catalog.
THEOREM OutcomesAreTrue == ScanJobsSpec => []OutcomesTrue
  <1>1. ScanIInv => OutcomesTrue
    BY ScanFacts DEF ScanIInv, ScanOK, OutcomesTrue, CancelledPublishesNothing, RowsTrue,
       CancelsOK, CancelOK, Doomed
  <1> QED
    BY <1>1, ScanInductive, PTL
=============================================================================
