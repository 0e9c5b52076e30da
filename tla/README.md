# A TLA+ model of the Flixr backend

Flixr is a self-hosted media server: one Go process (`backend/`) with a SQLite
database, a React frontend, FFmpeg as a child process per stream, and a
`restore-backup` command that runs while the server is stopped.  This directory holds
specifications of the parts of it whose correctness depends on interleavings, failures
and crashes, the TLC configurations that check them, and TLAPS proofs.

Modelled are the parts in which several actors meet: playback sessions and their FFmpeg
processes, viewing progress, sign-in, screens, scan jobs, the library scan with its
reviews, version groups, artwork files, backup jobs and the restore command.  Section 1
is the inventory of the whole system, section 7 says what is left out and why.

Paths such as `playback/manager.go:428` are relative to `src/backend/`.

## 1. Inventory of the system

| Component (source) | State it keeps | Operations | What is hard |
|---|---|---|---|
| Playback manager (`playback/manager.go`) | `sessions`, `generations` with `leases`, `inputs`, `pendingViewers`, `revokedViewers`, `starting`, `pendingJobs`, `replacements`, `preparingHandoffs`, `preparingReplacements`, `handoffs`, `sessionHandoffs`, `resolvedHandoffs`, `subtitleJobs`, `closed` - all under one mutex | create, Seek, Replace, PrepareHandoff, ResolveHandoff, lookup, Heartbeat, InputFile, subtitle contexts, Stop, StopViewer, StopCatalogIDs, StopOwnerSession, StopSupersededPlans, Sweep, Shutdown | every operation releases the mutex for seconds (directory, FFmpeg start, manifest) and takes it again; the janitor decides in two phases; shutdown overtakes both |
| Progress (`household/progress.go`, `history.go`) | per profile and title: generation, observation, position, completion | BeginPlayback, RecordPlaybackProgress, CanRecordPlaybackProgress, RecordProgress, SetWatched, clear and undo history | out-of-order heartbeats; a newer plan must fence the older one |
| Playback handlers (`web/playback_handlers.go`) | none of their own | plan = create, then compare-and-swap of the progress generation, then stop what it supersedes | three calls with other requests between them |
| Screens (`screens/screens.go`) | tickets, presence, control sessions, one bounded command channel per screen | issue ticket, connect, disconnect, control, prune, Shutdown | close-once of a channel, sends racing a close, dropped commands |
| Scan scheduler (`catalog/scan_scheduler.go`) | job rows, active job, cancel intents | queue, claim, execute, cancel, retry, interrupt on restart | a cancel may meet a job at any point of its life; retry limit; restart |
| Catalog scan and scan safety (`catalog/catalog.go`, `scan_safety.go`, `libraries.go`, `source.go`) | locations, physical files, titles, pending reviews, source proofs | scan, persist, review suspicious removals, move a location, pin a playback to its bytes | roots that go offline, files that fail, duplicates, location changes during a scan |
| Media versions (`catalog/media_versions.go`, `web/media_versions.go`) | groups, edition labels, remembered choices | group, ungroup, choose a version, follow-on requests | an edit commits before it stops the sessions it affects |
| Artwork (`catalog/artwork.go`, `local_artwork_staging.go`) | content-addressed objects, derivatives, rows that refer to them | stage, commit, maintenance | files and rows change in different steps |
| Identity merge (`catalog/identity*.go`) | identities, redirects | reconcile, merge | references rewritten in one transaction |
| Household authentication (`household/household.go`) | owner, profiles, sessions, login failures | Claim, Login, Select (PIN), logout, revoke | password hashing outside the lock |
| Backup manager (`backup/manager.go`) | job rows, the running job's cancel function, policy | Queue, claim, run, Cancel, Shutdown, restart | cancel racing the claim; interrupted jobs |
| Restore (`backup/restore.go`, `restore_command.go`) | the journal, stage and prior entries, all on disk | restore, RecoverInterruptedRestore | a kill or an I/O error between any two renames |
| Retention, schedules (`backup/retention.go`, `schedule/next.go`) | none | which archives to delete; next run of a schedule | boundaries, catch-up after missed runs |
| Access policy, queries, episode order, TMDB, captions, preview, diagnostics, configuration, SQLite migrations, startup | database rows | reads and data transformations | I/O and formats, not protocols |
| Frontend (`src/frontend/src`) | view state, the player | presentation; the player issues plan, seek, heartbeat, handoff | the client of the protocols above |

Interactions.  HTTP handlers call the playback manager with the viewer id of the
authenticated browser session; the household manager's revocation (logout, profile
removal, PIN change) calls `StopViewer`; the catalog calls `StopCatalogIDs` when a scan
removes titles; FFmpeg reads its source through the server with an input token
(`InputFile`); `main.run` starts the janitor and, on a signal, shuts the HTTP servers,
the schedulers and the manager down under one deadline.  The data-directory lock
excludes the server and `restore-backup` from each other.

`PROJECT.json` lists every component with its status, and 40 hazards: places where the
code is hard to test, with the property that covers each or the reason why none does.

## 2. Modules

| Module | What it is |
|---|---|
| `PlaybackManager` | state machine of `playback/manager.go` with the parts of the plan, seek, quality and heartbeat handlers and of `household/progress.go` that decide its control flow |
| `PlaybackProperties`, `PlaybackProofs` | what makes it correct; TLAPS proofs about it |
| `ProgressRegister` | abstract specification: a title's position is a register with one writer at a time |
| `ViewingProgress`, `ViewingProofs` | `household/progress.go`, completion events, merge and unmerge of identities; implements `ProgressRegister`; TLAPS proofs, the refinement among them |
| `Household`, `HouseholdProofs` | owner, profiles and sessions of `household/household.go`; TLAPS proofs |
| `Screens`, `ScreensProofs` | `screens/screens.go` and the two WebSocket handlers; TLAPS proofs |
| `ScanJobs`, `ScanJobsProofs` | `catalog/scan_scheduler.go` and the single active scan of `catalog/catalog.go`; TLAPS proofs |
| `CatalogScan` | walk, inspection, identity, commit, reviews, locations and source proofs |
| `MediaVersions` | version groups and the plan handler's choice of a version |
| `Artwork` | the poster of a film: object files, the rows that name them, and their writers |
| `CatalogProofs` | TLAPS proofs about `CatalogScan`, `MediaVersions` and `Artwork` |
| `BackupJobs`, `BackupProofs` | `backup/manager.go`, the file steps of `archive.go`, `retention.go`; TLAPS proofs |
| `RestoreJournal`, `RestoreProofs` | `backup/restore.go`, its properties and inductive invariant; TLAPS proofs |
| `MCPlayback`, `MCRestore` | TLC instances of the playback manager (symmetry) and of restore |
| `MCViewing`, `MCServices`, `MCServer` | TLC instances of several modules at once (section 3) |

Definitions whose comment begins "Mutant of X" are deliberately wrong variants of X.
No specification uses them; they show that the properties notice such an error.

### PlaybackManager

One action is one critical section of `Manager.mu` together with the unlocked work up
to the next one.  A client operation is a *request* `r` with a program counter `pc[r]`;
because the code draws a fresh random token for each session, generation, input and
handoff id, `r` also names the session, the generation and the handoff that the
operation creates.

| Variables | Code |
|---|---|
| `sessions`, `expires`, `genOf` | `m.sessions`, `Session.ExpiresAt`, `Session.GenerationID` |
| `generations`, `leases`, `ready` | `m.generations`, `generation.leases`, `generation.ready` |
| `process`, `dirs`, `retiring` | the FFmpeg process, the segment directory, the goroutines in `retire` |
| `inputs`, `inputExp` | `m.inputs` |
| `revokedViewers`, `pendingViewers`, `starting`, `pendingJobs`, `replacements` | the maps and counters of the same name |
| `preparing*`, `ownerStopped` | `m.preparingHandoffs`, `m.preparingReplacements` and the record's `ownerStoppedID` |
| `handoffs`, `handoffExp`, `handoffGen`, `sessionHandoffs`, `resolvedHandoffs`, `resolvedExp`, `attached` | the handoff maps and their fields |
| `stopQueue` | ids that StopSupersededPlans or StopViewer have listed under the lock and stop one by one after it |
| `progressGen` | the progress generation of a profile and title |
| `closed`, `shutdown`, `shutGens`, `sweep`, `snapshot` | `m.closed`, control points of Shutdown and Sweep, what they detached or measured |
| `doomed` | history variable: creates in flight when their viewer was revoked |

`create` is `Enter`, then one of `CreateDirect`, `ShareGeneration`, `Reserve` or
`CreateRefused`; after a reservation `InstallInputs`, `StartProcess`, `Admit`,
`ManifestWritten`, `ConfirmAdmission`, each with its failure, and the clean-up actions
`Abort`, `Discard`, `Abandon`, `Reject`, `Unlink`; `FinishViewerCreate` is its deferred
function.  Around it are the operations: `Plan` / `BeginPlayback` /
`StopSupersededPlans`, `Seek` / `SeekSwapped`, `Replace` / `ReplaceSwapped`,
`PrepareHandoff` / `HandoffActivated` / `ResolveHandoff`, with `Cleanup` for their
deferred functions.  `SweepExpire` and `SweepReclaim` are the two critical sections of
`Sweep`; `Shutdown*` those of `Shutdown`.

Abstractions.  A stream plan is its job key (`Plans`) or `Direct`; media content,
positions and the retained HLS range are dropped (a generation is `ready` or not, and
a seek inside the retained range is `SeekRetained`); the byte budget of admission is
folded into `MaxGenerations`, the byte bound of a running generation is the
nondeterministic set `bad` of `SweepReclaim`; time is a bounded clock.  `Ops` is the set of operations the
environment may issue ("direct": a plan may need no generation); a run that leaves
one out explores the others more deeply.

### RestoreJournal

Every rename, removal and journal write of `restore`, `publishStagedInstallation` and
`RecoverInterruptedRestore` is an action.  `Crash` kills the command between any two of
them, `IOErrors` lets renames, journal writes and directory syncs fail (a journal
write may fail before or after its rename), `StartServer` creates a database where
none is, as `sqlite.OpenContext` does.  `live`, `prior` and `staged` map each of the
three managed entries to the *image* it holds; `base` and `target` are history
variables with the installation the journalled run began from and the one it
publishes.  Archive extraction, migration and the safety backup are one step that
fills the stage or fails.  Assumed: `os.RemoveAll`, whose errors the code discards,
succeeds; a rename is atomic; a server that was started does no more to the managed
entries than its start does; the safety backup (a separate directory) is not part of
the state.

### ViewingProgress and ProgressRegister

`row` is the `progress` table (generation, observation, completion, position), `player`
the playbacks from the plan handler's check to `BeginPlayback`, `seeking` a seek that
holds the per-title progress lock between its check and its commit, `merge` the
identity-merge record with its snapshots, `events` the viewing history.  A report names
its playback and its place in that playback's order, so a late, repeated or reordered
heartbeat is simply one whose number is not the next.  `NumberedPlayers` are clients
that number their reports; the others send observation 0, which the SQL counts itself.
`MergeIdentity` and `UnmergeIdentity` copy, fence and restore progress as
`identity_merge.go` does.  `latest` and `original` are history variables.

`ProgressRegister` promises that one playback at a time holds a title, that only it
moves the position and in its own order, and that a playback which lost the title never
writes again.  The mapping takes the holder from the generation the row has;
`ProgressRefines` is the abstract specification under that mapping.

### Household

A request reads a credential under the mutex, derives its hash without it (`HashSlots`)
and settles under the mutex again.  Tables (`ownerRow`, `profileRow`) and memory
(`ownerMem`, `profileMem`) are separate variables, so a claim or a new profile between
its INSERT and its assignment is visible; `StopHouse` and `Open` are a restart,
`RecoverOwner` the recovery command.  A claim is `BeginClaim`, `SaveOwner` (the INSERT),
`AssignOwner` (the memory) and `FinishClaim` (its session), each overtaken by whatever
comes.  A profile's attempts and lock are in its row; the owner's (`ownerGuard`) are in
memory only, so `StopHouse` clears them.  A session remembers the credential that opened
it.  `LockEnds` is the minute passing.

### Screens

One action per critical section of `Manager.mu` and per blocking point of the handlers.
`presence` keeps a screen's record also after it has left the map, because a handler may
still hold it; `panicked` becomes true when a closed channel is closed or sent to.
`DeliverCommand` is the write to the receiver's socket, `ReadMessage` a controller's
command, `ControlReadFails` a read that returns because its context is done.

### ScanJobs

`scanJobs` is the table, `runner` the control point of `runScanScheduler` and
`executeScanJob`, `activeJob` and `intents` the fields of the catalog that carry a cancel
to the job, `jobScan` the running scan.  A cancel request is four steps (mark, record,
update, settle), each of which a claim, a commit or a requeue may overtake.  What a scan
finds is its outcome only.  A database statement whose failure the code treats, or drops,
is an action that may fail: the claim's re-read (`RereadFails`), the read of a cancel
request, the requeue, the record of an outcome, the retry and the cancel's own writes.
`discarded` is the history of the jobs that a dropped error cost their runner, their
record or their cancellation intent; the properties except those, and section 5 says
what becomes of them.

### CatalogScan

A file is a location and a path, with a content (its digest) and a token (its change
token; every write draws a new one, and size and time never tell contents apart).  A
scan is `StartScan`, one `WalkRoot` per requested location, `Inspect`, then `CommitScan`
and `FinishScan` (or `FailScan`, `StopScan`); `Carried` is what persist keeps of
locations it did not read.  The owner's side is `LoadReview` and `ConfirmRemovals` on the
page last loaded, and `AddLibraryLocation`, `Preview-`, `Cancel-` and
`ConfirmLocationChange`; an added location draws a new random id, so `AddLibraryLocation`
takes one that no file and no page still names.  Playback is `ReadProof` / `SaveProof` (refreshSourceProof with
its unlocked read), `Admit` and `OpenSource`.  The disk changes and roots go offline at
any time.

### MediaVersions

`canonicalOf` is the membership table, `planning` the plan or follow-on request of a
profile between its steps (begun, chosen, started, registered), `stopping` the edits
whose sessions are still to be stopped.  An edit that commits and then cannot read its
group back (`AfterCommit`) is answered with an error and stops nothing; `unstopped` is
the history of the sessions that were live then.  What a device can play is chosen per request
from `Devices`; access policy and media properties are constants.  `BestOf` is the loop
of `choosePlaybackVersion`, a recursive function over the ids up to `LastAnchor` that
keeps the better of the version so far and the next one; `AutoIsBest` compares its
result with every candidate.

### Artwork

`rows` is what the tables say of one film's poster: the shown object, the local sidecar's
with its fallback, the artwork saved for an identity, the retry row, the NFO's identity,
provider and owner decisions, and the poster field.  Every writer (import of a scan,
provider cache, match, unmatch, edit, refresh) writes object files, commits one
transaction and removes what became obsolete, or what it wrote when the commit fails;
`CrashArtwork` comes in between and `CleanupArtworkObjects` collects any batch of
orphans.  `disowned` is the history of two behaviours described in section 5, which
`ReferencesKept` and `LocalVisible` except.

### BackupJobs

`worker` is the control point of loop, runOnce and Create; `armed` is `m.cancel`,
`stopped` the cancelled contexts.  `partials` and `archives` are the files of each
destination, of size 1 or 2; `RotateArchives` applies count, age and budget as
`retention.go` does and may fail half-way.  The claim and the record of the outcome may
fail to be written; `unrecorded` is the history of the jobs that stay `running` because
the latter did.  `newest` and `bootFolder` are history variables too.  Archives are
ordered by their job, the code orders them by the time in their manifest
(`backup/retention.go:49`): the clock is assumed not to be set back between two backups.

## 3. Runs

| Run | Bounds | Distinct states | Checks |
|---|---|---|---|
| `admission` | 2 requests of one viewer, nearly every client operation, revocation, catalog removal, process exit, sweep, failures and cancels | 785 k | TypeOK, CreatesAccounted, RevokedCreateFails, ResourcesOwned |
| `replacement` | 3 requests: plan, seek, replace, handoff, owner stop, cancel, failure | 969 k | LeaseConsistency, CapacityBound, ReplacementsAccounted, ControlsReturn |
| `plans` | 3 requests: plan, seek, watched mark | 317 k | PlansOrdered |
| `leases` | 2 requests, clock 0..2, FairSpec: plan, handoff, touch, sweep | 112 k | JanitorSparesLive, AbandonedReclaimed, HandoffsEnd |
| `shutdown` | 2 requests, FairSpec: plan, seek, failure, exit, sweep, shutdown with or without its deadline | 89 k | ShutdownClears, OperationsFinish, ShutdownCompletes |
| `scans` | 1 library, 2 jobs, 2 attempts, history of 1, 1 cancel request, 1 restart, every statement may fail, fair | 856 k | ScanJobsInv, OutcomesTrue, QueuedJobsEnd |
| `services` | 2 backups, 2 folders, 1 cancel, 1 restart; 1 screen, 1 token, 2 control sockets, channel of 1; 3 runs of restore with I/O errors; fair | 357 k | BackupInv, NewestArchiveKept, BackupsEnd; ScreensInv, ReportedIsShown, SocketsEnd; PriorKept, SettledWhole, RestoredIsTarget |
| `viewing` | 2 titles, 2 playbacks of 2 reports, generations to 3; 1 profile, 2 secrets, 2 concurrent requests, lock after 2 guesses, 2 owner changes, 1 restart | 1.52 M | ViewingInv, ViewerWritesKept, ProgressRefines; HouseInv, SessionsCurrent, LockHolds |
| `server` | 2 locations and an id for a third, 3 roots, 2 paths, 2 contents, 4 changes, 2 scans; 3 titles, 2 edits, 2 plans; 2 provider ids, 5 objects, 3 scans or owner operations | 3.31 M | CatalogInv, ReviewExact, ProtectedSourcesKept, OwnerConfirms; VersionsInv, AutoIsBest; ArtworkInv |
| `restore_rerun` | no I/O errors, only kills | violation | RerunRecovers |
| `scan_shutdown` | 1 job, no cancel, no restart, fair | violation | RunnerDrains |
| `unread_source` | 1 location and an id for a second, 3 roots with one file each | violation | UnreadSourcesKept |

`MCViewing`, `MCServices` and `MCServer` each extend several modules that share no
variables.  A behaviour is one of a single part (`part` is chosen once) while the others
rest in their initial states, so the state space is the sum and not the product; where
one component uses another (a scan its jobs, a merge the progress, an edit the
sessions), that use is part of the module itself.

What the combined properties say.  `CreatesAccounted` is the exact account of slots, job
keys, input tokens and viewer fences; `ResourcesOwned` gives every process, directory
and subtitle extraction somebody who ends it; `ReplacementsAccounted` does the same for
credits and for both sides of a handoff.  `ScanJobsInv` excludes a job that blocks its
library with nobody to end it, unless the code dropped a database error of that job.
`ScreensInv` covers one-use tickets, exclusive control and the channel that is closed
once.  `ViewingInv` counts a completion once and makes a merge reversible where nobody
watched.  `CatalogInv` ties an available title to a source, a source's proof to its
content and an admitted playback to its bytes.  `VersionsInv` keeps groups one level deep
and allows an obsolete session only to a request that crossed an edit, or to one that was
live when an edit was answered with an error after its commit.

Why these bounds are enough to be interesting.  Three requests are a first session, an
operation that replaces it and a third one that interferes (a newer plan, a second
replacement, a joiner of the same generation); with `MaxGenerations = 1` every
replacement needs a credit and every third start is refused.  Limits of one resolved
and one pending handoff per viewer make both prunings happen.  A clock longer than the
lease lets it run out, be renewed just before, and run out during the unlocked phase of
a sweep.  One viewer and one title: viewers only meet through shared generations, which
one viewer's requests share as well.  Two scan jobs are a job and its retry or the
second of a library; two backups with a budget of three units and sizes of one or two
make count and budget bite separately.  Three runs of the restore command are an
interrupted run, an interrupted recovery and a third that settles.  The catalog starts
with two copies of one content in two libraries, which duplicates, moves, failures and
offline roots need; a mass-removal minimum of one makes the percentage decide.  Two
playbacks of one title are enough for a takeover with late reports, two titles for a
merge.  Two guesses before the lock and two concurrent requests let one lock the other
out while it is hashing.  Five objects are the shown one, the local one, its fallback,
the saved one and a new one; an instance with four operations and three objects (4.25 M
states) passes too.

`CHECK_DEADLOCK FALSE` is set everywhere because the environment is finite: when every
request is done, the bounds are used up and nothing is left to sweep, the system rests.

Symmetry (permutations of the requests) is used in the safety runs of the playback
manager only.

### Fairness

`FairSpec` (playback) assumes weak fairness for each goroutine that has work (an
operation in progress, a retirement, a listed stop, the janitor, the shutdown), for the
reaping of a process that was killed, and for the clock.  Goroutines are preemptive, no
critical section blocks, and each wait of `create` is bounded by a timer (the manifest
wait) or by a process that `retire` kills after its grace period.  Strong fairness is
assumed in one place, `JanitorStops`: the `select` of the janitor's loop chooses at
random between the ticker and the cancelled context, so it cannot ignore the
cancellation for ever.

`ScanJobsFairness`: the runner and the scan are goroutines that run on, a cancel request
is served to its end, a retry's delay elapses.  A failed claim of a scan job changes
nothing and is tried again a second later, so it is a stutter that cannot last for ever.
`ServicesFairness`: the backup loop and a cancel request go on, and a claim that fails
is written one day (strong fairness of `ClaimJob(TRUE)`: the loop selects the job again
on every tick and the database does not refuse for ever); a socket handler that can run does, and a blocked read or
receive returns once its context is done (the contract of the WebSocket library).
Nothing is assumed of clients, peers or owners: they may never seek, touch, answer, send
or close anything.

## 4. What is proved

A theorem holds for every value of the constants that the modules' `ASSUME`s allow
(finite sets, distinct model values, natural-number limits); the run of the same
property is one small instance of it.  Each proof module opens with its inductive
invariant; TLC checked every one of them on the run's instance before it was proved.

`PlaybackProofs`, for any requests, viewers, titles and plans, limits and times:

| Theorem | Property | |
|---|---|---|
| `TypeCorrect` | `TypeOK` | |
| `LeasesConsistent` | `LeaseConsistency` | a session's generation is admitted and holds its lease, every lease belongs to a live session of that generation |
| `CreatesBalance` | `CreatesAccounted` | slots, job keys, input tokens and fences are exactly those of the creates in flight |
| `CapacityHolds` | `CapacityBound` | generations and starts exceed the limit by one at most |
| `ResourcesHaveOwners` | `ResourcesOwned` | every process, directory and extraction has somebody who ends it |
| `RevocationHolds` | `RevokedCreateFails` | a create overtaken by a revocation leaves no session |
| `ShutdownLeavesNothing` | `ShutdownClears` | |
| `ReplacementsBalance` | `ReplacementsAccounted` | every credit and every handoff has somebody who ends it |
| `ControlsAreReturned` | `ControlsReturn` | a session's controls are blocked only by something that is still going on |
| `JanitorIsPatient` | `JanitorSparesLive` | an action property of both phases of Sweep |

* Leases.  `LeaseConsistency` is not inductive: `Admit` and `ShareGeneration` would break
  it if the new id were in a map already or if an id not yet admitted had a generation.
  `LeaseInv` adds that an id is in the maps only at control points after its admission
  (`AdmittedPcs`) and has no generation before.  The proof goes by the helper that
  changes the maps rather than by action: `LeaseStopped` (stopSessionLocked on any set
  of sessions), `LeaseJoined` (a new lease) and `LeaseKept`; each action then cites one.
* Accounts.  `AccountInv` joins the counts with the ownership of everything a create
  makes: which control points may have a process, a directory, an input token
  (`NeverRan`, `StartsReturned`), that a closed manager holds nothing (`ClosedClears`),
  that what Shutdown detached is being retired (`ShutdownRetires`), and that a doomed
  create's viewer stays fenced until it ends (`DoomedFenced`), which is what
  `RevokedCreateFails` lacks to be inductive.  Most steps are `Ordinary`: they move a
  request between control points of the same account or only take things away, and one
  lemma covers them; the steps that open or close an account have one lemma each, and the
  counts change by the cardinality theorems of the library.
* Replacements.  Two operations on one session link their preparation records under the
  same predecessor, the later one overwrites the earlier, and a clean-up may clear the
  other's; so `ControlsReturn` is far from inductive.  `ReplaceInv` says where an operation
  may still have a credit (`MayHold`) or a record (`MayLink`), that a record is found under
  its own id whenever it is found at all (`LinkOK`), so that clearing it clears every
  trace, that a predecessor has been answered before anything replaces it (`OldOK`), and
  that a source the owner stopped has taken the credit along (`StoppedOK`), which is why
  a promoted handoff leaves none behind.  `MoverKeeps` and `BystanderKeeps` cover the steps
  that only take away; issuing, reserving, admitting, activating, cleaning up and the
  owner's stop have lemmas of their own.
* The order of plans.  `PlanInv` says that a progress generation is taken by one plan at
  most and never by one ahead of the title (`TakenOnce`), that every operation on a
  session descends from an answered plan of its own generation (`Descent`), that a plan's
  list names older sessions or its own kin (`ListsOlder`) and still every one of them
  that is alive (`ListsAll`).  `ListsAll` is the crux: a plan or a seek that is answered
  after the list was made either was on it, or its commit was accepted, which a newer
  plan's generation forbids.  `StopEndsKin` follows `StopForViewer` through aliases of
  resolved handoffs, preparation records and handoff partners, and shows that whatever
  session it ends has the generation of the one that was asked for.

`RestoreProofs`, for any number of runs, with and without I/O errors:

* `PriorNeverLost`: while a restore is not published, every entry it began from is on
  disk, in place or moved aside.
* `SettlesWhole`: with no journal left and no command running, the directory holds one
  whole installation and nothing moved aside.
* `ReportsTruth`: success is reported only when the archive's installation is in place.
* `RestoreInvariant`: the inductive invariant `RestoreInv` behind all three.  The
  properties speak of the journal's phase alone; the invariant adds where the loop is
  (`MovedEntry`: publication has handled the entries before the current one and no
  other; `RecoveredEntry`: recovery has settled those before it), so that a failure or
  a kill inside the loop is known to leave each entry in one of the two good places.

`HouseholdProofs`, for any profiles, secrets, concurrent requests, attempts and restarts:

* `HouseCorrect` (`HouseInv`): memory and tables agree, so that a restart changes no
  credential and no profile's attempts or lock (the owner's are in no table and not part
  of it).  `SessionsFollowCredentials` (`SessionsCurrent`).  Missing from both is what a request knows that has released the mutex to derive a hash:
  `GuestsCurrent` says that the owner credential it read is still the owner's, because
  only the first claim and the recovery of a stopped server write one.
* `LockIsFinal` (`LockHolds`), an action property: a request derived before the lock was
  set is told that it is limited, not whether its guess was right.

`ViewingProofs`, for any titles, playbacks, numbers of reports and generations:

* `ViewingCorrect` (`ViewingInv`), `ViewerKeepsProgress` (`ViewerWritesKept`).  `ProgressOK`
  adds that no two playbacks of a title share a generation and none is ahead of its row
  (`PlayersOK`), that a position carries its playback's own number (`PositionsOK`), that
  completion and history agree for the row's generation (`EventsOK`), and which snapshot
  a merged row may still equal (`MergeOK`).
* `ProgressImplementsRegister` (`ProgressRefines`): the initial states map to initial
  states of `ProgressRegister` and every step to a step of it or a stutter.  `StepShapes`
  reduces the actions to seven kinds of step first.

`ScanJobsProofs`, for any libraries, jobs, attempts, cancel requests and restarts:

* `ScanJobsCorrect` (`ScanJobsInv`), `OutcomesAreTrue` (`OutcomesTrue`).  The strengthening
  is the state of each cancel between its four steps: `Doomed(j)` says that a job has
  published nothing and never will, because it is over or because the runner has taken
  note; a request that answered "ok" has a doomed job, one that only marked its intent
  finds the intent still there or the job over.  Every statement of a job may fail;
  what is claimed of a job ends where the code drops an error about it (`discarded`).

`BackupProofs`, for any jobs, destinations, sizes, limits, cancels and restarts:

* `BackupCorrect` (`BackupInv`), `NewestIsKept` (`NewestArchiveKept`).  `RetainsNewest` is
  the fact about `retention.go` alone: count, age and budget never select the newest
  archive of the folder.  The invariant adds that ids are used in order with only the
  last one open, so that the archive just published is the newest of its folder.

`ScreensProofs`, for any screens, tokens, sockets and channel capacity:

* `ScreensCorrect` (`ScreensInv`): one-use tickets, exclusive control, no send to or close
  of a closed channel.
* `ReportsWhatIsShown` (`ReportedIsShown`).  What a screen will show is a recursive function
  over the commands on their way.  The invariant states it as a succession of views
  (`Leads`), which a send extends at its end and a delivery shortens at its front;
  `ReplayedIs` shows by a least counterexample that the recursive function computes the
  end of that succession.

`CatalogProofs`, for any titles, groups, devices, edits and plans, for any films,
object files and steps, and for any locations, paths, contents, reviews and scans:

* `AutoChoosesBest` (`AutoIsBest`).  The loop compares each candidate only with the one
  it kept; that none of those it passed over is better rests on the order in which
  `Better` compares (rank, then bitrate).  `BestOfIsBest` takes the least id at which the
  version kept is not the best of the candidates so far, and shows that there is none.
* `VersionsCorrect` (`VersionsInv`).  `VersionsInduction` adds what a request carries over
  its unlocked steps: `PlanCurrent` says that its title and version are still offered
  unless an edit was counted after its check, `SessionCurrent` that a session whose request
  crossed no edit plays what is offered or has an edit pending that will stop it.
  `Answered` covers the sessions of an edit that was answered with an error.
* `ArtworkCorrect` (`ArtworkInv`).  `ReferencesKept` is not inductive: the removals at the
  end of a transaction would take a file that another row still names.  `Sound` says that
  the four rows name distinct objects, but for the local one that is also shown, and that
  what is to be removed is none of them; `Pending` says it of the rows a transaction is
  about to publish, with their files on disk and none of the files it would withdraw named
  by a committed row.  A plan's seven stages (`Persist`) keep it one by one.
* The library scan: `CatalogCorrect` (`CatalogInv`), `ReviewsExact` (`ReviewExact`), and two
  action properties, `ProtectedKept` (`ProtectedSourcesKept`) and `OwnerDecides`
  (`OwnerConfirms`), all from `CatalogInduction`, which has two halves.
  `CatalogTruth` is what the disk bears out: existing files have distinct change tokens
  (`TokensTrue`), and every token that a row, a result of the scan, a pending proof or an
  admitted key holds is `Vouched`: the file that has it, if there is one, has the content
  claimed.  `ProofHonest` alone is not inductive, because a scan carries what it read
  over writes of the disk, and a row of a file that is gone becomes a claim about a
  location's next root.  `CatalogTables` relates the tables to the scan.  A pending review
  and a review a scan is about to record name rows of their location by ids that still
  exist (`IdsHeld`; a commit rewrites a row under the same id or leaves it) and whose
  places are present or skipped (`IdsShown`).  A page whose review is the pending one shows it, which rests
  on scan ids being new (`PagesCurrent`).  A location that was walked is either protected
  or completed, not both, completed only if something was found there or it had nothing
  (`Walked`), and each file found or asked for by a retry is a result or a failure
  (`InspectOK`); that is why a commit keeps a source it did not look at, and empties
  nothing.  `ReconciledIs` follows reconcileIdentity, a recursive function over the
  files in order, by a least counterexample; `SourcesAre`, `RowsAfterAre`, `ProtectedStay`
  and `AvailableAfter` are the parts of persist.  The hardest is the last: a title whose
  primary failed keeps its row, and then its prior source is still there because a file
  that replaced it would be of another content, and so of a contradicted place.

Only model-checked: all liveness, because fairness and ENABLED are out of the prover's
reach.  Every safety invariant and action property of a passing run is a theorem.

## 5. Where code and documents disagree

Runs that end in a counterexample, each quoted in `PROJECT.json`:

* `restore_rerun`.  `restore` validates the target before it recovers the journal.  After
  a kill between moving `flixr.db` aside and installing the new one, with artwork or the
  sidecar present, each re-run is refused ("managed data without a recoverable Flixr
  database") although the documentation says that re-running recovers.  The same
  refusal follows a kill between the removal of a published database and the rename of
  the prior one; a kill between the removal of the stage and of the journal leaves a
  journal that is refused as "restore journal stage is invalid".  No data is lost
  (`PriorKept`), but recovery needs hands.
* `scan_shutdown`.  `scanLibrary` reads the done channel after the scan it started may
  have ended (`catalog/catalog.go:851`); `Scan` guards against this (829-834), it does
  not.  The runner then waits on a nil channel and never drains; `Catalog.Shutdown`
  waits for it until main's deadline and fails (2119-2124).  The model has the runner,
  not the waiting shutdown.  `QueuedJobsEnd` excepts a runner in that state (`LostDone`).
* `unread_source`.  A title without a source keeps the place of its last one.  If that
  place fails its inspection while a copy is found elsewhere, the title stays unavailable
  and the copy's row becomes present.  A later scan that does not read the copy's location
  (it is unreadable, or not asked for) carries the copy over with the availability of the
  title, which is none, and drops it when the title's own file is read.  Such places are
  the history variable `skipped`; `ProtectedSourcesKept`, `EmptiedByOwner` and
  `ReviewExact` speak of the others.

Observations without a run of their own.  Playback manager:

* The comment at `playback/manager.go:79` says that a handoff's predecessor remains usable
  until the handoff is resolved.  A seek that began before the handoff was reserved is
  not checked against `sessionHandoffs` when it commits (994) and swaps the predecessor
  away.
* When the deadline passes while `Shutdown` waits for the janitor it returns at once
  (2104); the generations it detached are in no map any more and are not retired.
  `ShutdownCompletes` excepts a shutdown that failed.
* A lookup or heartbeat between the activation of a handoff and its deferred clean-up
  overwrites the predecessor's clamped expiry with the preparation deadline (736, 1081).
* `Replace` and handoff commit their progress check when they reserve (1354), not when
  they swap.  One that reserved before a newer plan can swap in after the plan listed
  what it supersedes.  `PlansOrdered` therefore excepts their sessions; it covers those
  of plans and seeks, also when replaces and handoffs run beside them.
* A seek at the generation limit runs on a credit, so one FFmpeg process more than the
  configured limit runs for a moment.  `CapacityBound` states the bound the code keeps.
* Phase one of a sweep drops expired input tokens (2022), also of a generation that a
  create joins before phase two: a lease does not imply a live input token.
* A plan authenticated before a logout that enters `create` after `StopViewer` found no
  create in flight is admitted (1617); the fence covers creates already counted.

Jobs:

* Dropped database errors.  When the re-read after the claim's commit fails
  (`catalog/scan_scheduler.go:760`), or both the outcome (or requeue) and the fallback
  that marks the job failed cannot be written (842, 819), the row stays `running` with no
  runner: it blocks its library until a restart, and a cancel of it is acknowledged
  although its scan may have been published.  A failed read of the cancel request (788)
  counts as none; if the job then meets another scan it is requeued with the request
  still set, and a queued job with a cancel request is never claimed, also not after a
  restart.  Two cancels of a job that is not active yet share one intent; when the first
  one's UPDATE fails it withdraws the intent, and the second may be acknowledged although
  the scan goes on to publish.  A backup whose outcome cannot be written
  (`backup/manager.go:465`) stays `running`, and Queue is refused, until a restart.
* `Cancel` of a backup calls whatever cancel function is set when it gets there
  (`backup/manager.go:345`), so a cancel that read job 1 as running may cancel job 2,
  which is recorded "Cancelled by owner."  A cancelled backup whose copy fails first is
  reported "failed".
* The "review_required" branch of `executeScanJob` (836) is dead: `scanError` answers such
  a scan with an error, so its job is recorded "failed" and may be retried.  persist marks the active job committed also when a refresh scan of
  the server's start commits.

Catalog, versions, artwork:

* When the primary file of a title cannot be inspected, or is missing, while a duplicate
  elsewhere was found or carried over, the title is written with the duplicate as its only
  source and the row of the failed file is marked absent (`catalog/catalog.go:1918`),
  although a partial failure should not discard the last valid catalog.  A file restored and rescanned while its review is pending
  has a new row id, so confirming leaves it present, which is harmless.
* An edit of a version group that commits and then fails to read the group back
  (`catalog/media_versions.go:360`, 381, 398) is answered with an error before
  `StopCatalogIDs` (`web/media_versions.go:188-204`): its sessions play on as what is no
  longer a title of its own.
* A restart lifts the owner's sign-in lock and forgets the failed attempts
  (`household/household.go:80-81`); a profile's survive it.
* A merge followed by `BeginPlayback` counts as viewing, so copied progress stays after
  the unmerge.
* An ungroup between FFmpeg opening its input and the session entering the manager leaves
  a session of an obsolete version; `ObsoleteOnlyAcrossEdits` excepts exactly that.  A
  remembered version that is not playable is silently replaced by Auto.  A group whose
  canonical file is unavailable answers `playback_not_playable` although a member plays.
* `captureIdentityArtwork` (`catalog/local_metadata.go:920-941`) may save an object that
  another row still names (local artwork without a fallback, or no prior provider to
  clear).  The row that goes first removes the file; restoring the identity then
  publishes a missing object and a backup fails on it (`backup/archive.go:203`).
* `editMetadata` on behalf of a refresh (`catalog/overrides.go:127-176`) asks for the
  field's source, not for the local row.  After an owner edit, or an NFO import that
  deleted the poster's field row, a refresh replaces and removes the local artwork,
  although "Provider refresh, manual match, and artwork retry keep local values visible"
  (docs/local-metadata.md:44).
* A failed removal in `cleanupDerivativesLocked` (`catalog/artwork.go:624-670`) returns in
  the middle of a batch; the rest is not counted, so the cap of 64 can be exceeded.

## 6. Plan

Next, in this order:

1. Abstract specifications: an *atomic restore* (the installation changes in one step or
   not at all) refined by `RestoreJournal`; a *stream lease* refined by `PlaybackManager`.
2. Algorithms against reference definitions: the retained HLS range, the catch-up of an
   interval schedule, episode order.
3. History: clear and undo, with their effect on progress.
4. Series and episodes in `CatalogScan` and `Artwork`; libraries that are deleted.

## 7. Not modelled

`PROJECT.json` gives the reason for each component.  FFmpeg argument construction,
archive and caption formats, the provider's protocol, SQL reads and migrations are I/O
or data transformations without a protocol; the frontend is the environment of the
modules above, which allow every order of its calls.  Of the modelled components:

* Playback manager: `SelectSubtitle` (one guarded assignment), `UpdateSettings`, the
  read-only views, the start-up removal of orphaned directories.
* Viewing: clear and undo of history, ratings, dismissals; preferences.
* Catalog: scan exclusions, sidecar tracks, series and episode identities,
  identity-conflict rows, creating, renaming and deleting libraries, the legacy topology
  and identity migrations.
* Artwork: the backdrop (the same code), propagation to series and episodes, legacy
  reconciliation, refresh previews, the staging store, derivatives, and a persist that
  touches no artwork and so does not take the artwork lock.
* Jobs: schedules, which only queue what the model may queue at any time; a history
  prune that fails, which leaves more ended jobs than the limit.

Known abstractions inside what is modelled:

* `LookupExpired` is the expiry check (`playback/manager.go:720`) and the `StopForViewer`
  after it (723) in one step.  An expired session is not renewed in between, but a handoff
  that is resolved or expires there may give it a new lease, which the stop then ends.
* `RecordProgress` reports no completion, as its only caller (`web/server.go:774`);
  completion comes from `RecordPlaybackProgress` and `SetWatched`.
* `starting` is any integer in `TypeOK`; that it is the number of creates in flight is
  `CreatesAccounted`.
