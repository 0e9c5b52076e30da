-------------------------- MODULE PlaybackManager --------------------------
(***************************************************************************)
(* The playback manager of backend/playback/manager.go: sessions, FFmpeg   *)
(* generations shared through leases, internal input tokens, admission     *)
(* under a generation limit, seek / replace / quality-handoff operations   *)
(* that prepare a second session before they release the first, viewer     *)
(* and owner revocation, the lease janitor and the shutdown.               *)
(*                                                                         *)
(* One action is one critical section of Manager.mu together with the      *)
(* unlocked work up to the next one.  A multi-step operation is a request  *)
(* r with a program counter; r also names the session, the generation, the *)
(* input token and the handoff that the operation creates, because the     *)
(* code draws each of them as a fresh random token.                        *)
(***************************************************************************)
EXTENDS Integers, FiniteSets

CONSTANTS
  Requests,             \* operations the clients issue (and the ids they draw)
  Viewers,              \* authenticated browser sessions; one profile each
  Catalogs,             \* titles
  Plans,                \* distinct remux or transcode renditions of a title
  Direct,               \* the plan kind that needs no generation
  None,                 \* absent map entry, empty id
  MaxGenerations,       \* settings.MaxGenerations within the byte budget
  MaxPendingHandoffs,   \* maxPendingHandoffs
  MaxHandoffsPerViewer, \* maxHandoffsPerViewer
  MaxResolvedHandoffs,  \* maxResolvedHandoffs
  LeaseTTL, DirectTTL, ManifestWait,
  MaxTime,              \* bound on the clock
  Ops                   \* the client, owner and environment operations enabled

ASSUME FiniteAssumption == IsFiniteSet(Requests) /\ IsFiniteSet(Viewers)
ASSUME NoneAssumption ==
  None \notin Requests /\ Direct \notin Plans /\ Requests \cap Viewers = {}
ASSUME LimitAssumption ==
  /\ MaxGenerations \in Nat /\ MaxPendingHandoffs \in Nat
  /\ MaxHandoffsPerViewer \in Nat /\ MaxResolvedHandoffs \in Nat
ASSUME TimeAssumption ==
  /\ LeaseTTL \in Nat /\ DirectTTL \in Nat /\ ManifestWait \in Nat
  /\ MaxTime \in Nat

VARIABLES
  now,                   \* the clock
  req, pc, ok,           \* operation arguments, control, success of create
  sessions,              \* m.sessions (keys)
  expires,               \* Session.ExpiresAt
  genOf,                 \* Session.GenerationID
  subtitleJobs,          \* m.subtitleJobs (sessions with running extraction)
  generations,           \* m.generations (keys)
  leases,                \* generation.leases (keys; the values are never read)
  ready,                 \* generation.ready
  process,               \* the FFmpeg process of a generation
  dirs,                  \* segment directories on disk
  retiring,              \* generations some goroutine is retiring
  inputs, inputExp,      \* m.inputs (tokens, by generation) and their expiry
  revokedViewers, pendingViewers, starting, pendingJobs,
  replacements,          \* m.replacements: old generation -> new session
  preparingHandoffs,     \* m.preparingHandoffs (keys)
  preparingDeadline,     \* m.preparingHandoffs (values)
  preparingReplacements, \* session -> shared record, named by its newID
  ownerStopped,          \* preparingReplacement.ownerStoppedID of a record
  handoffs, handoffExp, handoffGen, \* m.handoffs, expiresAt, replacementGeneration
  sessionHandoffs,
  resolvedHandoffs, resolvedExp, attached,
  stopQueue,             \* sessions StopSupersededPlans (by request) and
                         \* StopViewer (by viewer) have listed and still stop
  progressGen,           \* household progress generation per viewer and title
  closed, shutdown, shutGens, \* m.closed, Shutdown's control, what it detached
  sweep, snapshot,       \* the janitor's control and its measured generations
  doomed                 \* history: creates in flight when StopViewer marked them

clientVars  == <<req, pc, ok>>
lifeVars    == <<sessions, subtitleJobs, generations, leases, inputs, retiring>>
ttlVars     == <<expires, inputExp>>
genVars     == <<genOf, ready, process, dirs>>
admitVars   == <<revokedViewers, pendingViewers, starting, pendingJobs>>
prepVars    == <<preparingHandoffs, preparingDeadline, preparingReplacements,
                 ownerStopped>>
handoffVars == <<handoffs, handoffExp, handoffGen, sessionHandoffs>>
resolveVars == <<resolvedHandoffs, resolvedExp, attached>>
lifecycleVars == <<closed, shutdown, shutGens, sweep, snapshot>>
otherVars   == <<stopQueue, progressGen, doomed>>
vars == <<now, clientVars, lifeVars, ttlVars, genVars, admitVars, replacements,
          prepVars, handoffVars, resolveVars, lifecycleVars, otherVars>>

OpNames == {"none", "plan", "seek", "replace", "handoff"}

\* The control points of create, in the order of the code, then those of the
\* operation that called it.
CreatePcs == {"entered", "reserved", "starting", "started", "waiting",
              "manifest", "rejected", "abandoned", "unlinking", "aborting",
              "discarding", "retiring", "finishing"}
\* Points at which m.starting counts the request.
ReservedPcs == {"reserved", "starting", "started", "aborting"}
\* Points at which the request's job key is in m.pendingJobs.
PendingJobPcs == ReservedPcs \cup {"waiting", "manifest", "abandoned"}
\* Points between m.startWG.Add and m.startWG.Done.
StartWGPcs == CreatePcs \ {"entered", "finishing"}
OperationPcs == {"issued", "created", "accepted", "superseding", "dropping",
                 "cleanupAccepted", "cleanupFailed"}
PCs == {"idle", "done"} \cup CreatePcs \cup OperationPcs

InCreate(r) == pc[r] \in CreatePcs
InFlight(r) == pc[r] \notin {"idle", "done"}
\* A session id is a secret until the operation that drew it has answered.
Known(s) == pc[s] = "done" /\ s \in ok

Job(r) == <<req[r].catalog, req[r].plan>>
OldGen(r) == IF req[r].old = None THEN None ELSE genOf[req[r].old]
Revoked(v) == v \in revokedViewers
TTL(s) == IF genOf[s] = None THEN DirectTTL ELSE LeaseTTL
Expired(s) == now >= expires[s]

\* The commit callback of seek, replace, handoff and heartbeat requests
\* (RecordPlaybackProgress): the write is accepted while the session's progress
\* generation is still the title's.  Observations within it are not modelled.
CommitAccepted(s) == progressGen[<<req[s].viewer, req[s].catalog>>] = req[s].progress

\* Every map of the manager has keys and values of its type and every operation
\* is at a control point of the code.
TypeOK ==
  /\ now \in Nat
  /\ req \in [Requests -> [op : OpNames, viewer : Viewers \cup {None},
                           catalog : Catalogs \cup {None},
                           plan : Plans \cup {Direct, None},
                           old : Requests \cup {None}, progress : Nat]]
  /\ pc \in [Requests -> PCs] /\ ok \in SUBSET Requests
  /\ sessions \in SUBSET Requests /\ expires \in [Requests -> Nat]
  /\ genOf \in [Requests -> Requests \cup {None}]
  /\ subtitleJobs \in SUBSET Requests
  /\ generations \in SUBSET Requests /\ leases \in [Requests -> SUBSET Requests]
  /\ ready \in SUBSET Requests
  /\ process \in [Requests -> {"none", "running", "killed", "exited"}]
  /\ dirs \in SUBSET Requests /\ retiring \in SUBSET Requests
  /\ inputs \in SUBSET Requests /\ inputExp \in [Requests -> Nat]
  /\ revokedViewers \in SUBSET Viewers /\ pendingViewers \in [Viewers -> Int]
  /\ starting \in Int
  /\ pendingJobs \in SUBSET ((Catalogs \cup {None}) \X (Plans \cup {Direct, None}))
  /\ replacements \in [Requests -> Requests \cup {None}]
  /\ preparingHandoffs \in SUBSET Requests
  /\ preparingDeadline \in [Requests -> Nat]
  /\ preparingReplacements \in [Requests -> Requests \cup {None}]
  /\ ownerStopped \in [Requests -> Requests \cup {None}]
  /\ handoffs \in SUBSET Requests /\ handoffExp \in [Requests -> Nat]
  /\ handoffGen \in [Requests -> Requests \cup {None}]
  /\ sessionHandoffs \in [Requests -> Requests \cup {None}]
  /\ resolvedHandoffs \in SUBSET Requests /\ resolvedExp \in [Requests -> Nat]
  /\ attached \in SUBSET Requests
  /\ stopQueue \in [Requests \cup Viewers -> SUBSET Requests]
  /\ progressGen \in [Viewers \X Catalogs -> Nat]
  /\ closed \in BOOLEAN
  /\ shutdown \in {"open", "starts", "janitor", "retire", "done", "failed"}
  /\ shutGens \in SUBSET Requests
  /\ sweep \in {"idle", "measuring", "retiring", "stopped"}
  /\ snapshot \in SUBSET Requests /\ doomed \in SUBSET Requests

Init ==
  /\ now = 0
  /\ req = [r \in Requests |-> [op |-> "none", viewer |-> None, catalog |-> None,
                                plan |-> None, old |-> None, progress |-> 0]]
  /\ pc = [r \in Requests |-> "idle"] /\ ok = {}
  /\ sessions = {} /\ expires = [r \in Requests |-> 0]
  /\ genOf = [r \in Requests |-> None] /\ subtitleJobs = {}
  /\ generations = {} /\ leases = [r \in Requests |-> {}] /\ ready = {}
  /\ process = [r \in Requests |-> "none"] /\ dirs = {} /\ retiring = {}
  /\ inputs = {} /\ inputExp = [r \in Requests |-> 0]
  /\ revokedViewers = {} /\ pendingViewers = [v \in Viewers |-> 0]
  /\ starting = 0 /\ pendingJobs = {}
  /\ replacements = [r \in Requests |-> None]
  /\ preparingHandoffs = {} /\ preparingDeadline = [r \in Requests |-> 0]
  /\ preparingReplacements = [r \in Requests |-> None]
  /\ ownerStopped = [r \in Requests |-> None]
  /\ handoffs = {} /\ handoffExp = [r \in Requests |-> 0]
  /\ handoffGen = [r \in Requests |-> None]
  /\ sessionHandoffs = [r \in Requests |-> None]
  /\ resolvedHandoffs = {} /\ resolvedExp = [r \in Requests |-> 0] /\ attached = {}
  /\ stopQueue = [k \in Requests \cup Viewers |-> {}]
  /\ progressGen = [k \in Viewers \X Catalogs |-> 0]
  /\ closed = FALSE /\ shutdown = "open" /\ shutGens = {}
  /\ sweep = "idle" /\ snapshot = {} /\ doomed = {}

-----------------------------------------------------------------------------
(* The helpers that run under Manager.mu.                                  *)

\* handoffControlBlockedLocked.
ControlBlocked(s) ==
  \/ s \in preparingHandoffs
  \/ preparingReplacements[s] # None
  \/ sessionHandoffs[s] # None

\* linkPreparingReplacementLocked(old, new): a fresh record under both ids.
LinkedReplacement(old, new) ==
  IF old = None THEN preparingReplacements
  ELSE [preparingReplacements EXCEPT ![old] = new, ![new] = new]

\* Mutant of ClearedReplacement: the partner's key is forgotten.
ClearedOneKey(id) ==
  [preparingReplacements EXCEPT ![id] = None]

\* clearPreparingReplacementLocked(id): drops both keys of the record at id.
ClearedReplacement(id) ==
  LET record == preparingReplacements[id] IN
  [s \in Requests |->
     IF record # None /\ s \in {req[record].old, record}
     THEN None ELSE preparingReplacements[s]]

\* delete(m.replacements, g) when the credit of g belongs to session s.
CreditReleased(g, s) ==
  [k \in Requests |-> IF k = g /\ replacements[k] = s THEN None
                      ELSE replacements[k]]

\* releaseReservation(true): the job may be prepared again.
ReleasedJob(r) == pendingJobs \ {Job(r)}

\* The revokeInputs closure of create.
RevokedInputs(r) == inputs \ {r}

\* cancelSubtitleJobsLocked for every session of S.
CancelledJobs(S) == subtitleJobs \ S

\* renewInputsLocked for the generations of the sessions in S; the last
\* renewal wins, and a token that is gone stays gone.
RenewedInputs(S, expiry) ==
  [g \in Requests |->
     IF g \in inputs \cap generations /\ \E s \in S : genOf[s] = g
     THEN expiry ELSE inputExp[g]]

\* now.Add(ttl) for the live sessions of S, with their input tokens.
Extend(S) ==
  LET kept == S \cap sessions IN
  /\ expires' = [s \in Requests |-> IF s \in kept THEN now + TTL(s) ELSE expires[s]]
  /\ inputExp' = RenewedInputs(kept, now + LeaseTTL)

\* Mutant of Emptied: one viewer's stop takes a shared generation down.
EmptiedEarly(S) ==
  {g \in generations : \E s \in S \cap sessions : genOf[s] = g}

\* The generations that stopSessionLocked on every session of S leaves
\* without a lease.
Emptied(S) ==
  {g \in generations :
     /\ \E s \in S \cap sessions : genOf[s] = g
     /\ \A s \in leases[g] : s \in S \cap sessions /\ genOf[s] = g}

\* stopSessionLocked on every session of S, detachGenerationLocked on what it
\* empties; credits is m.replacements as the caller has left it.
StopSessions(S, credits) ==
  LET gone == Emptied(S) IN
  /\ sessions' = sessions \ S
  /\ subtitleJobs' = CancelledJobs(S \cap sessions)
  /\ leases' = [g \in Requests |->
                  {s \in leases[g] : ~(s \in S \cap sessions /\ genOf[s] = g)}]
  /\ generations' = generations \ gone
  /\ inputs' = inputs \ gone
  /\ retiring' = retiring \cup gone
  /\ replacements' = [g \in Requests |-> IF g \in gone THEN None ELSE credits[g]]

\* detachGenerationLocked on every generation of D.
Detach(D) ==
  LET held == UNION {leases[g] : g \in D} IN
  /\ generations' = generations \ D
  /\ replacements' = [g \in Requests |-> IF g \in D THEN None ELSE replacements[g]]
  /\ inputs' = inputs \ D
  /\ sessions' = sessions \ held
  /\ subtitleJobs' = CancelledJobs(held)

\* The pair of sessions of a handoff.
Pair(h) == {req[h].old, h}
KeptOf(h, A) == IF h \in A THEN h ELSE req[h].old
StoppedOf(h, A) == IF h \in A THEN req[h].old ELSE h

\* Deleting the records of H from m.handoffs, m.sessionHandoffs and the
\* replacement credits they hold.
DropHandoffs(H) ==
  /\ handoffs' = handoffs \ H
  /\ sessionHandoffs' = [s \in Requests |->
                           IF \E h \in H : s \in Pair(h) THEN None
                           ELSE sessionHandoffs[s]]
\* Mutant of CreditsWithout: a resolved handoff keeps its replacement credit.
CreditsKept(H) ==
  replacements

CreditsWithout(H) ==
  [g \in Requests |->
     IF \E h \in H : handoffGen[h] = g /\ replacements[g] = h
     THEN None ELSE replacements[g]]

\* pruneResolvedHandoffsLocked: expired records go, then the earliest expiring
\* ones beyond the global limit, then beyond each viewer's limit.  Map order
\* breaks ties, so the result is a set of outcomes.
Latest(R, n, expiry) ==
  {K \in SUBSET R :
     /\ Cardinality(K) = IF Cardinality(R) <= n THEN Cardinality(R) ELSE n
     /\ \A k \in K, d \in R \ K : expiry[d] <= expiry[k]}
Pruned(R, expiry) ==
  {K \in SUBSET R :
     \E G \in Latest({h \in R : now < expiry[h]}, MaxResolvedHandoffs, expiry) :
       /\ K \subseteq G
       /\ \A v \in Viewers :
            {h \in K : req[h].viewer = v} \in
              Latest({h \in G : req[h].viewer = v}, MaxHandoffsPerViewer, expiry)}

\* resolveHandoffLocked on the records of H with one outcome.
Resolve(H, isAttached) ==
  LET A == IF isAttached THEN attached \cup H ELSE attached \ H
      expiry == [h \in Requests |-> IF h \in H THEN now + LeaseTTL ELSE resolvedExp[h]]
  IN
  /\ DropHandoffs(H)
  /\ Extend({KeptOf(h, A) : h \in H})
  /\ StopSessions({StoppedOf(h, A) : h \in H}, CreditsWithout(H))
  /\ attached' = A
  /\ resolvedExp' = expiry
  /\ resolvedHandoffs' \in Pruned(resolvedHandoffs \cup H, expiry)

HandoffExpired(s) ==
  sessionHandoffs[s] \in handoffs /\ now >= handoffExp[sessionHandoffs[s]]

\* The session StopForViewer(id) ends: id itself, else the survivor of a
\* resolved handoff that stopped id (map order picks one), else the candidate
\* of a preparation whose source the owner stopped.
StopTargets(id, R) ==
  LET aliases == {KeptOf(h, attached) : h \in {x \in R : StoppedOf(x, attached) = id}}
      found == IF id \in sessions \/ aliases = {} THEN {id} ELSE aliases
      candidate(s) == LET record == preparingReplacements[s] IN
        IF record # None /\ req[record].old = s /\ ownerStopped[record] = s
        THEN record ELSE s
  IN {IF s \in sessions THEN s ELSE candidate(s) : s \in found}

\* A session in a handoff goes together with its partner.
StopForViewer(id) ==
  \E R \in Pruned(resolvedHandoffs, resolvedExp) : \E target \in StopTargets(id, R) :
    LET H == {h \in handoffs : target \in sessions /\ sessionHandoffs[target] = h}
        S == ({target} \cap sessions) \cup UNION {Pair(h) : h \in H}
    IN /\ resolvedHandoffs' = R
       /\ DropHandoffs(H)
       /\ StopSessions(S, CreditsWithout(H))

-----------------------------------------------------------------------------
(* create: every operation that draws a session runs it.                   *)

Goto(r, label) == pc' = [pc EXCEPT ![r] = label]

\* A playback plan request passes authentication and reads the progress
\* generation of the title; create has not been entered yet.
Plan(r, v, c, p) ==
  /\ "plan" \in Ops /\ pc[r] = "idle"
  /\ p = Direct => "direct" \in Ops
  /\ req' = [req EXCEPT ![r] = [op |-> "plan", viewer |-> v, catalog |-> c,
                                plan |-> p, old |-> None,
                                progress |-> progressGen[<<v, c>>] + 1]]
  /\ Goto(r, "issued")
  /\ UNCHANGED <<now, ok, lifeVars, ttlVars, genVars, admitVars, replacements,
                 prepVars, handoffVars, resolveVars, lifecycleVars, otherVars>>

\* Mutant of Enter: the lease is subtracted.
EnterBackdated(r) ==
  /\ pc[r] = "issued" /\ ~Revoked(req[r].viewer)
  /\ pendingViewers' = [pendingViewers EXCEPT ![req[r].viewer] = @ + 1]
  /\ expires' = [expires EXCEPT ![r] = now - LeaseTTL]
  /\ Goto(r, "entered")
  /\ UNCHANGED <<now, req, ok, lifeVars, inputExp, genVars, revokedViewers, starting,
                 pendingJobs, replacements, prepVars, handoffVars, resolveVars,
                 lifecycleVars, otherVars>>

\* The revocation fence: the create is counted while it is in progress.
Enter(r) ==
  /\ pc[r] = "issued" /\ ~Revoked(req[r].viewer)
  /\ pendingViewers' = [pendingViewers EXCEPT ![req[r].viewer] = @ + 1]
  /\ expires' = [expires EXCEPT ![r] = now + IF req[r].plan = Direct THEN DirectTTL
                                             ELSE LeaseTTL]
  /\ Goto(r, "entered")
  /\ UNCHANGED <<now, req, ok, lifeVars, inputExp, genVars, revokedViewers, starting,
                 pendingJobs, replacements, prepVars, handoffVars, resolveVars,
                 lifecycleVars, otherVars>>

\* Where an operation whose create failed continues.
FailedLabel(r) ==
  IF req[r].op \in {"replace", "handoff"} THEN "cleanupFailed" ELSE "done"

\* create refuses before it is counted: revoked viewer, or a context that is
\* already cancelled.
EnterRefused(r) ==
  /\ pc[r] = "issued"
  /\ Revoked(req[r].viewer) \/ "cancel" \in Ops
  /\ Goto(r, FailedLabel(r))
  /\ UNCHANGED <<now, req, ok, lifeVars, ttlVars, genVars, admitVars, replacements,
                 prepVars, handoffVars, resolveVars, lifecycleVars, otherVars>>

\* Mutant of Admissible: the revocation is not checked again after the lock was released.
AdmissibleUnfenced(r) ==
  ~closed

\* Mutant of Admissible: a create outlives the shutdown.
AdmissibleClosed(r) ==
  ~Revoked(req[r].viewer)

Admissible(r) == ~closed /\ ~Revoked(req[r].viewer)

CreateDirect(r) ==
  /\ pc[r] = "entered" /\ req[r].plan = Direct /\ Admissible(r)
  /\ sessions' = sessions \cup {r}
  /\ preparingReplacements' = LinkedReplacement(req[r].old, r)
  /\ ok' = ok \cup {r}
  /\ Goto(r, "finishing")
  /\ UNCHANGED <<now, req, subtitleJobs, generations, leases, inputs, retiring,
                 ttlVars, genVars, admitVars, replacements, preparingHandoffs,
                 preparingDeadline, ownerStopped, handoffVars, resolveVars,
                 lifecycleVars, otherVars>>

\* shareableGenerationLocked found a ready generation of the same job whose
\* retained range holds the position (RetainedRange models the range itself).
ShareGeneration(r, g) ==
  /\ pc[r] = "entered" /\ req[r].plan # Direct /\ Admissible(r)
  /\ g \in generations \cap ready /\ Job(g) = Job(r)
  /\ leases' = [leases EXCEPT ![g] = @ \cup {r}]
  /\ sessions' = sessions \cup {r}
  /\ genOf' = [genOf EXCEPT ![r] = g]
  /\ preparingReplacements' = LinkedReplacement(req[r].old, r)
  /\ inputExp' = [inputExp EXCEPT ![g] = IF g \in inputs THEN expires[r] ELSE @]
  /\ ok' = ok \cup {r}
  /\ Goto(r, "finishing")
  /\ UNCHANGED <<now, req, subtitleJobs, generations, inputs, retiring, expires, ready,
                 process, dirs, admitVars, replacements, preparingHandoffs,
                 preparingDeadline, ownerStopped, handoffVars, resolveVars,
                 lifecycleVars, otherVars>>

\* A create that replaces the only lease of a generation may use its slot.
GetsCredit(r) ==
  /\ OldGen(r) \in generations
  /\ Cardinality(leases[OldGen(r)]) = 1
  /\ replacements[OldGen(r)] = None
\* Mutant of Fits: the generation about to start is not counted.
FitsOffByOne(r) ==
  Cardinality(generations) + starting
    <= MaxGenerations + IF GetsCredit(r) THEN 1 ELSE 0

Fits(r) ==
  Cardinality(generations) + starting + 1
    <= MaxGenerations + IF GetsCredit(r) THEN 1 ELSE 0

Reserve(r) ==
  /\ pc[r] = "entered" /\ req[r].plan # Direct /\ Admissible(r)
  /\ Job(r) \notin pendingJobs
  /\ Fits(r)
  /\ replacements' = [g \in Requests |-> IF GetsCredit(r) /\ g = OldGen(r) THEN r
                                         ELSE replacements[g]]
  /\ starting' = starting + 1
  /\ pendingJobs' = pendingJobs \cup {Job(r)}
  /\ Goto(r, "reserved")
  /\ UNCHANGED <<now, req, ok, lifeVars, ttlVars, genVars, revokedViewers,
                 pendingViewers, prepVars, handoffVars, resolveVars, lifecycleVars,
                 otherVars>>

\* ErrSessionInvalid, ErrPreparing or ErrCapacity; or create failed before it looked
\* at any of them (no random token, no FFmpeg).
CreateRefused(r) ==
  /\ pc[r] = "entered"
  /\ \/ ~Admissible(r) \/ "fail" \in Ops
     \/ req[r].plan # Direct /\ (Job(r) \in pendingJobs \/ ~Fits(r))
  /\ Goto(r, "finishing")
  /\ UNCHANGED <<now, req, ok, lifeVars, ttlVars, genVars, admitVars, replacements,
                 prepVars, handoffVars, resolveVars, lifecycleVars, otherVars>>

\* The directory exists and the input tokens are installed before FFmpeg runs.
InstallInputs(r) ==
  /\ pc[r] = "reserved" /\ Admissible(r)
  /\ dirs' = dirs \cup {r}
  /\ inputs' = inputs \cup {r}
  /\ inputExp' = [inputExp EXCEPT ![r] = expires[r]]
  /\ Goto(r, "starting")
  /\ UNCHANGED <<now, req, ok, sessions, subtitleJobs, generations, leases, retiring,
                 expires, genOf, ready, process, admitVars, replacements, prepVars,
                 handoffVars, resolveVars, lifecycleVars, otherVars>>

\* Mkdir fails, or the viewer was revoked or the manager closed meanwhile.
InstallFails(r) ==
  /\ pc[r] = "reserved"
  /\ ~Admissible(r) \/ "fail" \in Ops
  /\ dirs' = IF Admissible(r) THEN dirs ELSE dirs \cup {r}
  /\ Goto(r, "aborting")
  /\ UNCHANGED <<now, req, ok, lifeVars, ttlVars, genOf, ready, process, admitVars,
                 replacements, prepVars, handoffVars, resolveVars, lifecycleVars,
                 otherVars>>

StartProcess(r) ==
  /\ pc[r] = "starting"
  /\ process' = [process EXCEPT ![r] = "running"]
  /\ Goto(r, "started")
  /\ UNCHANGED <<now, req, ok, lifeVars, ttlVars, genOf, ready, dirs, admitVars,
                 replacements, prepVars, handoffVars, resolveVars, lifecycleVars,
                 otherVars>>

\* StartContext fails: revokeInputs, then releaseReservation.
StartFails(r) ==
  /\ pc[r] = "starting" /\ "fail" \in Ops
  /\ inputs' = RevokedInputs(r)
  /\ Goto(r, "aborting")
  /\ UNCHANGED <<now, req, ok, sessions, subtitleJobs, generations, leases, retiring,
                 ttlVars, genVars, admitVars, replacements, prepVars, handoffVars,
                 resolveVars, lifecycleVars, otherVars>>

\* releaseReservation(true) and RemoveAll(dir).
Abort(r) ==
  /\ pc[r] = "aborting"
  /\ starting' = starting - 1
  /\ replacements' = CreditReleased(OldGen(r), r)
  /\ pendingJobs' = ReleasedJob(r)
  /\ dirs' = dirs \ {r}
  /\ Goto(r, "finishing")
  /\ UNCHANGED <<now, req, ok, lifeVars, ttlVars, genOf, ready, process, revokedViewers,
                 pendingViewers, prepVars, handoffVars, resolveVars, lifecycleVars,
                 otherVars>>

\* A handoff keeps its credit until it is resolved, every other operation
\* returns it on admission.
CreditAfterAdmission(r) ==
  IF req[r].op = "handoff" /\ Admissible(r) THEN replacements
  ELSE CreditReleased(OldGen(r), r)

Admit(r) ==
  /\ pc[r] = "started" /\ Admissible(r)
  /\ starting' = starting - 1
  /\ replacements' = CreditAfterAdmission(r)
  /\ generations' = generations \cup {r}
  /\ sessions' = sessions \cup {r}
  /\ leases' = [leases EXCEPT ![r] = {r}]
  /\ genOf' = [genOf EXCEPT ![r] = r]
  /\ ready' = IF ManifestWait = 0 THEN ready \cup {r} ELSE ready
  /\ preparingReplacements' = LinkedReplacement(req[r].old, r)
  /\ Goto(r, IF ManifestWait = 0 THEN "manifest" ELSE "waiting")
  /\ UNCHANGED <<now, req, ok, subtitleJobs, inputs, retiring, ttlVars, process, dirs,
                 revokedViewers, pendingViewers, pendingJobs, preparingHandoffs,
                 preparingDeadline, ownerStopped, handoffVars, resolveVars,
                 lifecycleVars, otherVars>>

\* Revoked or closed while FFmpeg started: the reservation goes at once, the
\* inputs and the process in the next steps.
AdmitRefused(r) ==
  /\ pc[r] = "started" /\ ~Admissible(r)
  /\ starting' = starting - 1
  /\ replacements' = CreditAfterAdmission(r)
  /\ pendingJobs' = ReleasedJob(r)
  /\ Goto(r, "discarding")
  /\ UNCHANGED <<now, req, ok, lifeVars, ttlVars, genVars, revokedViewers,
                 pendingViewers, prepVars, handoffVars, resolveVars, lifecycleVars,
                 otherVars>>

\* revokeInputs, then retireGeneration of the generation nobody else holds.
Discard(r) ==
  /\ pc[r] = "discarding"
  /\ inputs' = RevokedInputs(r)
  /\ retiring' = retiring \cup {r}
  /\ Goto(r, "retiring")
  /\ UNCHANGED <<now, req, ok, sessions, subtitleJobs, generations, leases, ttlVars,
                 genVars, admitVars, replacements, prepVars, handoffVars, resolveVars,
                 lifecycleVars, otherVars>>

Discarded(r) ==
  /\ pc[r] = "retiring" /\ r \notin retiring
  /\ Goto(r, "finishing")
  /\ UNCHANGED <<now, req, ok, lifeVars, ttlVars, genVars, admitVars, replacements,
                 prepVars, handoffVars, resolveVars, lifecycleVars, otherVars>>

\* waitForFile found the manifest.
ManifestWritten(r) ==
  /\ pc[r] = "waiting"
  /\ Goto(r, "manifest")
  /\ UNCHANGED <<now, req, ok, lifeVars, ttlVars, genVars, admitVars, replacements,
                 prepVars, handoffVars, resolveVars, lifecycleVars, otherVars>>

\* waitForFile timed out, or FFmpeg ended first: StopForViewer of the session.
ManifestFails(r) ==
  /\ pc[r] = "waiting"
  /\ "fail" \in Ops \/ process[r] # "running"
  /\ StopForViewer(r)
  /\ Goto(r, "abandoned")
  /\ UNCHANGED <<now, req, ok, ttlVars, genVars, admitVars, prepVars, handoffExp,
                 handoffGen, resolvedExp, attached, lifecycleVars, otherVars>>

Abandon(r) ==
  /\ pc[r] = "abandoned"
  /\ replacements' = CreditReleased(OldGen(r), r)
  /\ pendingJobs' = ReleasedJob(r)
  /\ preparingReplacements' = ClearedReplacement(r)
  /\ Goto(r, "finishing")
  /\ UNCHANGED <<now, req, ok, lifeVars, ttlVars, genVars, revokedViewers,
                 pendingViewers, starting, preparingHandoffs, preparingDeadline,
                 ownerStopped, handoffVars, resolveVars, lifecycleVars, otherVars>>

\* The last admission check: the session may have been stopped, swept or
\* revoked while the manifest was being written.
StillAdmitted(r) ==
  Admissible(r) /\ r \in generations /\ r \in sessions /\ genOf[r] = r

ConfirmAdmission(r) ==
  /\ pc[r] = "manifest"
  /\ pendingJobs' = ReleasedJob(r)
  /\ IF StillAdmitted(r)
     THEN ready' = ready \cup {r} /\ ok' = ok \cup {r} /\ Goto(r, "finishing")
     ELSE ready' = ready /\ ok' = ok /\ Goto(r, "rejected")
  /\ UNCHANGED <<now, req, lifeVars, ttlVars, genOf, process, dirs, revokedViewers,
                 pendingViewers, starting, replacements, prepVars, handoffVars,
                 resolveVars, lifecycleVars, otherVars>>

Reject(r) ==
  /\ pc[r] = "rejected"
  /\ StopForViewer(r)
  /\ Goto(r, "unlinking")
  /\ UNCHANGED <<now, req, ok, ttlVars, genVars, admitVars, prepVars, handoffExp,
                 handoffGen, resolvedExp, attached, lifecycleVars, otherVars>>

Unlink(r) ==
  /\ pc[r] = "unlinking"
  /\ replacements' = CreditReleased(OldGen(r), r)
  /\ preparingReplacements' = ClearedReplacement(r)
  /\ Goto(r, "finishing")
  /\ UNCHANGED <<now, req, ok, lifeVars, ttlVars, genVars, admitVars,
                 preparingHandoffs, preparingDeadline, ownerStopped, handoffVars,
                 resolveVars, lifecycleVars, otherVars>>

\* Mutant of LiftedFence: off by one, the fence stays.
FenceKept(v, remaining) ==
  IF remaining >= 0 THEN revokedViewers ELSE revokedViewers \ {v}

\* finishViewerCreate: the viewer's fence goes with its last create.
LiftedFence(v, remaining) ==
  IF remaining > 0 THEN revokedViewers ELSE revokedViewers \ {v}

\* finishViewerCreate, deferred by create: the last create of a revoked viewer
\* takes the fence down.
FinishViewerCreate(r) ==
  LET v == req[r].viewer
      remaining == pendingViewers[v] - 1
  IN
  /\ pc[r] = "finishing"
  /\ pendingViewers' = [pendingViewers EXCEPT ![v] = remaining]
  /\ revokedViewers' = LiftedFence(v, remaining)
  /\ Goto(r, IF r \in ok THEN "created" ELSE FailedLabel(r))
  /\ UNCHANGED <<now, req, ok, lifeVars, ttlVars, genVars, starting, pendingJobs,
                 replacements, prepVars, handoffVars, resolveVars, lifecycleVars,
                 otherVars>>

-----------------------------------------------------------------------------
(* The plan handler after create.                                          *)

\* BeginPlayback: compare and swap of the progress generation.
BeginPlayback(r) ==
  LET key == <<req[r].viewer, req[r].catalog>> IN
  /\ pc[r] = "created" /\ req[r].op = "plan"
  /\ progressGen[key] + 1 = req[r].progress
  /\ progressGen' = [progressGen EXCEPT ![key] = req[r].progress]
  /\ Goto(r, "accepted")
  /\ UNCHANGED <<now, req, ok, lifeVars, ttlVars, genVars, admitVars, replacements,
                 prepVars, handoffVars, resolveVars, lifecycleVars, stopQueue, doomed>>

\* Mutant of PlanDropped: a lost compare and swap is not answered.
PlanDroppedOnCancel(r) ==
  /\ pc[r] \in {"created", "accepted"} /\ req[r].op = "plan"
  /\ "cancel" \in Ops
  /\ StopForViewer(r)
  /\ ok' = ok \ {r}
  /\ Goto(r, "done")
  /\ UNCHANGED <<now, req, ttlVars, genVars, admitVars, prepVars, handoffExp,
                 handoffGen, resolvedExp, attached, lifecycleVars, otherVars>>

\* The compare and swap lost, the client left, or a later write failed:
\* Stop(session.ID), and the id is never disclosed.
PlanDropped(r) ==
  LET key == <<req[r].viewer, req[r].catalog>> IN
  /\ pc[r] \in {"created", "accepted"} /\ req[r].op = "plan"
  /\ \/ pc[r] = "created" /\ progressGen[key] + 1 # req[r].progress
     \/ "cancel" \in Ops
  /\ StopForViewer(r)
  /\ ok' = ok \ {r}
  /\ Goto(r, "done")
  /\ UNCHANGED <<now, req, ttlVars, genVars, admitVars, prepVars, handoffExp,
                 handoffGen, resolvedExp, attached, lifecycleVars, otherVars>>

\* Mutant of Superseded: the progress generations are not compared.
SupersededAny(r) ==
  {s \in sessions \ {r} :
     req[s].viewer = req[r].viewer /\ req[s].catalog = req[r].catalog}

Superseded(r) ==
  {s \in sessions \ {r} :
     /\ req[s].viewer = req[r].viewer /\ req[s].catalog = req[r].catalog
     /\ req[s].progress <= req[r].progress}

\* StopSupersededPlans lists the older sessions of the same viewer and title,
\* unlocks, and stops each in a critical section of its own before it answers.
StopSupersededPlans(r) ==
  /\ pc[r] = "accepted"
  /\ stopQueue' = [stopQueue EXCEPT ![r] = IF r \in sessions THEN Superseded(r) ELSE {}]
  /\ Goto(r, "superseding")
  /\ UNCHANGED <<now, req, ok, lifeVars, ttlVars, genVars, admitVars, replacements,
                 prepVars, handoffVars, resolveVars, lifecycleVars, progressGen, doomed>>

PlanAnswered(r) ==
  /\ pc[r] = "superseding" /\ stopQueue[r] = {}
  /\ Goto(r, "done")
  /\ UNCHANGED <<now, req, ok, lifeVars, ttlVars, genVars, admitVars, replacements,
                 prepVars, handoffVars, resolveVars, lifecycleVars, otherVars>>

\* A manual watched or start-over action advances the progress generation.
SetWatched(key) ==
  /\ "watched" \in Ops /\ progressGen[key] < Cardinality(Requests)
  /\ progressGen' = [progressGen EXCEPT ![key] = @ + 1]
  /\ UNCHANGED <<now, clientVars, lifeVars, ttlVars, genVars, admitVars, replacements,
                 prepVars, handoffVars, resolveVars, lifecycleVars, stopQueue, doomed>>

-----------------------------------------------------------------------------
(* Seek, Replace and the quality handoff.                                  *)

Replacing(r, s, op, p) ==
  req' = [req EXCEPT ![r] = [req[s] EXCEPT !.op = op, !.old = s, !.plan = p]]

\* A seek inside the retained range moves the session's lease only.
SeekRetained(s) ==
  /\ "seek" \in Ops /\ Known(s) /\ s \in sessions
  /\ genOf[s] \in generations \cap ready /\ ~ControlBlocked(s) /\ CommitAccepted(s)
  /\ expires' = [expires EXCEPT ![s] = now + LeaseTTL]
  /\ UNCHANGED <<now, clientVars, lifeVars, inputExp, genVars, admitVars, replacements,
                 prepVars, handoffVars, resolveVars, lifecycleVars, otherVars>>

\* A seek outside it prepares a replacement.  The handler has checked that the
\* session still owns the progress and holds the progress lock of the profile
\* and title for the whole operation.
Seek(r, s) ==
  /\ "seek" \in Ops /\ pc[r] = "idle" /\ Known(s) /\ s \in sessions
  /\ genOf[s] # None /\ ~ControlBlocked(s) /\ CommitAccepted(s)
  /\ ~\E q \in Requests : /\ req[q].op = "seek" /\ InFlight(q)
                          /\ req[q].viewer = req[s].viewer
                          /\ req[q].catalog = req[s].catalog
  /\ Replacing(r, s, "seek", req[s].plan)
  /\ Goto(r, "issued")
  /\ UNCHANGED <<now, ok, lifeVars, ttlVars, genVars, admitVars, replacements,
                 prepVars, handoffVars, resolveVars, lifecycleVars, otherVars>>

CandidateValid(r) == r \in sessions
OldValid(r) == req[r].old \in sessions /\ ~Expired(req[r].old)
\* The owner stopped the predecessor while its replacement was prepared.
OwnerStoppedOld(r) ==
  preparingReplacements[r] # None
    /\ ownerStopped[preparingReplacements[r]] = req[r].old

SeekPromoted(r) ==
  /\ pc[r] = "created" /\ req[r].op = "seek"
  /\ OwnerStoppedOld(r) /\ CandidateValid(r) /\ ~Revoked(req[r].viewer)
  /\ CommitAccepted(r)
  /\ preparingReplacements' = ClearedReplacement(r)
  /\ Goto(r, "done")
  /\ UNCHANGED <<now, req, ok, lifeVars, ttlVars, genVars, admitVars, replacements,
                 preparingHandoffs, preparingDeadline, ownerStopped, handoffVars,
                 resolveVars, lifecycleVars, otherVars>>

SeekSwapped(r) ==
  /\ pc[r] = "created" /\ req[r].op = "seek"
  /\ ~OwnerStoppedOld(r) /\ CandidateValid(r) /\ OldValid(r)
  /\ ~Revoked(req[r].viewer) /\ CommitAccepted(r)
  /\ preparingReplacements' = ClearedReplacement(r)
  /\ StopSessions({req[r].old}, replacements)
  /\ Goto(r, "done")
  /\ UNCHANGED <<now, req, ok, ttlVars, genVars, admitVars, preparingHandoffs,
                 preparingDeadline, ownerStopped, handoffVars, resolveVars,
                 lifecycleVars, otherVars>>

\* Cancelled, commit failed, or one of the two sessions is gone.
SeekDropped(r) ==
  /\ pc[r] = "created" /\ req[r].op = "seek"
  /\ \/ "cancel" \in Ops
     \/ ~CandidateValid(r) \/ Revoked(req[r].viewer) \/ ~CommitAccepted(r)
     \/ (~OwnerStoppedOld(r) /\ ~OldValid(r))
  /\ preparingReplacements' = ClearedReplacement(r)
  /\ Goto(r, "dropping")
  /\ UNCHANGED <<now, req, ok, lifeVars, ttlVars, genVars, admitVars, replacements,
                 preparingHandoffs, preparingDeadline, ownerStopped, handoffVars,
                 resolveVars, lifecycleVars, otherVars>>

\* StopForViewer(replacement.ID) of an operation that gives its candidate up.
DropCandidate(r) ==
  /\ pc[r] = "dropping"
  /\ StopForViewer(r)
  /\ IF req[r].op = "seek" THEN Goto(r, "done") /\ ok' = ok \ {r}
     ELSE Goto(r, "cleanupFailed") /\ ok' = ok
  /\ UNCHANGED <<now, req, ttlVars, genVars, admitVars, prepVars, handoffExp,
                 handoffGen, resolvedExp, attached, lifecycleVars, otherVars>>

\* ReplaceContextWithCommit and PrepareHandoffContextWithCommit commit the
\* position first and reserve their source until the preparation deadline.
ReserveSource(r, s, op, p) ==
  LET deadline == now + LeaseTTL + ManifestWait IN
  /\ pc[r] = "idle" /\ Known(s) /\ s \in sessions /\ ~Expired(s)
  /\ CommitAccepted(s)
  /\ Replacing(r, s, op, p)
  /\ IF expires[s] < deadline
     THEN /\ expires' = [expires EXCEPT ![s] = deadline]
          /\ inputExp' = RenewedInputs({s}, deadline)
     ELSE UNCHANGED ttlVars
  /\ preparingHandoffs' = preparingHandoffs \cup {s}
  /\ preparingDeadline' = [preparingDeadline EXCEPT ![s] = deadline]
  /\ Goto(r, "issued")
  /\ UNCHANGED <<now, ok, lifeVars, genVars, admitVars, replacements,
                 preparingReplacements, ownerStopped, handoffVars, resolveVars,
                 lifecycleVars, otherVars>>

Replace(r, s, p) ==
  /\ "replace" \in Ops /\ ~ControlBlocked(s)
  /\ ReserveSource(r, s, "replace", p)

PrepareHandoff(r, s, p) ==
  LET mine == {h \in handoffs : req[h].viewer = req[s].viewer}
      preparing == {q \in preparingHandoffs \cap sessions :
                      req[q].viewer = req[s].viewer}
  IN
  /\ "handoff" \in Ops
  /\ s \notin preparingHandoffs /\ sessionHandoffs[s] = None
  /\ Cardinality(handoffs) + Cardinality(preparingHandoffs) < MaxPendingHandoffs
  /\ Cardinality(mine) + Cardinality(preparing) < MaxHandoffsPerViewer
  /\ ReserveSource(r, s, "handoff", p)

\* The replacement takes over, whether or not the owner stopped the source.
\* oldValid has no expiry test in Replace.
ReplaceSwapped(r) ==
  LET old == req[r].old IN
  /\ pc[r] = "created" /\ req[r].op = "replace" /\ CandidateValid(r)
  /\ OwnerStoppedOld(r) \/ old \in sessions
  /\ preparingReplacements' = ClearedReplacement(r)
  /\ IF OwnerStoppedOld(r)
     THEN UNCHANGED <<preparingHandoffs, lifeVars, replacements>>
     ELSE /\ preparingHandoffs' = preparingHandoffs \ {old}
          /\ StopSessions({old}, replacements)
  /\ Goto(r, "cleanupAccepted")
  /\ UNCHANGED <<now, req, ok, ttlVars, genVars, admitVars, preparingDeadline,
                 ownerStopped, handoffVars, resolveVars, lifecycleVars, otherVars>>

HandoffActivated(r) ==
  LET old == req[r].old
      deadline == now + LeaseTTL
  IN
  /\ pc[r] = "created" /\ req[r].op = "handoff"
  /\ ~OwnerStoppedOld(r) /\ CandidateValid(r) /\ OldValid(r)
  /\ sessionHandoffs[old] = None /\ ~Revoked(req[r].viewer)
  /\ expires' = [expires EXCEPT ![old] = deadline, ![r] = deadline]
  /\ inputExp' = RenewedInputs({old, r}, deadline)
  /\ handoffs' = handoffs \cup {r}
  /\ handoffExp' = [handoffExp EXCEPT ![r] = deadline]
  /\ handoffGen' = [handoffGen EXCEPT ![r] =
       IF genOf[old] # None /\ replacements[genOf[old]] = r THEN genOf[old] ELSE None]
  /\ sessionHandoffs' = [sessionHandoffs EXCEPT ![old] = r, ![r] = r]
  /\ preparingReplacements' = ClearedReplacement(r)
  /\ Goto(r, "cleanupAccepted")
  /\ UNCHANGED <<now, req, ok, lifeVars, genVars, admitVars, replacements,
                 preparingHandoffs, preparingDeadline, ownerStopped, resolveVars,
                 lifecycleVars, otherVars>>

\* The owner stopped the source: the candidate is attached at once.
HandoffPromoted(r) ==
  /\ pc[r] = "created" /\ req[r].op = "handoff"
  /\ OwnerStoppedOld(r) /\ CandidateValid(r) /\ ~Revoked(req[r].viewer)
  /\ preparingHandoffs' = preparingHandoffs \ {req[r].old}
  /\ preparingReplacements' = ClearedReplacement(r)
  /\ resolvedHandoffs' = resolvedHandoffs \cup {r}
  /\ resolvedExp' = [resolvedExp EXCEPT ![r] = expires[r]]
  /\ attached' = attached \cup {r}
  /\ Goto(r, "cleanupAccepted")
  /\ UNCHANGED <<now, req, ok, lifeVars, ttlVars, genVars, admitVars, replacements,
                 preparingDeadline, ownerStopped, handoffVars, lifecycleVars, otherVars>>

\* Cancelled or invalid: the candidate is stopped, then the deferred cleanup.
ReplacementDropped(r) ==
  /\ pc[r] = "created" /\ req[r].op \in {"replace", "handoff"}
  /\ \/ "cancel" \in Ops
     \/ ~CandidateValid(r)
     \/ req[r].op = "replace" /\ ~OwnerStoppedOld(r) /\ req[r].old \notin sessions
     \/ req[r].op = "handoff" /\ Revoked(req[r].viewer)
     \/ /\ req[r].op = "handoff" /\ ~OwnerStoppedOld(r)
        /\ ~OldValid(r) \/ sessionHandoffs[req[r].old] # None
  /\ Goto(r, "dropping")
  /\ UNCHANGED <<now, req, ok, lifeVars, ttlVars, genVars, admitVars, replacements,
                 prepVars, handoffVars, resolveVars, lifecycleVars, otherVars>>

\* The deferred cleanup of Replace and PrepareHandoff.  Replace clears the
\* record under the source, PrepareHandoff the one of its own candidate.
Cleanup(r) ==
  LET old == req[r].old
      failed == pc[r] = "cleanupFailed"
      handoff == req[r].op = "handoff"
  IN
  /\ pc[r] \in {"cleanupAccepted", "cleanupFailed"}
  /\ preparingHandoffs' = preparingHandoffs \ {old}
  /\ preparingReplacements' =
       IF handoff /\ r \notin ok THEN preparingReplacements
       ELSE ClearedReplacement(IF handoff THEN r ELSE old)
  /\ replacements' = IF handoff /\ failed /\ r \in ok
                     THEN CreditReleased(OldGen(r), r) ELSE replacements
  /\ IF failed THEN Extend({old}) ELSE UNCHANGED ttlVars
  /\ ok' = IF failed THEN ok \ {r} ELSE ok
  /\ Goto(r, "done")
  /\ UNCHANGED <<now, req, lifeVars, genVars, admitVars, preparingDeadline,
                 ownerStopped, handoffVars, resolveVars, lifecycleVars, otherVars>>

\* ResolveHandoff: an answer after the deadline restores the predecessor.
ResolveHandoff(h, isAttached) ==
  /\ "handoff" \in Ops /\ Known(h) /\ h \in handoffs
  /\ Resolve({h}, isAttached /\ now < handoffExp[h])
  /\ UNCHANGED <<now, clientVars, genVars, admitVars, prepVars, handoffExp, handoffGen,
                 lifecycleVars, otherVars>>

\* expireHandoffForSession, the first critical section of every lookup and
\* heartbeat: what follows it finds no expired handoff of the session.
ExpireHandoff(s) ==
  /\ Known(s) /\ HandoffExpired(s)
  /\ Resolve({sessionHandoffs[s]}, FALSE)
  /\ UNCHANGED <<now, clientVars, genVars, admitVars, prepVars, handoffExp, handoffGen,
                 lifecycleVars, otherVars>>

-----------------------------------------------------------------------------
(* Renewal, subtitle work, stop.                                           *)

\* The new deadline: now + TTL, clamped by a handoff, replaced by the
\* preparation deadline.
RenewedExpiry(s) ==
  LET plain == now + TTL(s)
      h == sessionHandoffs[s]
  IN IF s \in preparingHandoffs THEN preparingDeadline[s]
     ELSE IF h \in handoffs /\ plain > handoffExp[h] THEN handoffExp[h]
     ELSE plain

Renew(s) ==
  /\ expires' = [expires EXCEPT ![s] = RenewedExpiry(s)]
  /\ inputExp' = RenewedInputs({s}, RenewedExpiry(s))
  /\ UNCHANGED <<now, clientVars, lifeVars, genVars, admitVars, replacements, prepVars,
                 handoffVars, resolveVars, lifecycleVars, otherVars>>

\* LookupForViewer with touch: every media and segment request.
Lookup(s) ==
  /\ "touch" \in Ops /\ Known(s) /\ s \in sessions
  /\ ~HandoffExpired(s) /\ ~Expired(s)
  /\ Renew(s)

\* A lookup of a session past its lease stops it.
LookupExpired(s) ==
  /\ "touch" \in Ops /\ Known(s) /\ s \in sessions
  /\ ~HandoffExpired(s) /\ Expired(s)
  /\ StopForViewer(s)
  /\ UNCHANGED <<now, clientVars, ttlVars, genVars, admitVars, prepVars, handoffExp,
                 handoffGen, resolvedExp, attached, lifecycleVars, otherVars>>

\* HeartbeatForViewer: the candidate of a handoff has no playback authority.
Heartbeat(s) ==
  /\ "touch" \in Ops /\ Known(s) /\ s \in sessions
  /\ ~HandoffExpired(s) /\ ~Expired(s)
  /\ ~(sessionHandoffs[s] \in handoffs /\ sessionHandoffs[s] = s)
  /\ CommitAccepted(s)
  /\ Renew(s)

\* InputFile: FFmpeg opens its source; a token past its lease goes.  (A token
\* in time is only read.)
InputFile(g) ==
  /\ "touch" \in Ops /\ g \in inputs /\ now >= inputExp[g]
  /\ inputs' = inputs \ {g}
  /\ UNCHANGED <<now, clientVars, sessions, subtitleJobs, generations, leases, retiring,
                 ttlVars, genVars, admitVars, replacements, prepVars, handoffVars,
                 resolveVars, lifecycleVars, otherVars>>

SubtitleStart(s) ==
  /\ "subtitle" \in Ops /\ Known(s) /\ s \in sessions /\ ~Expired(s)
  /\ subtitleJobs' = subtitleJobs \cup {s}
  /\ UNCHANGED <<now, clientVars, sessions, generations, leases, inputs, retiring,
                 ttlVars, genVars, admitVars, replacements, prepVars, handoffVars,
                 resolveVars, lifecycleVars, otherVars>>

SubtitleRelease(s) ==
  /\ s \in subtitleJobs
  /\ subtitleJobs' = subtitleJobs \ {s}
  /\ UNCHANGED <<now, clientVars, sessions, generations, leases, inputs, retiring,
                 ttlVars, genVars, admitVars, replacements, prepVars, handoffVars,
                 resolveVars, lifecycleVars, otherVars>>

\* The viewer's stop request, for any id it was ever given.
Stop(s) ==
  /\ "stop" \in Ops /\ Known(s)
  /\ StopForViewer(s)
  /\ UNCHANGED <<now, clientVars, ttlVars, genVars, admitVars, prepVars, handoffExp,
                 handoffGen, resolvedExp, attached, lifecycleVars, otherVars>>

\* StopViewer: fence the creates in flight, revoke their input tokens, list the
\* sessions; each is stopped in a critical section of its own.
PendingInputs(v) ==
  {r \in inputs : pc[r] \in {"starting", "started", "discarding"}
                  /\ req[r].viewer = v}
StopViewer(v) ==
  /\ "viewer" \in Ops
  /\ revokedViewers' = IF pendingViewers[v] > 0 THEN revokedViewers \cup {v}
                       ELSE revokedViewers
  /\ inputs' = inputs \ PendingInputs(v)
  /\ stopQueue' = [stopQueue EXCEPT ![v] = @ \cup {s \in sessions : req[s].viewer = v}]
  /\ doomed' = doomed \cup {r \in Requests : InCreate(r) /\ req[r].viewer = v}
  /\ UNCHANGED <<now, clientVars, sessions, subtitleJobs, generations, leases, retiring,
                 ttlVars, genVars, pendingViewers, starting, pendingJobs, replacements,
                 prepVars, handoffVars, resolveVars, lifecycleVars, progressGen>>

\* The next session of StopSupersededPlans or StopViewer (k) is stopped.
StopQueued(k, s) ==
  /\ s \in stopQueue[k]
  /\ StopForViewer(s)
  /\ stopQueue' = [stopQueue EXCEPT ![k] = @ \ {s}]
  /\ UNCHANGED <<now, clientVars, ttlVars, genVars, admitVars, prepVars, handoffExp,
                 handoffGen, resolvedExp, attached, lifecycleVars, progressGen, doomed>>

\* StopCatalogIDs: an owner edited the media versions of a title.
StopCatalog(c) ==
  /\ "catalog" \in Ops
  /\ StopSessions({s \in sessions : req[s].catalog = c}, replacements)
  /\ UNCHANGED <<now, clientVars, ttlVars, genVars, admitVars, prepVars, handoffVars,
                 resolveVars, lifecycleVars, otherVars>>

\* StopOwnerSession: exactly the selected session; a preparation or handoff it
\* takes part in ends, and its partner survives with a fresh lease.
StopOwnerSession(s) ==
  LET record == preparingReplacements[s]
      inPreparation == IF record = None THEN {} ELSE {req[record].old, record}
      H == {h \in handoffs : sessionHandoffs[s] = h}
      survivors == (inPreparation \cup UNION {Pair(h) : h \in H}) \ {s}
      lent == {g \in Requests : /\ record # None /\ req[record].old \in sessions
                                /\ genOf[req[record].old] = g
                                /\ replacements[g] = record}
  IN
  /\ "owner" \in Ops /\ s \in sessions /\ ~Expired(s)
  /\ ownerStopped' = IF record = None THEN ownerStopped
                     ELSE [ownerStopped EXCEPT ![record] = s]
  /\ preparingHandoffs' =
       preparingHandoffs \ {IF record = None THEN s ELSE req[record].old}
  /\ Extend(survivors)
  /\ DropHandoffs(H)
  /\ resolvedHandoffs' = {h \in resolvedHandoffs : s \notin Pair(h)}
  /\ StopSessions({s}, [g \in Requests |-> IF g \in lent THEN None
                                           ELSE CreditsWithout(H)[g]])
  /\ UNCHANGED <<now, clientVars, genVars, admitVars, preparingDeadline,
                 preparingReplacements, handoffExp, handoffGen, resolvedExp, attached,
                 lifecycleVars, otherVars>>

-----------------------------------------------------------------------------
(* Processes, the janitor, the shutdown.                                   *)

\* FFmpeg ends by itself or because it was signalled (waitGeneration).
ProcessExit(g) ==
  /\ process[g] = "killed" \/ (process[g] = "running" /\ "exit" \in Ops)
  /\ process' = [process EXCEPT ![g] = "exited"]
  /\ UNCHANGED <<now, clientVars, lifeVars, ttlVars, genOf, ready, dirs, admitVars,
                 replacements, prepVars, handoffVars, resolveVars, lifecycleVars,
                 otherVars>>

\* Mutant of Retire: the process is not signalled.
RetireLeavesProcess(g) ==
  /\ g \in retiring
  /\ dirs' = dirs \ {g}
  /\ retiring' = retiring \ {g}
  /\ UNCHANGED <<now, clientVars, sessions, subtitleJobs, generations, leases, inputs,
                 ttlVars, genOf, ready, process, admitVars, replacements, prepVars, handoffVars,
                 resolveVars, lifecycleVars, otherVars>>

\* retireGeneration: interrupt, wait for the grace period, kill, wait again,
\* and remove the directory whether or not the process has been reaped.
Retire(g) ==
  /\ g \in retiring
  /\ process' = [process EXCEPT ![g] = IF @ = "running" THEN "killed" ELSE @]
  /\ dirs' = dirs \ {g}
  /\ retiring' = retiring \ {g}
  /\ UNCHANGED <<now, clientVars, sessions, subtitleJobs, generations, leases, inputs,
                 ttlVars, genOf, ready, admitVars, replacements, prepVars, handoffVars,
                 resolveVars, lifecycleVars, otherVars>>

\* Mutant of Overdue: a deadline that has just been reached does not count.
OverdueStrict ==
  {h \in handoffs : now > handoffExp[h]}

Overdue == {h \in handoffs : now >= handoffExp[h]}

\* Mutant of Late: the expiry is read before the handoffs are resolved.
LateFromSnapshot(kept, H) ==
  {s \in sessions : Expired(s)}

\* The sessions past their lease, once expired handoffs have been resolved: the
\* predecessor of such a handoff has just been renewed, its candidate is gone.
Late(kept, H) == {s \in sessions \ (kept \cup H) : Expired(s)}

\* Sweep, first critical section: expired handoffs restore their predecessor,
\* then expired sessions and inputs go.  A generation that loses its last
\* lease here stays shareable until the second critical section.
SweepExpire ==
  LET H == Overdue
      kept == {req[h].old : h \in H} \cap sessions
      late == Late(kept, H)
      gone == Emptied(H)
      expiry == [h \in Requests |-> IF h \in H THEN now + LeaseTTL ELSE resolvedExp[h]]
      leaving(g) == {s \in leases[g] : s \in sessions \cap (H \cup late) /\ genOf[s] = g}
  IN
  /\ "sweep" \in Ops /\ sweep = "idle"
  /\ DropHandoffs(H)
  /\ Extend(kept)
  /\ sessions' = sessions \ (H \cup late)
  /\ subtitleJobs' = CancelledJobs(sessions \cap (H \cup late))
  /\ leases' = [g \in Requests |->
                  IF g \in generations THEN leases[g] \ leaving(g) ELSE leases[g]]
  /\ generations' = generations \ gone
  /\ inputs' = {g \in inputs \ gone : now < inputExp'[g]}
  /\ retiring' = retiring \cup gone
  /\ replacements' = [g \in Requests |-> IF g \in gone THEN None
                                         ELSE CreditsWithout(H)[g]]
  /\ attached' = attached \ H
  /\ resolvedExp' = expiry
  /\ resolvedHandoffs' \in Pruned(resolvedHandoffs \cup H, expiry)
  /\ snapshot' = generations \ gone
  /\ sweep' = "measuring"
  /\ UNCHANGED <<now, clientVars, genVars, admitVars, prepVars, handoffExp, handoffGen,
                 closed, shutdown, shutGens, otherVars>>

\* Mutant of Reclaimable: a generation without a lease is not collected.
NothingReclaimed(bad) ==
  snapshot \cap generations \cap bad

Reclaimable(bad) == {g \in snapshot \cap generations : leases[g] = {} \/ g \in bad}

\* Second critical section, after the directories were measured: generations
\* that still have no lease, that could not be measured or that outgrew their
\* budget are detached; one detached meanwhile is skipped.
SweepReclaim(bad) ==
  LET D == Reclaimable(bad) IN
  /\ sweep = "measuring"
  /\ bad = {} \/ "budget" \in Ops
  /\ Detach(D)
  /\ leases' = leases
  /\ retiring' = retiring \cup D
  /\ snapshot' = D
  /\ sweep' = "retiring"
  /\ UNCHANGED <<now, clientVars, ttlVars, genVars, admitVars, prepVars, handoffVars,
                 resolveVars, closed, shutdown, shutGens, otherVars>>

\* The janitor retires what it detached before the next tick.
SweepDone ==
  /\ sweep = "retiring" /\ snapshot \cap retiring = {}
  /\ snapshot' = {} /\ sweep' = "idle"
  /\ UNCHANGED <<now, clientVars, lifeVars, ttlVars, genVars, admitVars, replacements,
                 prepVars, handoffVars, resolveVars, closed, shutdown, shutGens,
                 otherVars>>

JanitorStops ==
  /\ closed /\ sweep = "idle"
  /\ sweep' = "stopped"
  /\ UNCHANGED <<now, clientVars, lifeVars, ttlVars, genVars, admitVars, replacements,
                 prepVars, handoffVars, resolveVars, closed, shutdown, shutGens,
                 snapshot, otherVars>>

\* Shutdown, first critical section.
Shutdown ==
  /\ "shutdown" \in Ops /\ ~closed
  /\ closed' = TRUE /\ shutdown' = "starts"
  /\ shutGens' = generations
  /\ generations' = {} /\ sessions' = {} /\ inputs' = {}
  /\ subtitleJobs' = CancelledJobs(sessions)
  /\ replacements' = [g \in Requests |-> IF g \in generations THEN None
                                         ELSE replacements[g]]
  /\ UNCHANGED <<now, clientVars, leases, retiring, ttlVars, genVars, admitVars,
                 prepVars, handoffVars, resolveVars, sweep, snapshot, otherVars>>

ShutdownMoves(from, to, retire) ==
  /\ shutdown = from /\ shutdown' = to
  /\ retiring' = IF retire THEN retiring \cup shutGens ELSE retiring
  /\ UNCHANGED <<now, clientVars, sessions, subtitleJobs, generations, leases, inputs,
                 ttlVars, genVars, admitVars, replacements, prepVars, handoffVars,
                 resolveVars, closed, shutGens, sweep, snapshot, otherVars>>

\* The creates in flight have returned (startWG).
ShutdownStartsDone ==
  /\ \A r \in Requests : pc[r] \notin StartWGPcs
  /\ ShutdownMoves("starts", "janitor", FALSE)
\* The context ends first: the detached generations are still retired.
ShutdownStartsTimeout == "deadline" \in Ops /\ ShutdownMoves("starts", "failed", TRUE)
ShutdownJanitorDone == sweep = "stopped" /\ ShutdownMoves("janitor", "retire", TRUE)
\* The context ends while the janitor is still sweeping: an early return.
ShutdownJanitorTimeout == "deadline" \in Ops /\ ShutdownMoves("janitor", "failed", FALSE)
ShutdownDone ==
  /\ shutGens \cap retiring = {}
  /\ ShutdownMoves("retire", "done", FALSE)

Tick ==
  /\ now < MaxTime
  /\ now' = now + 1
  /\ UNCHANGED <<clientVars, lifeVars, ttlVars, genVars, admitVars, replacements,
                 prepVars, handoffVars, resolveVars, lifecycleVars, otherVars>>

-----------------------------------------------------------------------------
CreateStep(r) ==
  \/ Enter(r) \/ EnterRefused(r) \/ CreateDirect(r) \/ Reserve(r) \/ CreateRefused(r)
  \/ \E g \in Requests : ShareGeneration(r, g)
  \/ InstallInputs(r) \/ InstallFails(r) \/ StartProcess(r) \/ StartFails(r)
  \/ Abort(r) \/ Admit(r) \/ AdmitRefused(r) \/ Discard(r) \/ Discarded(r)
  \/ ManifestWritten(r) \/ ManifestFails(r) \/ Abandon(r) \/ ConfirmAdmission(r)
  \/ Reject(r) \/ Unlink(r) \/ FinishViewerCreate(r)

OperationStep(r) ==
  \/ BeginPlayback(r) \/ PlanDropped(r) \/ StopSupersededPlans(r) \/ PlanAnswered(r)
  \/ SeekPromoted(r) \/ SeekSwapped(r) \/ SeekDropped(r) \/ DropCandidate(r)
  \/ ReplaceSwapped(r) \/ HandoffActivated(r) \/ HandoffPromoted(r)
  \/ ReplacementDropped(r) \/ Cleanup(r)

Issue(r) ==
  \/ \E v \in Viewers, c \in Catalogs, p \in Plans \cup {Direct} : Plan(r, v, c, p)
  \/ \E s \in Requests : Seek(r, s)
  \/ \E s \in Requests, p \in Plans \cup {Direct} : Replace(r, s, p)
  \/ \E s \in Requests, p \in Plans \cup {Direct} : PrepareHandoff(r, s, p)

SessionStep(s) ==
  \/ SeekRetained(s) \/ ResolveHandoff(s, TRUE) \/ ResolveHandoff(s, FALSE)
  \/ ExpireHandoff(s) \/ Lookup(s) \/ LookupExpired(s) \/ Heartbeat(s)
  \/ InputFile(s) \/ SubtitleStart(s) \/ SubtitleRelease(s) \/ Stop(s)
  \/ \E k \in Requests \cup Viewers : StopQueued(k, s)
  \/ StopOwnerSession(s)

JanitorStep ==
  SweepExpire \/ (\E bad \in SUBSET snapshot : SweepReclaim(bad)) \/ SweepDone
    \/ JanitorStops
ShutdownStep ==
  ShutdownStartsDone \/ ShutdownStartsTimeout \/ ShutdownJanitorDone
    \/ ShutdownJanitorTimeout \/ ShutdownDone

Next ==
  \/ \E r \in Requests : Issue(r) \/ CreateStep(r) \/ OperationStep(r)
                           \/ SessionStep(r) \/ ProcessExit(r) \/ Retire(r)
  \/ \E v \in Viewers : StopViewer(v)
  \/ \E c \in Catalogs : StopCatalog(c)
  \/ \E k \in Viewers \X Catalogs : SetWatched(k)
  \/ JanitorStep \/ Shutdown \/ ShutdownStep \/ Tick

Spec == Init /\ [][Next]_vars

\* Fairness: a goroutine that can run does (the lock is fair enough for each
\* critical section to be entered), a killed process is reaped, the clock and
\* the janitor's ticker go on, and a select that finds the context cancelled
\* again and again does not always prefer the ticker.  Clients owe nothing.
Fairness ==
  /\ \A r \in Requests : /\ WF_vars(CreateStep(r) \/ OperationStep(r))
                         /\ WF_vars(Retire(r))
                         /\ WF_vars(process[r] = "killed" /\ ProcessExit(r))
  /\ \A k \in Requests \cup Viewers, s \in Requests : WF_vars(StopQueued(k, s))
  /\ WF_vars(JanitorStep) /\ SF_vars(JanitorStops)
  /\ WF_vars(ShutdownStep) /\ WF_vars(Tick)
FairSpec == Spec /\ Fairness
=============================================================================
