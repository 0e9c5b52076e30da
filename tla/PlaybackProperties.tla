------------------------- MODULE PlaybackProperties -------------------------
(***************************************************************************)
(* What makes the playback manager correct: no session without its stream  *)
(* and no stream without its sessions, exact accounting of reservations,   *)
(* credits and fences, controls that are never blocked for good, processes *)
(* and directories that always have an owner, and operations that finish.  *)
(***************************************************************************)
EXTENDS PlaybackManager

\* Every session that plays from a generation holds a lease on a generation
\* that is still admitted: nobody may detach a generation under a live session
\* (stopSessionLocked, detachGenerationLocked, Sweep, Shutdown).
SessionHasGeneration ==
  \A s \in sessions : genOf[s] # None =>
    genOf[s] \in generations /\ s \in leases[genOf[s]]

\* Every lease belongs to a live session, so a generation whose viewers are all
\* gone is reclaimed by the next stop or sweep instead of running for ever.
LeaseHasSession ==
  \A g \in generations : \A s \in leases[g] : s \in sessions /\ genOf[s] = g

\* Sessions and leases are two views of one relation, whoever joins, stops,
\* swaps, sweeps or shuts down, in whatever order.
LeaseConsistency == SessionHasGeneration /\ LeaseHasSession

\* Where an operation's id may be in the maps: after create admitted it.
AdmittedPcs == PCs \ {"idle", "issued", "entered", "reserved", "starting", "started",
                      "aborting", "discarding", "retiring"}

\* The inductive form: an id is in the maps only once create has admitted it, so
\* that admission never overwrites a lease, and has no generation before.
LeaseInv ==
  /\ LeaseConsistency
  /\ \A x \in sessions \cup generations : pc[x] \in AdmittedPcs
  /\ \A r \in Requests : pc[r] \notin AdmittedPcs => genOf[r] = None

\* m.starting and m.pendingJobs account exactly for the creates between
\* reservation and admission, on every error path; a leaked reservation would
\* consume a generation slot, a leaked job key would answer "preparing" for
\* ever.
ReservationsBalanced ==
  /\ starting = Cardinality({r \in Requests : pc[r] \in ReservedPcs})
  /\ pendingJobs = {Job(r) : r \in {x \in Requests : pc[x] \in PendingJobPcs}}
  /\ \A q, r \in Requests :
       pc[q] \in PendingJobPcs /\ pc[r] \in PendingJobPcs /\ Job(q) = Job(r) => q = r

\* Replacement credits let the admitted and starting generations exceed the
\* configured limit by one at most, whatever operations overlap.
CapacityBound == Cardinality(generations) + starting <= MaxGenerations + 1

\* A replacement credit belongs to a running operation on a session of that
\* generation, or to an active handoff: a leaked credit would let nobody
\* replace that generation again.
CreditsOwned ==
  \A g \in Requests : replacements[g] # None =>
    LET r == replacements[g] IN
    /\ g \in generations /\ OldGen(r) = g
    /\ \/ InFlight(r)
       \/ r \in handoffs /\ handoffGen[r] = g

\* m.handoffs and m.sessionHandoffs describe the same pairs.
HandoffsPaired ==
  \A s \in Requests :
    /\ sessionHandoffs[s] # None =>
         sessionHandoffs[s] \in handoffs /\ s \in Pair(sessionHandoffs[s])
    /\ s \in handoffs => \A x \in Pair(s) : sessionHandoffs[x] = s

\* Replacements and handoffs leave nothing behind in the credit and handoff maps.
ReplacementsAccounted == CreditsOwned /\ HandoffsPaired

\* A live session answers "preparing" only while some operation on it runs or
\* an unresolved handoff has it: its controls are never blocked for good.
ControlsReturn ==
  \A s \in sessions : ControlBlocked(s) =>
    \/ sessionHandoffs[s] \in handoffs
    \/ \E r \in Requests : InFlight(r) /\ s \in Pair(r)

\* An input token opens the source file only for an admitted generation or for
\* a create that is still starting FFmpeg.
InputsOwned ==
  \A g \in inputs : g \in generations \/ pc[g] \in {"starting", "started", "discarding"}

\* Who will retire a generation: the maps, a goroutine that is retiring it, the
\* shutdown that detached it, or the create that is starting it.
Owned(g) ==
  \/ g \in generations \cup retiring
  \/ g \in shutGens /\ shutdown # "done"
  \/ pc[g] \in {"starting", "started", "aborting", "discarding"}

\* Every running FFmpeg process has somebody who will stop it: no error path,
\* swap, sweep or shutdown forgets one.
ProcessesOwned == \A g \in Requests : process[g] = "running" => Owned(g)

\* Every segment directory has somebody who will remove it.
DirsOwned == \A g \in dirs : Owned(g)

\* Subtitle extraction never outlives its session.
SubtitleWorkBounded == subtitleJobs \subseteq sessions

\* Nothing the manager starts outlives its owner: processes, directories and
\* subtitle extraction.
ResourcesOwned == ProcessesOwned /\ DirsOwned /\ SubtitleWorkBounded

\* A create that was in flight when StopViewer ran never leaves a session behind,
\* even when the create ends long after StopViewer returned: the session is
\* refused, or StopViewer listed it and is about to stop it.
RevokedCreateFails ==
  \A r \in doomed : InCreate(r) \/ r \notin sessions \/ r \in stopQueue[req[r].viewer]

\* Only a viewer with a create in flight is fenced, so a fence never outlives
\* the creates it is for.
FenceTracksCreates ==
  /\ \A v \in Viewers : pendingViewers[v] =
       Cardinality({r \in Requests : InCreate(r) /\ req[r].viewer = v})
  /\ \A v \in revokedViewers : pendingViewers[v] > 0

\* Everything a create takes before its admission is given back by whichever
\* error path it leaves through: slot, job key, input token and viewer fence.
CreatesAccounted == ReservationsBalanced /\ InputsOwned /\ FenceTracksCreates

\* A plan that has been answered leaves no session of an earlier plan behind: a
\* seek that was preparing a replacement of such a session when the newer plan
\* began either swapped early enough to be listed by StopSupersededPlans, or its
\* commit is refused (docs/development.md: "A newer plan supersedes previous
\* playback sessions for that item").  Replace and handoff commit before they
\* reserve anything, seconds before their swap, and are not covered.
NewerPlanSupersedes ==
  \A r \in sessions : req[r].op = "plan" /\ Known(r) =>
    \A s \in sessions : /\ Known(s) /\ req[s].op \notin {"replace", "handoff"}
                        /\ req[s].viewer = req[r].viewer
                        /\ req[s].catalog = req[r].catalog
                        => req[s].progress >= req[r].progress

\* The superseding of one plan never ends the session that owns the progress of
\* the title, even when the responses of two plans complete out of order.
NewestPlanKept ==
  [][\A r, s \in Requests :
       StopQueued(r, s) => \A x \in sessions \ sessions' :
         ~(CommitAccepted(x) /\ pc[x] \in {"accepted", "superseding", "done"})]_vars

\* Whatever order the answers of plans arrive in, the newest plan of a title is
\* the one that plays.
PlansOrdered == []NewerPlanSupersedes /\ NewestPlanKept

\* The janitor ends only what is over: a session whose lease has run out after
\* expired handoffs have been restored, or the candidate of such a handoff.  A
\* viewer who joins a generation between the two phases of Sweep keeps it.
JanitorSparesLive ==
  [][SweepExpire \/ SweepReclaim({}) =>
       \A s \in sessions \ sessions' : now >= expires'[s] \/ s \in handoffs \ handoffs']_vars

\* Once Shutdown has returned without an error nothing is left to serve.
ShutdownClears ==
  shutdown = "done" => /\ sessions = {} /\ generations = {} /\ inputs = {}
                       /\ \A g \in shutGens : process[g] # "running" /\ g \notin dirs

-----------------------------------------------------------------------------
(* Liveness, under FairSpec.                                               *)

\* Every request a client issues is answered, whatever is stopped, revoked or
\* shut down meanwhile.
OperationsFinish == \A r \in Requests : pc[r] # "idle" ~> pc[r] = "done"

\* A generation all of whose leases have run out is reclaimed, or joined again.
AbandonedReclaimed ==
  \A g \in Requests :
    (g \in generations /\ \A s \in leases[g] : Expired(s))
      ~> (g \notin generations \/ \E s \in leases[g] : ~Expired(s))

\* A handoff nobody answers is resolved once its deadline is reached.
HandoffsEnd ==
  \A h \in Requests : (h \in handoffs /\ handoffExp[h] <= MaxTime) ~> h \notin handoffs

\* Once the manager is closed Shutdown returns and every FFmpeg process ends, also
\* that of a create which was still starting one, unless Shutdown ran into its
\* deadline first.
ShutdownCompletes ==
  /\ closed ~> shutdown \in {"done", "failed"}
  /\ \A g \in Requests :
       (closed /\ process[g] = "running") ~> (process[g] = "exited" \/ shutdown = "failed")
=============================================================================
