--------------------------- MODULE PlaybackProofs ---------------------------
(***************************************************************************)
(* Theorems about the playback manager for every set of requests, viewers, *)
(* titles and renditions, every limit and every lease time.                *)
(***************************************************************************)
EXTENDS PlaybackProperties, FiniteSetTheorems, TLAPS

-----------------------------------------------------------------------------
(* What the helpers of the manager return, as far as types go.             *)

Ref == Requests \cup {None}

\* The part of TypeOK that stopping sessions can disturb.
LifeType ==
  /\ sessions \in SUBSET Requests /\ subtitleJobs \in SUBSET Requests
  /\ generations \in SUBSET Requests /\ leases \in [Requests -> SUBSET Requests]
  /\ inputs \in SUBSET Requests /\ retiring \in SUBSET Requests
  /\ replacements \in [Requests -> Ref]

\* A counter per viewer stays a counter when one of its entries moves by one.
LEMMA CounterType ==
  ASSUME NEW S, NEW f \in [S -> Int], NEW x
  PROVE  /\ [f EXCEPT ![x] = f[x] + 1] \in [S -> Int]
         /\ [f EXCEPT ![x] = f[x] - 1] \in [S -> Int]
<1>1. CASE x \in S
  BY <1>1
<1>2. CASE x \notin S
  <2>1. [f EXCEPT ![x] = f[x] + 1] = f /\ [f EXCEPT ![x] = f[x] - 1] = f
    BY <1>2
  <2> QED
    BY <2>1
<1> QED
  BY <1>1, <1>2

\* CreditReleased, CreditsWithout and the two operators on preparation records
\* return a map of the same type.
LEMMA MapTypes ==
  ASSUME TypeOK
  PROVE  /\ \A g, s \in Ref : CreditReleased(g, s) \in [Requests -> Ref]
         /\ \A H \in SUBSET Requests : CreditsWithout(H) \in [Requests -> Ref]
         /\ \A id : ClearedReplacement(id) \in [Requests -> Ref]
         /\ \A old, new \in Ref : new \in Requests =>
              LinkedReplacement(old, new) \in [Requests -> Ref]
BY DEF TypeOK, Ref, CreditReleased, CreditsWithout, ClearedReplacement,
       LinkedReplacement

\* Renewing input tokens keeps their expiry a time.
LEMMA RenewedInputsType ==
  ASSUME TypeOK, NEW S, NEW expiry \in Nat
  PROVE  RenewedInputs(S, expiry) \in [Requests -> Nat]
BY DEF TypeOK, RenewedInputs

\* Extending leases keeps the two expiry maps well typed.
LEMMA ExtendType ==
  ASSUME TypeOK, NEW S, Extend(S)
  PROVE  expires' \in [Requests -> Nat] /\ inputExp' \in [Requests -> Nat]
<1>1. \A s : TTL(s) \in Nat
  BY TimeAssumption DEF TTL
<1>2. expires' \in [Requests -> Nat]
  BY <1>1 DEF TypeOK, Extend
<1>3. now + LeaseTTL \in Nat
  BY TimeAssumption DEF TypeOK
<1>4. inputExp' \in [Requests -> Nat]
  BY <1>3, RenewedInputsType DEF Extend
<1> QED
  BY <1>2, <1>4

\* Stopping any set of sessions leaves the session and generation maps typed.
LEMMA StopSessionsType ==
  ASSUME TypeOK, NEW S, NEW credits \in [Requests -> Ref], StopSessions(S, credits)
  PROVE  LifeType'
<1>1. /\ sessions' \in SUBSET Requests /\ subtitleJobs' \in SUBSET Requests
      /\ generations' \in SUBSET Requests /\ inputs' \in SUBSET Requests
  BY DEF TypeOK, StopSessions, CancelledJobs
<1>2. leases' \in [Requests -> SUBSET Requests]
  BY DEF TypeOK, StopSessions
<1>3. retiring' \in SUBSET Requests
  BY DEF TypeOK, StopSessions, Emptied
<1>4. replacements' \in [Requests -> Ref]
  BY DEF StopSessions, Ref
<1> QED
  BY <1>1, <1>2, <1>3, <1>4 DEF LifeType

\* Dropping handoff records leaves both handoff maps typed.
LEMMA DropHandoffsType ==
  ASSUME TypeOK, NEW H, DropHandoffs(H)
  PROVE  handoffs' \in SUBSET Requests /\ sessionHandoffs' \in [Requests -> Ref]
BY DEF TypeOK, DropHandoffs, Ref

\* StopForViewer, the common end of every session.
LEMMA StopForViewerType ==
  ASSUME TypeOK, NEW id, StopForViewer(id)
  PROVE  /\ LifeType' /\ resolvedHandoffs' \in SUBSET Requests
         /\ handoffs' \in SUBSET Requests /\ sessionHandoffs' \in [Requests -> Ref]
<1>1. PICK R, target :
        /\ R \in Pruned(resolvedHandoffs, resolvedExp) /\ target \in StopTargets(id, R)
        /\ LET H == {h \in handoffs : target \in sessions /\ sessionHandoffs[target] = h}
               S == ({target} \cap sessions) \cup UNION {Pair(h) : h \in H}
           IN /\ resolvedHandoffs' = R
              /\ DropHandoffs(H)
              /\ StopSessions(S, CreditsWithout(H))
  BY DEF StopForViewer
<1> DEFINE H == {h \in handoffs : target \in sessions /\ sessionHandoffs[target] = h}
<1>2. resolvedHandoffs' \in SUBSET Requests
  BY <1>1 DEF Pruned, TypeOK
<1>3. H \in SUBSET Requests
  BY DEF TypeOK
<1>4. CreditsWithout(H) \in [Requests -> Ref]
  BY <1>3, MapTypes
<1>5. LifeType'
  BY <1>1, <1>4, StopSessionsType
<1> QED
  BY <1>1, <1>2, <1>5, DropHandoffsType

\* Resolving handoffs, one way or the other.
LEMMA ResolveType ==
  ASSUME TypeOK, NEW H \in SUBSET Requests, NEW b \in BOOLEAN, Resolve(H, b)
  PROVE  /\ LifeType' /\ resolvedHandoffs' \in SUBSET Requests
         /\ handoffs' \in SUBSET Requests /\ sessionHandoffs' \in [Requests -> Ref]
         /\ expires' \in [Requests -> Nat] /\ inputExp' \in [Requests -> Nat]
         /\ attached' \in SUBSET Requests /\ resolvedExp' \in [Requests -> Nat]
<1>1. CreditsWithout(H) \in [Requests -> Ref]
  BY MapTypes
<1>2. LifeType'
  BY <1>1, StopSessionsType DEF Resolve
<1>3. attached' \in SUBSET Requests
  BY DEF Resolve, TypeOK
<1>4. resolvedExp' \in [Requests -> Nat]
  BY TimeAssumption DEF Resolve, TypeOK
<1>5. resolvedHandoffs' \in SUBSET Requests
  BY DEF Resolve, Pruned, TypeOK
<1> QED
  BY <1>2, <1>3, <1>4, <1>5, DropHandoffsType, ExtendType DEF Resolve

\* The arguments of a request.
Args == [op : OpNames, viewer : Viewers \cup {None}, catalog : Catalogs \cup {None},
         plan : Plans \cup {Direct, None}, old : Ref, progress : Nat]

\* The generation an operation replaces, if any.
LEMMA OldGenType ==
  ASSUME TypeOK, NEW r \in Requests
  PROVE  OldGen(r) \in Ref
BY DEF TypeOK, OldGen, Ref

\* A request that replaces a session inherits the session's arguments.
LEMMA ReplacingType ==
  ASSUME TypeOK, NEW r \in Requests, NEW s \in Requests, NEW op \in OpNames,
         NEW p \in Plans \cup {Direct, None}, Replacing(r, s, op, p)
  PROVE  req' \in [Requests -> Args]
<1>1. req \in [Requests -> Args]
  BY DEF TypeOK, Args, Ref
<1>2. [req[s] EXCEPT !.op = op, !.old = s, !.plan = p] \in Args
  BY <1>1 DEF Args, Ref
<1> QED
  BY <1>1, <1>2 DEF Replacing

\* Reserving a source for Replace or PrepareHandoff.
LEMMA ReserveSourceType ==
  ASSUME TypeOK, NEW r \in Requests, NEW s \in Requests, NEW op \in OpNames,
         NEW p \in Plans \cup {Direct}, ReserveSource(r, s, op, p)
  PROVE  TypeOK'
<1>1. req' \in [Requests -> Args]
  BY ReplacingType DEF ReserveSource
<1>2. now + LeaseTTL + ManifestWait \in Nat
  BY TimeAssumption DEF TypeOK
<1>3. expires' \in [Requests -> Nat] /\ inputExp' \in [Requests -> Nat]
  <2>1. expires \in [Requests -> Nat] /\ inputExp \in [Requests -> Nat]
    BY DEF TypeOK
  <2>2. RenewedInputs({s}, now + LeaseTTL + ManifestWait) \in [Requests -> Nat]
    BY <1>2, RenewedInputsType
  <2> QED
    BY <1>2, <2>1, <2>2 DEF ReserveSource, ttlVars
<1>4. /\ preparingHandoffs' \in SUBSET Requests
      /\ preparingDeadline' \in [Requests -> Nat]
  BY <1>2 DEF TypeOK, ReserveSource
<1> QED
  BY <1>1, <1>3, <1>4 DEF TypeOK, ReserveSource, Goto, Args, Ref, PCs, CreatePcs,
     OperationPcs, OpNames, lifeVars, genVars, admitVars, handoffVars, resolveVars,
     lifecycleVars, otherVars

\* Every step of the manager preserves the types.
LEMMA TypeStep == TypeOK /\ [Next]_vars => TypeOK'
<1> SUFFICES ASSUME TypeOK, [Next]_vars PROVE TypeOK'
  OBVIOUS
<1> USE DEF TypeOK, clientVars, lifeVars, ttlVars, genVars, admitVars, prepVars,
            handoffVars, resolveVars, lifecycleVars, otherVars, PCs, CreatePcs,
            OperationPcs, OpNames
<1>1. ASSUME NEW r \in Requests, NEW v \in Viewers, NEW c \in Catalogs, NEW p \in Plans \cup {Direct}, Plan(r, v, c, p)
     PROVE  TypeOK'
  BY <1>1 DEF Plan, Goto
<1>2. ASSUME NEW r \in Requests, Enter(r) PROVE TypeOK'
  <2>1. pendingViewers' \in [Viewers -> Int]
    <3> DEFINE v == req[r].viewer
    <3>1. pendingViewers' = [pendingViewers EXCEPT ![v] = pendingViewers[v] + 1]
      BY <1>2 DEF Enter
    <3>2. pendingViewers \in [Viewers -> Int]
      OBVIOUS
    <3> HIDE DEF v, TypeOK
    <3> QED
      BY <3>1, <3>2, CounterType
  <2>2. expires' \in [Requests -> Nat]
    BY <1>2, TimeAssumption DEF Enter
  <2> QED
    BY <1>2, <2>1, <2>2 DEF Enter, Goto
<1>3. ASSUME NEW r \in Requests, EnterRefused(r) PROVE TypeOK'
  BY <1>3 DEF EnterRefused, FailedLabel, Goto
<1>4. ASSUME NEW r \in Requests, CreateDirect(r) PROVE TypeOK'
  BY <1>4 DEF CreateDirect, Goto, LinkedReplacement
<1>5. ASSUME NEW r \in Requests, NEW g \in Requests, ShareGeneration(r, g)
     PROVE  TypeOK'
  <2>1. /\ leases' \in [Requests -> SUBSET Requests]
        /\ inputExp' \in [Requests -> Nat]
    BY <1>5 DEF ShareGeneration
  <2>2. /\ genOf' \in [Requests -> Requests \cup {None}]
        /\ preparingReplacements' \in [Requests -> Requests \cup {None}]
        /\ pc' \in [Requests -> PCs]
    BY <1>5 DEF ShareGeneration, LinkedReplacement, Goto
  <2> QED
    BY <1>5, <2>1, <2>2 DEF ShareGeneration
<1>6. ASSUME NEW r \in Requests, Reserve(r) PROVE TypeOK'
  BY <1>6 DEF Reserve, Goto, Job, OldGen
<1>7. ASSUME NEW r \in Requests, CreateRefused(r) PROVE TypeOK'
  BY <1>7 DEF CreateRefused, Goto, Job
<1>8. ASSUME NEW r \in Requests, InstallInputs(r) PROVE TypeOK'
  BY <1>8 DEF InstallInputs, Goto
<1>9. ASSUME NEW r \in Requests, InstallFails(r) PROVE TypeOK'
  BY <1>9 DEF InstallFails, Goto
<1>10. ASSUME NEW r \in Requests, StartProcess(r) PROVE TypeOK'
  BY <1>10 DEF StartProcess, Goto
<1>11. ASSUME NEW r \in Requests, StartFails(r) PROVE TypeOK'
  BY <1>11 DEF StartFails, Goto, RevokedInputs
<1>12. ASSUME NEW r \in Requests, Abort(r) PROVE TypeOK'
  BY <1>12 DEF Abort, CreditReleased, Goto, Job, OldGen, ReleasedJob
<1>13. ASSUME NEW r \in Requests, Admit(r) PROVE TypeOK'
  <2>1. CreditAfterAdmission(r) \in [Requests -> Ref]
    BY MapTypes, OldGenType DEF CreditAfterAdmission, Ref
  <2>2. LinkedReplacement(req[r].old, r) \in [Requests -> Ref]
    BY MapTypes DEF Ref
  <2>3. ready' \in SUBSET Requests /\ pc' \in [Requests -> PCs]
    BY <1>13 DEF Admit, Goto
  <2>4. leases' \in [Requests -> SUBSET Requests] /\ genOf' \in [Requests -> Ref]
    BY <1>13 DEF Admit, Ref
  <2> QED
    BY <1>13, <2>1, <2>2, <2>3, <2>4 DEF Admit, Goto, Ref
<1>14. ASSUME NEW r \in Requests, AdmitRefused(r) PROVE TypeOK'
  BY <1>14 DEF AdmitRefused, CreditAfterAdmission, CreditReleased, Goto, Job,
     OldGen, ReleasedJob
<1>15. ASSUME NEW r \in Requests, Discard(r) PROVE TypeOK'
  BY <1>15 DEF Discard, Goto, RevokedInputs
<1>16. ASSUME NEW r \in Requests, Discarded(r) PROVE TypeOK'
  BY <1>16 DEF Discarded, Goto
<1>17. ASSUME NEW r \in Requests, ManifestWritten(r) PROVE TypeOK'
  BY <1>17 DEF ManifestWritten, Goto
<1>18. ASSUME NEW r \in Requests, ManifestFails(r) PROVE TypeOK'
  BY <1>18, StopForViewerType DEF ManifestFails, LifeType, Goto, Ref
<1>19. ASSUME NEW r \in Requests, Abandon(r) PROVE TypeOK'
  BY <1>19 DEF Abandon, ClearedReplacement, CreditReleased, Goto, Job, OldGen,
     ReleasedJob
<1>20. ASSUME NEW r \in Requests, ConfirmAdmission(r) PROVE TypeOK'
  <2>1. pc' \in [Requests -> PCs] /\ ok' \in SUBSET Requests /\ ready' \in SUBSET Requests
    BY <1>20 DEF ConfirmAdmission, Goto
  <2> QED
    BY <1>20, <2>1 DEF ConfirmAdmission, ReleasedJob
<1>21. ASSUME NEW r \in Requests, Reject(r) PROVE TypeOK'
  BY <1>21, StopForViewerType DEF Reject, LifeType, Goto, Ref
<1>22. ASSUME NEW r \in Requests, Unlink(r) PROVE TypeOK'
  BY <1>22 DEF Unlink, ClearedReplacement, CreditReleased, Goto, OldGen
<1>23. ASSUME NEW r \in Requests, FinishViewerCreate(r) PROVE TypeOK'
  <2>1. pendingViewers' \in [Viewers -> Int]
    <3> DEFINE v == req[r].viewer
    <3>1. pendingViewers' = [pendingViewers EXCEPT ![v] = pendingViewers[v] - 1]
      BY <1>23 DEF FinishViewerCreate
    <3>2. pendingViewers \in [Viewers -> Int]
      OBVIOUS
    <3> HIDE DEF v, TypeOK
    <3> QED
      BY <3>1, <3>2, CounterType
  <2>2. pc' \in [Requests -> PCs]
    BY <1>23 DEF FinishViewerCreate, Goto, FailedLabel
  <2> QED
    BY <1>23, <2>1, <2>2 DEF FinishViewerCreate, LiftedFence
<1>24. ASSUME NEW r \in Requests, BeginPlayback(r) PROVE TypeOK'
  BY <1>24 DEF BeginPlayback, Goto
<1>25. ASSUME NEW r \in Requests, PlanDropped(r) PROVE TypeOK'
  BY <1>25, StopForViewerType DEF PlanDropped, LifeType, Goto, Ref
<1>26. ASSUME NEW r \in Requests, StopSupersededPlans(r) PROVE TypeOK'
  BY <1>26 DEF StopSupersededPlans, Goto, Superseded
<1>27. ASSUME NEW r \in Requests, PlanAnswered(r) PROVE TypeOK'
  BY <1>27 DEF PlanAnswered, Goto
<1>28. ASSUME NEW key \in Viewers \X Catalogs, SetWatched(key) PROVE TypeOK'
  BY <1>28 DEF SetWatched
<1>29. ASSUME NEW s \in Requests, SeekRetained(s) PROVE TypeOK'
  BY <1>29, TimeAssumption DEF SeekRetained
<1>30. ASSUME NEW r \in Requests, NEW s \in Requests, Seek(r, s) PROVE TypeOK'
  <2>1. req' \in [Requests -> Args]
    BY <1>30, ReplacingType DEF Seek
  <2> QED
    BY <1>30, <2>1 DEF Seek, Goto, Args, Ref
<1>31. ASSUME NEW r \in Requests, SeekPromoted(r) PROVE TypeOK'
  BY <1>31 DEF SeekPromoted, ClearedReplacement, Goto
<1>32. ASSUME NEW r \in Requests, SeekSwapped(r) PROVE TypeOK'
  <2>1. LifeType'
    BY <1>32, StopSessionsType DEF SeekSwapped, Ref
  <2> QED
    BY <1>32, <2>1, MapTypes DEF SeekSwapped, Goto, LifeType, Ref
<1>33. ASSUME NEW r \in Requests, SeekDropped(r) PROVE TypeOK'
  BY <1>33 DEF SeekDropped, ClearedReplacement, Goto
<1>34. ASSUME NEW r \in Requests, DropCandidate(r) PROVE TypeOK'
  <2>1. pc' \in [Requests -> PCs] /\ ok' \in SUBSET Requests
    BY <1>34 DEF DropCandidate, Goto
  <2> QED
    BY <1>34, <2>1, StopForViewerType DEF DropCandidate, LifeType, Ref
<1>35. ASSUME NEW r \in Requests, NEW s \in Requests, NEW p \in Plans \cup {Direct}, Replace(r, s, p)
     PROVE  TypeOK'
  BY <1>35, ReserveSourceType DEF Replace
<1>36. ASSUME NEW r \in Requests, NEW s \in Requests, NEW p \in Plans \cup {Direct}, PrepareHandoff(r, s, p)
     PROVE  TypeOK'
  BY <1>36, ReserveSourceType DEF PrepareHandoff
<1>37. ASSUME NEW r \in Requests, ReplaceSwapped(r) PROVE TypeOK'
  <2>1. LifeType' /\ preparingHandoffs' \in SUBSET Requests
    <3>1. CASE OwnerStoppedOld(r)
      BY <1>37, <3>1 DEF ReplaceSwapped, LifeType, Ref
    <3>2. CASE ~OwnerStoppedOld(r)
      BY <1>37, <3>2, StopSessionsType DEF ReplaceSwapped, Ref
    <3> QED
      BY <3>1, <3>2
  <2> QED
    BY <1>37, <2>1, MapTypes DEF ReplaceSwapped, Goto, LifeType, Ref
<1>38. ASSUME NEW r \in Requests, HandoffActivated(r) PROVE TypeOK'
  <2>1. now + LeaseTTL \in Nat
    BY TimeAssumption
  <2>2. inputExp' \in [Requests -> Nat]
    BY <1>38, <2>1, RenewedInputsType DEF HandoffActivated
  <2>3. /\ expires' \in [Requests -> Nat] /\ handoffExp' \in [Requests -> Nat]
        /\ handoffs' \in SUBSET Requests
    BY <1>38, <2>1 DEF HandoffActivated
  <2>4. handoffGen' \in [Requests -> Ref] /\ sessionHandoffs' \in [Requests -> Ref]
    BY <1>38 DEF HandoffActivated, OldValid, Ref
  <2> QED
    BY <1>38, <2>2, <2>3, <2>4, MapTypes DEF HandoffActivated, Goto, Ref
<1>39. ASSUME NEW r \in Requests, HandoffPromoted(r) PROVE TypeOK'
  BY <1>39 DEF HandoffPromoted, ClearedReplacement, Goto
<1>40. ASSUME NEW r \in Requests, ReplacementDropped(r) PROVE TypeOK'
  BY <1>40 DEF ReplacementDropped, Goto
<1>41. ASSUME NEW r \in Requests, Cleanup(r) PROVE TypeOK'
  <2>1. preparingReplacements' \in [Requests -> Ref]
    BY <1>41, MapTypes DEF Cleanup, Ref
  <2>2. replacements' \in [Requests -> Ref]
    BY <1>41, MapTypes, OldGenType DEF Cleanup, Ref
  <2>3. expires' \in [Requests -> Nat] /\ inputExp' \in [Requests -> Nat]
    <3>1. CASE pc[r] = "cleanupFailed"
      BY <1>41, <3>1, ExtendType DEF Cleanup
    <3>2. CASE pc[r] # "cleanupFailed"
      BY <1>41, <3>2 DEF Cleanup
    <3> QED
      BY <3>1, <3>2
  <2> QED
    BY <1>41, <2>1, <2>2, <2>3 DEF Cleanup, Goto, Ref
<1>42. ASSUME NEW h \in Requests, NEW isAttached \in BOOLEAN, ResolveHandoff(h, isAttached)
     PROVE  TypeOK'
  <2> HIDE DEF TypeOK
  <2>1. PICK b \in BOOLEAN : Resolve({h}, b)
    BY <1>42 DEF ResolveHandoff
  <2>2. /\ LifeType' /\ resolvedHandoffs' \in SUBSET Requests
        /\ handoffs' \in SUBSET Requests /\ sessionHandoffs' \in [Requests -> Ref]
        /\ expires' \in [Requests -> Nat] /\ inputExp' \in [Requests -> Nat]
        /\ attached' \in SUBSET Requests /\ resolvedExp' \in [Requests -> Nat]
    BY <2>1, ResolveType
  <2> QED
    BY <1>42, <2>2 DEF TypeOK, ResolveHandoff, LifeType, Ref
<1>43. ASSUME NEW s \in Requests, ExpireHandoff(s) PROVE TypeOK'
  <2>1. {sessionHandoffs[s]} \in SUBSET Requests
    BY <1>43 DEF ExpireHandoff, HandoffExpired
  <2> QED
    BY <1>43, <2>1, ResolveType DEF ExpireHandoff, LifeType, Ref
<1>44. ASSUME NEW s \in Requests, Lookup(s) PROVE TypeOK'
  BY <1>44, TimeAssumption DEF Lookup, Renew, RenewedExpiry, RenewedInputs, TTL
<1>45. ASSUME NEW s \in Requests, LookupExpired(s) PROVE TypeOK'
  BY <1>45, StopForViewerType DEF LookupExpired, LifeType, Ref
<1>46. ASSUME NEW s \in Requests, Heartbeat(s) PROVE TypeOK'
  BY <1>46, TimeAssumption DEF Heartbeat, Renew, RenewedExpiry, RenewedInputs, TTL
<1>47. ASSUME NEW g \in Requests, InputFile(g) PROVE TypeOK'
  BY <1>47 DEF InputFile
<1>48. ASSUME NEW s \in Requests, SubtitleStart(s) PROVE TypeOK'
  BY <1>48 DEF SubtitleStart
<1>49. ASSUME NEW s \in Requests, SubtitleRelease(s) PROVE TypeOK'
  BY <1>49 DEF SubtitleRelease
<1>50. ASSUME NEW s \in Requests, Stop(s) PROVE TypeOK'
  BY <1>50, StopForViewerType DEF Stop, LifeType, Ref
<1>51. ASSUME NEW v \in Viewers, StopViewer(v) PROVE TypeOK'
  BY <1>51 DEF StopViewer, CreatePcs, InCreate, PendingInputs
<1>52. ASSUME NEW k \in Requests \cup Viewers, NEW s \in Requests, StopQueued(k, s)
     PROVE  TypeOK'
  <2>1. stopQueue' \in [Requests \cup Viewers -> SUBSET Requests]
    BY <1>52 DEF StopQueued
  <2> QED
    BY <1>52, <2>1, StopForViewerType DEF StopQueued, LifeType, Ref
<1>53. ASSUME NEW c \in Catalogs, StopCatalog(c) PROVE TypeOK'
  <2>1. LifeType'
    BY <1>53, StopSessionsType DEF StopCatalog, Ref
  <2> QED
    BY <1>53, <2>1 DEF StopCatalog, LifeType, Ref
<1>54. ASSUME NEW s \in Requests, StopOwnerSession(s) PROVE TypeOK'
  <2> DEFINE record == preparingReplacements[s]
             H == {h \in handoffs : sessionHandoffs[s] = h}
             lent == {g \in Requests : /\ record # None /\ req[record].old \in sessions
                                       /\ genOf[req[record].old] = g
                                       /\ replacements[g] = record}
             credits == [g \in Requests |-> IF g \in lent THEN None
                                            ELSE CreditsWithout(H)[g]]
  <2>1. CreditsWithout(H) \in [Requests -> Ref]
    BY MapTypes
  <2>2. credits \in [Requests -> Ref]
    BY <2>1 DEF Ref
  <2>3. StopSessions({s}, credits)
    BY <1>54 DEF StopOwnerSession
  <2>4. LifeType'
    <3> HIDE DEF credits
    <3> QED
      BY <2>2, <2>3, StopSessionsType
  <2>5. expires' \in [Requests -> Nat] /\ inputExp' \in [Requests -> Nat]
    BY <1>54, ExtendType DEF StopOwnerSession
  <2>6. handoffs' \in SUBSET Requests /\ sessionHandoffs' \in [Requests -> Ref]
    BY <1>54, DropHandoffsType DEF StopOwnerSession
  <2>7. ownerStopped' \in [Requests -> Ref] /\ preparingHandoffs' \in SUBSET Requests
    BY <1>54 DEF StopOwnerSession, Ref
  <2>8. resolvedHandoffs' \in SUBSET Requests
    BY <1>54 DEF StopOwnerSession
  <2> QED
    BY <1>54, <2>4, <2>5, <2>6, <2>7, <2>8 DEF StopOwnerSession, LifeType, Ref
<1>55. ASSUME NEW g \in Requests, ProcessExit(g) PROVE TypeOK'
  BY <1>55 DEF ProcessExit
<1>56. ASSUME NEW g \in Requests, Retire(g) PROVE TypeOK'
  BY <1>56 DEF Retire
<1>57. ASSUME SweepExpire PROVE TypeOK'
  <2>1. expires' \in [Requests -> Nat] /\ inputExp' \in [Requests -> Nat]
    BY <1>57, ExtendType DEF SweepExpire
  <2>2. handoffs' \in SUBSET Requests /\ sessionHandoffs' \in [Requests -> Ref]
    BY <1>57, DropHandoffsType DEF SweepExpire
  <2>3. Overdue \in SUBSET Requests
    BY DEF Overdue
  <2>4. CreditsWithout(Overdue) \in [Requests -> Ref]
    BY <2>3, MapTypes
  <2>5. replacements' \in [Requests -> Ref]
    BY <1>57, <2>4 DEF SweepExpire, Ref
  <2>6. leases' \in [Requests -> SUBSET Requests]
    BY <1>57 DEF SweepExpire
  <2>7. /\ sessions' \in SUBSET Requests /\ subtitleJobs' \in SUBSET Requests
        /\ generations' \in SUBSET Requests /\ inputs' \in SUBSET Requests
        /\ retiring' \in SUBSET Requests /\ snapshot' \in SUBSET Requests
    BY <1>57 DEF SweepExpire, CancelledJobs, Emptied
  <2>8. attached' \in SUBSET Requests
    BY <1>57 DEF SweepExpire
  <2>9. resolvedExp' \in [Requests -> Nat]
    BY <1>57, TimeAssumption DEF SweepExpire
  <2>10. resolvedHandoffs' \in SUBSET Requests
    BY <1>57, <2>3 DEF SweepExpire, Pruned
  <2> QED
    BY <1>57, <2>1, <2>2, <2>5, <2>6, <2>7, <2>8, <2>9, <2>10 DEF SweepExpire, Ref
<1>58. ASSUME NEW bad \in SUBSET snapshot, SweepReclaim(bad) PROVE TypeOK'
  BY <1>58 DEF SweepReclaim, CancelledJobs, Detach, Reclaimable
<1>59. ASSUME SweepDone PROVE TypeOK'
  BY <1>59 DEF SweepDone
<1>60. ASSUME JanitorStops PROVE TypeOK'
  BY <1>60 DEF JanitorStops
<1>61. ASSUME Shutdown PROVE TypeOK'
  BY <1>61 DEF Shutdown, CancelledJobs
<1>62. ASSUME ShutdownStartsDone PROVE TypeOK'
  BY <1>62 DEF ShutdownStartsDone, CreatePcs, ShutdownMoves, StartWGPcs
<1>63. ASSUME ShutdownStartsTimeout PROVE TypeOK'
  BY <1>63 DEF ShutdownStartsTimeout, ShutdownMoves
<1>64. ASSUME ShutdownJanitorDone PROVE TypeOK'
  BY <1>64 DEF ShutdownJanitorDone, ShutdownMoves
<1>65. ASSUME ShutdownJanitorTimeout PROVE TypeOK'
  BY <1>65 DEF ShutdownJanitorTimeout, ShutdownMoves
<1>66. ASSUME ShutdownDone PROVE TypeOK'
  BY <1>66 DEF ShutdownDone, ShutdownMoves
<1>67. ASSUME Tick PROVE TypeOK'
  BY <1>67 DEF Tick
<1>68. CASE UNCHANGED vars
  BY <1>68 DEF vars
<1> QED
  BY <1>1, <1>2, <1>3, <1>4, <1>5, <1>6, <1>7, <1>8, <1>9, <1>10, <1>11, <1>12,
     <1>13, <1>14, <1>15, <1>16, <1>17, <1>18, <1>19, <1>20, <1>21, <1>22, <1>23,
     <1>24, <1>25, <1>26, <1>27, <1>28, <1>29, <1>30, <1>31, <1>32, <1>33, <1>34,
     <1>35, <1>36, <1>37, <1>38, <1>39, <1>40, <1>41, <1>42, <1>43, <1>44, <1>45,
     <1>46, <1>47, <1>48, <1>49, <1>50, <1>51, <1>52, <1>53, <1>54, <1>55, <1>56,
     <1>57, <1>58, <1>59, <1>60, <1>61, <1>62, <1>63, <1>64, <1>65, <1>66, <1>67,
     <1>68 DEF Next, Issue, CreateStep, OperationStep, SessionStep, JanitorStep,
     ShutdownStep

\* The initial state is well typed.
LEMMA TypeInit == Init => TypeOK
<1> SUFFICES ASSUME Init PROVE TypeOK
  OBVIOUS
<1>1. req \in [Requests -> Args] /\ pc \in [Requests -> PCs]
  BY DEF Init, Args, Ref, OpNames, PCs
<1>2. stopQueue \in [Requests \cup Viewers -> SUBSET Requests]
  BY DEF Init
<1>3. /\ leases \in [Requests -> SUBSET Requests]
      /\ process \in [Requests -> {"none", "running", "killed", "exited"}]
      /\ pendingViewers \in [Viewers -> Int]
      /\ progressGen \in [Viewers \X Catalogs -> Nat]
  BY DEF Init
<1>4. \A f \in {expires, inputExp, preparingDeadline, handoffExp, resolvedExp} :
        f \in [Requests -> Nat]
  BY DEF Init
<1>5. \A f \in {genOf, replacements, preparingReplacements, ownerStopped, handoffGen,
               sessionHandoffs} : f \in [Requests -> Ref]
  BY DEF Init, Ref
<1>6. closed \in BOOLEAN
  BY DEF Init
<1>7. /\ now \in Nat /\ starting \in Int /\ shutdown = "open" /\ sweep = "idle"
      /\ pendingJobs = {} /\ revokedViewers = {}
  BY DEF Init
<1>8. \A X \in {ok, sessions, subtitleJobs, generations, ready, dirs, retiring, inputs,
               preparingHandoffs, handoffs, resolvedHandoffs, attached, shutGens,
               snapshot, doomed} : X = {}
  BY DEF Init
<1> QED
  BY <1>1, <1>2, <1>3, <1>4, <1>5, <1>6, <1>7, <1>8 DEF TypeOK, Args, Ref

\* Type correctness of the manager: every reachable state has sessions,
\* generations, leases, tokens, credits and handoffs of the declared shape.
THEOREM TypeCorrect == Spec => []TypeOK
BY TypeInit, TypeStep, PTL DEF Spec

-----------------------------------------------------------------------------
(* Leases: every session has its generation, every lease its session.      *)

\* No operation leaves the control points past admission.
PcKept == \A x \in Requests : pc[x] \in AdmittedPcs => pc'[x] \in AdmittedPcs

\* A request that moves to a point past admission, or was not past it, keeps all
\* admitted requests past admission.
LEMMA GotoKept ==
  ASSUME TypeOK, NEW r \in Requests, NEW label, Goto(r, label),
         label \in AdmittedPcs \/ pc[r] \notin AdmittedPcs
  PROVE  PcKept
BY DEF TypeOK, Goto, PcKept

\* A step that leaves the session and generation maps alone.
LEMMA LeaseKept ==
  ASSUME TypeOK, LeaseInv, PcKept, UNCHANGED <<sessions, generations, leases, genOf>>
  PROVE  LeaseInv'
BY DEF TypeOK, LeaseInv, LeaseConsistency, SessionHasGeneration, LeaseHasSession, PcKept

\* stopSessionLocked on any set of sessions: a generation goes only when nobody
\* else leases it.
LEMMA LeaseStopped ==
  ASSUME TypeOK, LeaseInv, PcKept, NEW S, NEW credits, StopSessions(S, credits),
         UNCHANGED genOf
  PROVE  LeaseInv'
<1>1. sessions' = sessions \ S /\ generations' = generations \ Emptied(S)
  BY DEF StopSessions
<1>2. \A g \in Requests : leases'[g] =
        {s \in leases[g] : ~(s \in S \cap sessions /\ genOf[s] = g)}
  BY DEF StopSessions
<1>3. SessionHasGeneration'
  <2> SUFFICES ASSUME NEW s \in sessions', genOf[s] # None
               PROVE  genOf[s] \in generations' /\ s \in leases'[genOf[s]]
    BY DEF SessionHasGeneration
  <2>1. s \in sessions /\ s \notin S
    BY <1>1
  <2>2. genOf[s] \in generations /\ s \in leases[genOf[s]]
    BY <2>1 DEF LeaseInv, LeaseConsistency, SessionHasGeneration
  <2>3. genOf[s] \notin Emptied(S)
    BY <2>1, <2>2 DEF Emptied
  <2> QED
    BY <1>1, <1>2, <2>1, <2>2, <2>3 DEF TypeOK
<1>4. LeaseHasSession'
  <2> SUFFICES ASSUME NEW g \in generations', NEW s \in leases'[g]
               PROVE  s \in sessions' /\ genOf[s] = g
    BY DEF LeaseHasSession
  <2>1. g \in generations /\ g \in Requests
    BY <1>1 DEF TypeOK
  <2>2. s \in leases[g] /\ ~(s \in S \cap sessions /\ genOf[s] = g)
    BY <1>2, <2>1
  <2>3. s \in sessions /\ genOf[s] = g
    BY <2>1, <2>2 DEF LeaseInv, LeaseConsistency, LeaseHasSession
  <2> QED
    BY <1>1, <2>2, <2>3
<1>5. \A x \in sessions' \cup generations' : pc'[x] \in AdmittedPcs
  BY <1>1 DEF TypeOK, LeaseInv, PcKept
<1>6. \A r \in Requests : pc'[r] \notin AdmittedPcs => genOf'[r] = None
  BY DEF LeaseInv, PcKept
<1> QED
  BY <1>3, <1>4, <1>5, <1>6 DEF LeaseInv, LeaseConsistency

\* StopForViewer and resolveHandoffLocked stop sessions and nothing else here.
LEMMA LeaseStopForViewer ==
  ASSUME TypeOK, LeaseInv, PcKept, NEW id, StopForViewer(id), UNCHANGED genOf
  PROVE  LeaseInv'
<1>1. PICK S, credits : StopSessions(S, credits)
  BY DEF StopForViewer
<1> QED
  BY <1>1, LeaseStopped

\* Resolving a set of handoffs stops one session of each pair.
LEMMA LeaseResolved ==
  ASSUME TypeOK, LeaseInv, PcKept, NEW H, NEW b, Resolve(H, b), UNCHANGED genOf
  PROVE  LeaseInv'
<1>1. PICK S, credits : StopSessions(S, credits)
  BY DEF Resolve
<1> QED
  BY <1>1, LeaseStopped

\* A session that joins the leases of a generation, its own new one or another's.
LEMMA LeaseJoined ==
  ASSUME TypeOK, LeaseInv, PcKept, NEW r \in Requests, NEW g \in Requests,
         pc[r] \notin AdmittedPcs, pc'[r] \in AdmittedPcs, pc'[g] \in AdmittedPcs,
         sessions' = sessions \cup {r}, generations' = generations \cup {g},
         g = r \/ g \in generations,
         genOf' = [genOf EXCEPT ![r] = g],
         leases' = [leases EXCEPT ![g] = (IF g = r THEN {} ELSE leases[g]) \cup {r}]
  PROVE  LeaseInv'
<1>1. r \notin sessions /\ r \notin generations
  BY DEF LeaseInv
<1>2. SessionHasGeneration'
  BY <1>1 DEF TypeOK, LeaseInv, LeaseConsistency, SessionHasGeneration
<1>3. LeaseHasSession'
  BY <1>1 DEF TypeOK, LeaseInv, LeaseConsistency, LeaseHasSession
<1>4. \A x \in sessions' \cup generations' : pc'[x] \in AdmittedPcs
  BY DEF TypeOK, LeaseInv, PcKept
<1>5. \A x \in Requests : pc'[x] \notin AdmittedPcs => genOf'[x] = None
  BY DEF TypeOK, LeaseInv, PcKept
<1> QED
  BY <1>2, <1>3, <1>4, <1>5 DEF LeaseInv, LeaseConsistency

\* Every step preserves the lease invariant.
LEMMA LeaseStep == TypeOK /\ LeaseInv /\ [Next]_vars => LeaseInv'
<1> SUFFICES ASSUME TypeOK, LeaseInv, [Next]_vars PROVE LeaseInv'
  OBVIOUS
<1> USE DEF clientVars, lifeVars, genVars
<1>0. UNCHANGED pc => PcKept
  BY DEF PcKept
<1>1. ASSUME NEW r \in Requests, NEW v \in Viewers, NEW c \in Catalogs, NEW p \in
   Plans \cup {Direct}, Plan(r, v, c, p)
     PROVE  LeaseInv'
  <2>1. PcKept
    BY <1>1, GotoKept DEF Plan, AdmittedPcs, PCs, CreatePcs, OperationPcs
  <2> QED
    BY <1>1, <2>1, LeaseKept DEF Plan
<1>2. ASSUME NEW r \in Requests, Enter(r) PROVE LeaseInv'
  <2>1. PcKept
    BY <1>2, GotoKept DEF Enter, AdmittedPcs, PCs, CreatePcs, OperationPcs
  <2> QED
    BY <1>2, <2>1, LeaseKept DEF Enter
<1>3. ASSUME NEW r \in Requests, EnterRefused(r) PROVE LeaseInv'
  <2>1. PcKept
    BY <1>3, GotoKept DEF EnterRefused, FailedLabel, AdmittedPcs, PCs, CreatePcs,
       OperationPcs
  <2> QED
    BY <1>3, <2>1, LeaseKept DEF EnterRefused
<1>4. ASSUME NEW r \in Requests, CreateDirect(r) PROVE LeaseInv'
  <2>1. PcKept /\ pc'[r] \in AdmittedPcs
    BY <1>4, GotoKept DEF CreateDirect, Goto, TypeOK, AdmittedPcs, PCs, CreatePcs, OperationPcs
  <2>2. genOf[r] = None
    BY <1>4 DEF CreateDirect, LeaseInv, AdmittedPcs, PCs, CreatePcs, OperationPcs
  <2>3. LeaseConsistency'
    BY <1>4, <2>2 DEF CreateDirect, LeaseInv, LeaseConsistency,
       SessionHasGeneration, LeaseHasSession
  <2>4. \A x \in sessions' \cup generations' : pc'[x] \in AdmittedPcs
    BY <1>4, <2>1 DEF CreateDirect, LeaseInv, PcKept, TypeOK
  <2>5. \A x \in Requests : pc'[x] \notin AdmittedPcs => genOf'[x] = None
    BY <1>4, <2>1 DEF CreateDirect, LeaseInv, PcKept
  <2> QED
    BY <2>3, <2>4, <2>5 DEF LeaseInv
<1>5. ASSUME NEW r \in Requests, NEW g \in Requests, ShareGeneration(r, g)
     PROVE  LeaseInv'
  <2>1. PcKept /\ pc'[r] \in AdmittedPcs /\ pc[r] \notin AdmittedPcs
    BY <1>5, GotoKept DEF ShareGeneration, Goto, TypeOK, AdmittedPcs, PCs, CreatePcs, OperationPcs
  <2>2. g \in generations /\ g # r /\ pc'[g] \in AdmittedPcs
    BY <1>5, <2>1 DEF ShareGeneration, LeaseInv, PcKept, TypeOK
  <2>3. generations' = generations \cup {g}
    BY <1>5, <2>2 DEF ShareGeneration
  <2> QED
    BY <1>5, <2>1, <2>2, <2>3, LeaseJoined DEF ShareGeneration
<1>6. ASSUME NEW r \in Requests, Reserve(r) PROVE LeaseInv'
  <2>1. PcKept
    BY <1>6, GotoKept DEF Reserve, AdmittedPcs, PCs, CreatePcs, OperationPcs
  <2> QED
    BY <1>6, <2>1, LeaseKept DEF Reserve
<1>7. ASSUME NEW r \in Requests, CreateRefused(r) PROVE LeaseInv'
  <2>1. PcKept
    BY <1>7, GotoKept DEF CreateRefused, AdmittedPcs, PCs, CreatePcs, OperationPcs
  <2> QED
    BY <1>7, <2>1, LeaseKept DEF CreateRefused
<1>8. ASSUME NEW r \in Requests, InstallInputs(r) PROVE LeaseInv'
  <2>1. PcKept
    BY <1>8, GotoKept DEF InstallInputs, AdmittedPcs, PCs, CreatePcs, OperationPcs
  <2> QED
    BY <1>8, <2>1, LeaseKept DEF InstallInputs
<1>9. ASSUME NEW r \in Requests, InstallFails(r) PROVE LeaseInv'
  <2>1. PcKept
    BY <1>9, GotoKept DEF InstallFails, AdmittedPcs, PCs, CreatePcs, OperationPcs
  <2> QED
    BY <1>9, <2>1, LeaseKept DEF InstallFails
<1>10. ASSUME NEW r \in Requests, StartProcess(r) PROVE LeaseInv'
  <2>1. PcKept
    BY <1>10, GotoKept DEF StartProcess, AdmittedPcs, PCs, CreatePcs, OperationPcs
  <2> QED
    BY <1>10, <2>1, LeaseKept DEF StartProcess
<1>11. ASSUME NEW r \in Requests, StartFails(r) PROVE LeaseInv'
  <2>1. PcKept
    BY <1>11, GotoKept DEF StartFails, AdmittedPcs, PCs, CreatePcs, OperationPcs
  <2> QED
    BY <1>11, <2>1, LeaseKept DEF StartFails
<1>12. ASSUME NEW r \in Requests, Abort(r) PROVE LeaseInv'
  <2>1. PcKept
    BY <1>12, GotoKept DEF Abort, AdmittedPcs, PCs, CreatePcs, OperationPcs
  <2> QED
    BY <1>12, <2>1, LeaseKept DEF Abort
<1>13. ASSUME NEW r \in Requests, Admit(r) PROVE LeaseInv'
  <2>1. PcKept /\ pc'[r] \in AdmittedPcs /\ pc[r] \notin AdmittedPcs
    BY <1>13, GotoKept DEF Admit, Goto, TypeOK, AdmittedPcs, PCs, CreatePcs, OperationPcs
  <2>2. leases' = [leases EXCEPT ![r] = (IF r = r THEN {} ELSE leases[r]) \cup {r}]
    BY <1>13 DEF Admit
  <2> QED
    BY <1>13, <2>1, <2>2, LeaseJoined DEF Admit
<1>14. ASSUME NEW r \in Requests, AdmitRefused(r) PROVE LeaseInv'
  <2>1. PcKept
    BY <1>14, GotoKept DEF AdmitRefused, AdmittedPcs, PCs, CreatePcs, OperationPcs
  <2> QED
    BY <1>14, <2>1, LeaseKept DEF AdmitRefused
<1>15. ASSUME NEW r \in Requests, Discard(r) PROVE LeaseInv'
  <2>1. PcKept
    BY <1>15, GotoKept DEF Discard, AdmittedPcs, PCs, CreatePcs, OperationPcs
  <2> QED
    BY <1>15, <2>1, LeaseKept DEF Discard
<1>16. ASSUME NEW r \in Requests, Discarded(r) PROVE LeaseInv'
  <2>1. PcKept
    BY <1>16, GotoKept DEF Discarded, AdmittedPcs, PCs, CreatePcs, OperationPcs
  <2> QED
    BY <1>16, <2>1, LeaseKept DEF Discarded
<1>17. ASSUME NEW r \in Requests, ManifestWritten(r) PROVE LeaseInv'
  <2>1. PcKept
    BY <1>17, GotoKept DEF ManifestWritten, AdmittedPcs, PCs, CreatePcs,
       OperationPcs
  <2> QED
    BY <1>17, <2>1, LeaseKept DEF ManifestWritten
<1>18. ASSUME NEW r \in Requests, ManifestFails(r) PROVE LeaseInv'
  <2>1. PcKept
    BY <1>18, GotoKept DEF ManifestFails, AdmittedPcs, PCs, CreatePcs, OperationPcs
  <2> QED
    BY <1>18, <2>1, LeaseStopForViewer DEF ManifestFails
<1>19. ASSUME NEW r \in Requests, Abandon(r) PROVE LeaseInv'
  <2>1. PcKept
    BY <1>19, GotoKept DEF Abandon, AdmittedPcs, PCs, CreatePcs, OperationPcs
  <2> QED
    BY <1>19, <2>1, LeaseKept DEF Abandon
<1>20. ASSUME NEW r \in Requests, ConfirmAdmission(r) PROVE LeaseInv'
  <2>1. PcKept
    BY <1>20, GotoKept DEF ConfirmAdmission, AdmittedPcs, PCs, CreatePcs,
       OperationPcs
  <2> QED
    BY <1>20, <2>1, LeaseKept DEF ConfirmAdmission
<1>21. ASSUME NEW r \in Requests, Reject(r) PROVE LeaseInv'
  <2>1. PcKept
    BY <1>21, GotoKept DEF Reject, AdmittedPcs, PCs, CreatePcs, OperationPcs
  <2> QED
    BY <1>21, <2>1, LeaseStopForViewer DEF Reject
<1>22. ASSUME NEW r \in Requests, Unlink(r) PROVE LeaseInv'
  <2>1. PcKept
    BY <1>22, GotoKept DEF Unlink, AdmittedPcs, PCs, CreatePcs, OperationPcs
  <2> QED
    BY <1>22, <2>1, LeaseKept DEF Unlink
<1>23. ASSUME NEW r \in Requests, FinishViewerCreate(r) PROVE LeaseInv'
  <2>1. PcKept
    BY <1>23, GotoKept DEF FinishViewerCreate, FailedLabel, AdmittedPcs, PCs,
       CreatePcs, OperationPcs
  <2> QED
    BY <1>23, <2>1, LeaseKept DEF FinishViewerCreate
<1>24. ASSUME NEW r \in Requests, BeginPlayback(r) PROVE LeaseInv'
  <2>1. PcKept
    BY <1>24, GotoKept DEF BeginPlayback, AdmittedPcs, PCs, CreatePcs, OperationPcs
  <2> QED
    BY <1>24, <2>1, LeaseKept DEF BeginPlayback
<1>25. ASSUME NEW r \in Requests, PlanDropped(r) PROVE LeaseInv'
  <2>1. PcKept
    BY <1>25, GotoKept DEF PlanDropped, AdmittedPcs, PCs, CreatePcs, OperationPcs
  <2> QED
    BY <1>25, <2>1, LeaseStopForViewer DEF PlanDropped
<1>26. ASSUME NEW r \in Requests, StopSupersededPlans(r) PROVE LeaseInv'
  <2>1. PcKept
    BY <1>26, GotoKept DEF StopSupersededPlans, AdmittedPcs, PCs, CreatePcs,
       OperationPcs
  <2> QED
    BY <1>26, <2>1, LeaseKept DEF StopSupersededPlans
<1>27. ASSUME NEW r \in Requests, PlanAnswered(r) PROVE LeaseInv'
  <2>1. PcKept
    BY <1>27, GotoKept DEF PlanAnswered, AdmittedPcs, PCs, CreatePcs, OperationPcs
  <2> QED
    BY <1>27, <2>1, LeaseKept DEF PlanAnswered
<1>28. ASSUME NEW key \in Viewers \X Catalogs, SetWatched(key) PROVE LeaseInv'
  BY <1>0, <1>28, LeaseKept DEF SetWatched
<1>29. ASSUME NEW s \in Requests, SeekRetained(s) PROVE LeaseInv'
  BY <1>0, <1>29, LeaseKept DEF SeekRetained
<1>30. ASSUME NEW r \in Requests, NEW s \in Requests, Seek(r, s) PROVE LeaseInv'
  <2>1. PcKept
    BY <1>30, GotoKept DEF Seek, AdmittedPcs, PCs, CreatePcs, OperationPcs
  <2> QED
    BY <1>30, <2>1, LeaseKept DEF Seek
<1>31. ASSUME NEW r \in Requests, SeekPromoted(r) PROVE LeaseInv'
  <2>1. PcKept
    BY <1>31, GotoKept DEF SeekPromoted, AdmittedPcs, PCs, CreatePcs, OperationPcs
  <2> QED
    BY <1>31, <2>1, LeaseKept DEF SeekPromoted
<1>32. ASSUME NEW r \in Requests, SeekSwapped(r) PROVE LeaseInv'
  <2>1. PcKept
    BY <1>32, GotoKept DEF SeekSwapped, AdmittedPcs, PCs, CreatePcs, OperationPcs
  <2> QED
    BY <1>32, <2>1, LeaseStopped DEF SeekSwapped
<1>33. ASSUME NEW r \in Requests, SeekDropped(r) PROVE LeaseInv'
  <2>1. PcKept
    BY <1>33, GotoKept DEF SeekDropped, AdmittedPcs, PCs, CreatePcs, OperationPcs
  <2> QED
    BY <1>33, <2>1, LeaseKept DEF SeekDropped
<1>34. ASSUME NEW r \in Requests, DropCandidate(r) PROVE LeaseInv'
  <2>1. PcKept
    BY <1>34, GotoKept DEF DropCandidate, AdmittedPcs, PCs, CreatePcs, OperationPcs
  <2> QED
    BY <1>34, <2>1, LeaseStopForViewer DEF DropCandidate
<1>35. ASSUME NEW r \in Requests, NEW s \in Requests, NEW p \in Plans \cup {Direct},
   Replace(r, s, p)
     PROVE  LeaseInv'
  <2>1. PcKept
    BY <1>35, GotoKept DEF Replace, ReserveSource, AdmittedPcs, PCs, CreatePcs,
       OperationPcs
  <2> QED
    BY <1>35, <2>1, LeaseKept DEF Replace, ReserveSource
<1>36. ASSUME NEW r \in Requests, NEW s \in Requests, NEW p \in Plans \cup {Direct},
   PrepareHandoff(r, s, p)
     PROVE  LeaseInv'
  <2>1. PcKept
    BY <1>36, GotoKept DEF PrepareHandoff, ReserveSource, AdmittedPcs, PCs,
       CreatePcs, OperationPcs
  <2> QED
    BY <1>36, <2>1, LeaseKept DEF PrepareHandoff, ReserveSource
<1>37. ASSUME NEW r \in Requests, ReplaceSwapped(r) PROVE LeaseInv'
  <2>1. PcKept
    BY <1>37, GotoKept DEF ReplaceSwapped, AdmittedPcs, PCs, CreatePcs, OperationPcs
  <2>2. CASE OwnerStoppedOld(r)
    BY <1>37, <2>1, <2>2, LeaseKept DEF ReplaceSwapped
  <2>3. CASE ~OwnerStoppedOld(r)
    BY <1>37, <2>1, <2>3, LeaseStopped DEF ReplaceSwapped
  <2> QED
    BY <2>2, <2>3
<1>38. ASSUME NEW r \in Requests, HandoffActivated(r) PROVE LeaseInv'
  <2>1. PcKept
    BY <1>38, GotoKept DEF HandoffActivated, AdmittedPcs, PCs, CreatePcs,
       OperationPcs
  <2> QED
    BY <1>38, <2>1, LeaseKept DEF HandoffActivated
<1>39. ASSUME NEW r \in Requests, HandoffPromoted(r) PROVE LeaseInv'
  <2>1. PcKept
    BY <1>39, GotoKept DEF HandoffPromoted, AdmittedPcs, PCs, CreatePcs,
       OperationPcs
  <2> QED
    BY <1>39, <2>1, LeaseKept DEF HandoffPromoted
<1>40. ASSUME NEW r \in Requests, ReplacementDropped(r) PROVE LeaseInv'
  <2>1. PcKept
    BY <1>40, GotoKept DEF ReplacementDropped, AdmittedPcs, PCs, CreatePcs,
       OperationPcs
  <2> QED
    BY <1>40, <2>1, LeaseKept DEF ReplacementDropped
<1>41. ASSUME NEW r \in Requests, Cleanup(r) PROVE LeaseInv'
  <2>1. PcKept
    BY <1>41, GotoKept DEF Cleanup, AdmittedPcs, PCs, CreatePcs, OperationPcs
  <2> QED
    BY <1>41, <2>1, LeaseKept DEF Cleanup
<1>42. ASSUME NEW h \in Requests, NEW isAttached \in BOOLEAN, ResolveHandoff(h,
   isAttached)
     PROVE  LeaseInv'
  BY <1>0, <1>42, LeaseResolved DEF ResolveHandoff
<1>43. ASSUME NEW s \in Requests, ExpireHandoff(s) PROVE LeaseInv'
  BY <1>0, <1>43, LeaseResolved DEF ExpireHandoff
<1>44. ASSUME NEW s \in Requests, Lookup(s) PROVE LeaseInv'
  BY <1>0, <1>44, LeaseKept DEF Lookup, Renew
<1>45. ASSUME NEW s \in Requests, LookupExpired(s) PROVE LeaseInv'
  BY <1>0, <1>45, LeaseStopForViewer DEF LookupExpired
<1>46. ASSUME NEW s \in Requests, Heartbeat(s) PROVE LeaseInv'
  BY <1>0, <1>46, LeaseKept DEF Heartbeat, Renew
<1>47. ASSUME NEW g \in Requests, InputFile(g) PROVE LeaseInv'
  BY <1>0, <1>47, LeaseKept DEF InputFile
<1>48. ASSUME NEW s \in Requests, SubtitleStart(s) PROVE LeaseInv'
  BY <1>0, <1>48, LeaseKept DEF SubtitleStart
<1>49. ASSUME NEW s \in Requests, SubtitleRelease(s) PROVE LeaseInv'
  BY <1>0, <1>49, LeaseKept DEF SubtitleRelease
<1>50. ASSUME NEW s \in Requests, Stop(s) PROVE LeaseInv'
  BY <1>0, <1>50, LeaseStopForViewer DEF Stop
<1>51. ASSUME NEW v \in Viewers, StopViewer(v) PROVE LeaseInv'
  BY <1>0, <1>51, LeaseKept DEF StopViewer
<1>52. ASSUME NEW k \in Requests \cup Viewers, NEW s \in Requests, StopQueued(k, s)
     PROVE  LeaseInv'
  BY <1>0, <1>52, LeaseStopForViewer DEF StopQueued
<1>53. ASSUME NEW c \in Catalogs, StopCatalog(c) PROVE LeaseInv'
  BY <1>0, <1>53, LeaseStopped DEF StopCatalog
<1>54. ASSUME NEW s \in Requests, StopOwnerSession(s) PROVE LeaseInv'
  <2>1. PICK credits : StopSessions({s}, credits)
    BY <1>54 DEF StopOwnerSession
  <2> QED
    BY <1>0, <1>54, <2>1, LeaseStopped DEF StopOwnerSession
<1>55. ASSUME NEW g \in Requests, ProcessExit(g) PROVE LeaseInv'
  BY <1>0, <1>55, LeaseKept DEF ProcessExit
<1>56. ASSUME NEW g \in Requests, Retire(g) PROVE LeaseInv'
  BY <1>0, <1>56, LeaseKept DEF Retire
<1>57. ASSUME SweepExpire PROVE LeaseInv'
  <2> DEFINE gone == sessions \cap (Overdue \cup Late({req[h].old : h \in Overdue}
                                                      \cap sessions, Overdue))
  <2>1. /\ sessions' = sessions \ gone /\ generations' = generations \ Emptied(Overdue)
        /\ \A g \in generations : leases'[g] = {s \in leases[g] :
                                          ~(s \in gone /\ genOf[s] = g)}
        /\ UNCHANGED <<genOf, pc>>
    BY <1>57 DEF SweepExpire, TypeOK
  <2>2. \A g \in Emptied(Overdue) : \A s \in leases[g] : s \in gone
    BY DEF Emptied
  <2> HIDE DEF gone
  <2>3. SessionHasGeneration'
    BY <2>1, <2>2 DEF LeaseInv, LeaseConsistency, SessionHasGeneration
  <2>4. LeaseHasSession'
    BY <2>1 DEF LeaseInv, LeaseConsistency, LeaseHasSession
  <2>5. /\ \A x \in sessions' \cup generations' : pc'[x] \in AdmittedPcs
        /\ \A r \in Requests : pc'[r] \notin AdmittedPcs => genOf'[r] = None
    BY <2>1 DEF LeaseInv
  <2> QED
    BY <2>3, <2>4, <2>5 DEF LeaseInv, LeaseConsistency
<1>58. ASSUME NEW bad \in SUBSET snapshot, SweepReclaim(bad) PROVE LeaseInv'
  <2> DEFINE D == Reclaimable(bad)
             held == UNION {leases[g] : g \in D}
  <2>1. /\ sessions' = sessions \ held /\ generations' = generations \ D
        /\ UNCHANGED <<genOf, pc, leases>>
    BY <1>58 DEF SweepReclaim, Detach
  <2>2. D \subseteq generations
    BY DEF Reclaimable
  <2> HIDE DEF D
  <2>3. SessionHasGeneration'
    BY <2>1 DEF LeaseInv, LeaseConsistency, SessionHasGeneration
  <2>4. LeaseHasSession'
    BY <2>1, <2>2 DEF LeaseInv, LeaseConsistency, LeaseHasSession
  <2>5. /\ \A x \in sessions' \cup generations' : pc'[x] \in AdmittedPcs
        /\ \A r \in Requests : pc'[r] \notin AdmittedPcs => genOf'[r] = None
    BY <2>1 DEF LeaseInv
  <2> QED
    BY <2>3, <2>4, <2>5 DEF LeaseInv, LeaseConsistency
<1>59. ASSUME SweepDone PROVE LeaseInv'
  BY <1>0, <1>59, LeaseKept DEF SweepDone
<1>60. ASSUME JanitorStops PROVE LeaseInv'
  BY <1>0, <1>60, LeaseKept DEF JanitorStops
<1>61. ASSUME Shutdown PROVE LeaseInv'
  BY <1>61 DEF Shutdown, LeaseInv, LeaseConsistency, SessionHasGeneration,
     LeaseHasSession
<1>62. ASSUME ShutdownStartsDone PROVE LeaseInv'
  BY <1>0, <1>62, LeaseKept DEF ShutdownStartsDone, ShutdownMoves
<1>63. ASSUME ShutdownStartsTimeout PROVE LeaseInv'
  BY <1>0, <1>63, LeaseKept DEF ShutdownStartsTimeout, ShutdownMoves
<1>64. ASSUME ShutdownJanitorDone PROVE LeaseInv'
  BY <1>0, <1>64, LeaseKept DEF ShutdownJanitorDone, ShutdownMoves
<1>65. ASSUME ShutdownJanitorTimeout PROVE LeaseInv'
  BY <1>0, <1>65, LeaseKept DEF ShutdownJanitorTimeout, ShutdownMoves
<1>66. ASSUME ShutdownDone PROVE LeaseInv'
  BY <1>0, <1>66, LeaseKept DEF ShutdownDone, ShutdownMoves
<1>67. ASSUME Tick PROVE LeaseInv'
  BY <1>0, <1>67, LeaseKept DEF Tick
<1>68. CASE UNCHANGED vars
  BY <1>0, <1>68, LeaseKept DEF vars
<1> QED
  BY <1>1, <1>2, <1>3, <1>4, <1>5, <1>6, <1>7, <1>8, <1>9, <1>10, <1>11, <1>12,
     <1>13, <1>14, <1>15, <1>16, <1>17, <1>18, <1>19, <1>20, <1>21, <1>22, <1>23,
     <1>24, <1>25, <1>26, <1>27, <1>28, <1>29, <1>30, <1>31, <1>32, <1>33, <1>34,
     <1>35, <1>36, <1>37, <1>38, <1>39, <1>40, <1>41, <1>42, <1>43, <1>44, <1>45,
     <1>46, <1>47, <1>48, <1>49, <1>50, <1>51, <1>52, <1>53, <1>54, <1>55, <1>56,
     <1>57, <1>58, <1>59, <1>60, <1>61, <1>62, <1>63, <1>64, <1>65, <1>66, <1>67,
     <1>68 DEF Next, Issue, CreateStep, OperationStep, SessionStep, JanitorStep,
     ShutdownStep

\* No session, no lease.
LEMMA LeaseInit == Init => LeaseInv
BY DEF Init, LeaseInv, LeaseConsistency, SessionHasGeneration, LeaseHasSession

\* The lease accounting of the manager, for any number of concurrent operations:
\* no live session loses its generation, no lease outlives its session.
THEOREM LeasesConsistent == Spec => []LeaseConsistency
<1>1. LeaseInv => LeaseConsistency
  BY DEF LeaseInv
<1> QED
  BY TypeInit, TypeStep, LeaseInit, LeaseStep, <1>1, PTL DEF Spec

-----------------------------------------------------------------------------
(* Accounts: slots, job keys, fences, processes and directories.           *)

\* Before FFmpeg is started, and where starting it has failed.
UnstartedPcs == {"idle", "issued", "entered", "reserved", "starting", "aborting"}
\* Where a create itself owns the directory and the process, and the input token.
HoldingPcs == {"starting", "started", "aborting", "discarding"}
InputPcs == {"starting", "started", "discarding"}

\* A request that has not started FFmpeg, or failed to, has no process.
NeverRan == \A r \in Requests : pc[r] \in UnstartedPcs => process[r] = "none"

\* A closed manager has nothing left to serve, an open one has detached nothing.
ClosedClears ==
  /\ ~closed => shutdown = "open" /\ shutGens = {}
  /\ closed => shutdown # "open" /\ sessions = {} /\ generations = {}

\* Past its first wait, Shutdown finds no create between Add and Done of startWG,
\* and none gets there any more.
StartsReturned ==
  shutdown \in {"janitor", "retire", "done"} => \A r \in Requests : pc[r] \notin StartWGPcs

\* What Shutdown detached is being retired or has been.
ShutdownRetires ==
  /\ shutdown = "retire" => \A g \in shutGens \ retiring : process[g] # "running" /\ g \notin dirs
  /\ shutdown = "done" => \A g \in shutGens : process[g] # "running" /\ g \notin dirs

\* A create that was in flight when StopViewer ran finds its viewer fenced for as
\* long as it runs, and its session, if it had one by then, on the list.
DoomedFenced ==
  \A r \in doomed :
    /\ req[r].viewer \in Viewers /\ pc[r] \notin {"idle", "issued"}
    /\ InCreate(r) => Revoked(req[r].viewer)
    /\ r \in sessions => r \in stopQueue[req[r].viewer]

\* The parts that need no counting.
OwnershipInv ==
  /\ ProcessesOwned /\ DirsOwned /\ SubtitleWorkBounded /\ InputsOwned
  /\ NeverRan /\ ClosedClears /\ StartsReturned /\ ShutdownRetires /\ DoomedFenced

\* The inductive invariant behind the accounts.
AccountInv == OwnershipInv /\ ReservationsBalanced /\ FenceTracksCreates /\ CapacityBound

\* A move between two control points that no account tells apart, or that only
\* leaves one it may leave.
QuietMove(a, b) ==
  /\ a \in CreatePcs <=> b \in CreatePcs
  /\ a \in ReservedPcs <=> b \in ReservedPcs
  /\ a \in PendingJobPcs <=> b \in PendingJobPcs
  /\ a \in HoldingPcs <=> b \in HoldingPcs
  /\ a \in InputPcs <=> b \in InputPcs
  /\ b \in UnstartedPcs => a \in UnstartedPcs
  /\ b \in StartWGPcs => a \in StartWGPcs
  /\ b \in {"idle", "issued"} => a \in {"idle", "issued"}
PcQuiet == \A x \in Requests : QuietMove(pc[x], pc'[x])

\* The arguments of an operation are set when it is issued and never again.
ArgsKept == \A x \in Requests : pc[x] # "idle" => req'[x] = req[x]

\* Sessions and generations only go, and a generation that goes loses its token and
\* is retired.
LifeShrinks ==
  /\ sessions' \subseteq sessions /\ subtitleJobs' \subseteq sessions'
  /\ generations' \subseteq generations
  /\ retiring \subseteq retiring' /\ generations \ generations' \subseteq retiring'
  /\ inputs' \subseteq inputs \ (generations \ generations')

\* StopViewer's list keeps every session that is still to be stopped.
QueueKept ==
  \A v \in Viewers : \A s \in stopQueue[v] : s \in sessions' => s \in stopQueue'[v]

\* Most steps: no account changes.
Ordinary ==
  /\ LifeShrinks /\ PcQuiet /\ ArgsKept /\ QueueKept
  /\ UNCHANGED <<process, dirs, starting, pendingJobs, revokedViewers, pendingViewers,
                 closed, shutdown, shutGens, doomed>>

\* A request that is alone in moving, and moves quietly, is a quiet step.
LEMMA GotoQuiet ==
  ASSUME TypeOK, NEW r \in Requests, NEW label, Goto(r, label), QuietMove(pc[r], label)
  PROVE  PcQuiet
<1>1. \A x \in Requests : pc'[x] = IF x = r THEN label ELSE pc[x]
  BY DEF TypeOK, Goto
<1>2. \A x \in Requests : QuietMove(pc[x], pc[x])
  BY DEF QuietMove
<1> QED
  BY <1>1, <1>2 DEF PcQuiet

\* A step that leaves the control points alone is quiet.
LEMMA StillQuiet == UNCHANGED pc => PcQuiet
BY DEF PcQuiet, QuietMove

\* Reservations depend on who is reserved and on what for.
LEMMA ReservationsKept ==
  ASSUME TypeOK, ReservationsBalanced, ArgsKept, UNCHANGED <<starting, pendingJobs>>,
         \A x \in Requests : /\ pc[x] \in ReservedPcs <=> pc'[x] \in ReservedPcs
                             /\ pc[x] \in PendingJobPcs <=> pc'[x] \in PendingJobPcs
  PROVE  ReservationsBalanced'
<1>1. {r \in Requests : pc'[r] \in ReservedPcs} = {r \in Requests : pc[r] \in ReservedPcs}
  OBVIOUS
<1>2. {r \in Requests : pc'[r] \in PendingJobPcs} = {r \in Requests : pc[r] \in PendingJobPcs}
  OBVIOUS
<1>3. \A x \in Requests : pc[x] \in PendingJobPcs => Job(x)' = Job(x)
  BY DEF ArgsKept, Job, PendingJobPcs, ReservedPcs
<1>4. starting' = Cardinality({r \in Requests : pc'[r] \in ReservedPcs})
  BY <1>1 DEF ReservationsBalanced
<1>5. pendingJobs' = {Job(r)' : r \in {x \in Requests : pc'[x] \in PendingJobPcs}}
  <2>1. pendingJobs = {Job(r) : r \in {x \in Requests : pc[x] \in PendingJobPcs}}
    BY DEF ReservationsBalanced
  <2> QED
    BY <1>2, <1>3, <2>1
<1>6. \A q, r \in Requests :
        pc'[q] \in PendingJobPcs /\ pc'[r] \in PendingJobPcs /\ Job(q)' = Job(r)' => q = r
  BY <1>3 DEF ReservationsBalanced
<1> QED
  BY <1>4, <1>5, <1>6 DEF ReservationsBalanced

\* The fence depends on who is inside create and for whom.
LEMMA FencesKept ==
  ASSUME TypeOK, FenceTracksCreates, ArgsKept, UNCHANGED <<revokedViewers, pendingViewers>>,
         \A x \in Requests : pc[x] \in CreatePcs <=> pc'[x] \in CreatePcs
  PROVE  FenceTracksCreates'
<1>1. ASSUME NEW v \in Viewers
      PROVE  {r \in Requests : InCreate(r)' /\ req'[r].viewer = v}
               = {r \in Requests : InCreate(r) /\ req[r].viewer = v}
  BY DEF ArgsKept, InCreate, CreatePcs
<1>2. \A v \in Viewers : pendingViewers'[v] =
        Cardinality({r \in Requests : InCreate(r)' /\ req'[r].viewer = v})
  BY <1>1 DEF FenceTracksCreates
<1> QED
  BY <1>2 DEF FenceTracksCreates

\* Fewer generations and as many reservations stay within the limit.
LEMMA CapacityKept ==
  ASSUME TypeOK, CapacityBound, generations' \subseteq generations, starting' = starting
  PROVE  CapacityBound'
<1>1. IsFiniteSet(generations)
  BY FiniteAssumption, FS_Subset DEF TypeOK
<1>2. /\ Cardinality(generations') <= Cardinality(generations)
      /\ Cardinality(generations') \in Nat /\ Cardinality(generations) \in Nat
  BY <1>1, FS_Subset, FS_CardinalityType
<1>3. starting \in Int /\ MaxGenerations \in Nat
  BY LimitAssumption DEF TypeOK
<1> QED
  BY <1>2, <1>3 DEF CapacityBound

\* An ordinary step keeps every account.
LEMMA OrdinaryKeeps ==
  ASSUME TypeOK, AccountInv, Ordinary
  PROVE  AccountInv'
<1>1. \A x \in Requests : QuietMove(pc[x], pc'[x])
  BY DEF Ordinary, PcQuiet
<1>2. ReservationsBalanced'
  BY <1>1, ReservationsKept DEF Ordinary, AccountInv, QuietMove
<1>3. FenceTracksCreates'
  BY <1>1, FencesKept DEF Ordinary, AccountInv, QuietMove
<1>4. CapacityBound'
  BY CapacityKept DEF Ordinary, AccountInv, LifeShrinks
<1>5. ProcessesOwned' /\ DirsOwned'
  <2>1. \A g \in Requests : Owned(g) => Owned(g)'
    BY <1>1 DEF Ordinary, LifeShrinks, QuietMove, HoldingPcs, Owned
  <2> QED
    BY <2>1 DEF Ordinary, AccountInv, OwnershipInv, ProcessesOwned, DirsOwned, TypeOK
<1>6. SubtitleWorkBounded' /\ InputsOwned'
  BY <1>1 DEF Ordinary, LifeShrinks, QuietMove, InputPcs, AccountInv, OwnershipInv,
     SubtitleWorkBounded, InputsOwned, TypeOK
<1>7. NeverRan' /\ StartsReturned'
  BY <1>1 DEF Ordinary, QuietMove, AccountInv, OwnershipInv, NeverRan, StartsReturned
<1>8. ClosedClears' /\ ShutdownRetires'
  BY DEF Ordinary, LifeShrinks, AccountInv, OwnershipInv, ClosedClears, ShutdownRetires
<1>9. DoomedFenced'
  <2> SUFFICES ASSUME NEW r \in doomed
               PROVE  /\ req'[r].viewer \in Viewers /\ pc'[r] \notin {"idle", "issued"}
                      /\ InCreate(r)' => req'[r].viewer \in revokedViewers
                      /\ r \in sessions' => r \in stopQueue'[req'[r].viewer]
    BY DEF Ordinary, DoomedFenced, Revoked
  <2>1. r \in Requests /\ req'[r] = req[r]
    BY DEF AccountInv, OwnershipInv, DoomedFenced, Ordinary, ArgsKept, TypeOK
  <2>2. CASE r \notin sessions'
    BY <1>1, <2>1, <2>2 DEF AccountInv, OwnershipInv, DoomedFenced, Revoked, InCreate, QuietMove
  <2>3. CASE r \in sessions'
    <3>1. r \in stopQueue[req[r].viewer]
      BY <2>3 DEF AccountInv, OwnershipInv, DoomedFenced, Ordinary, LifeShrinks
    <3> QED
      BY <1>1, <2>1, <3>1, <2>3 DEF AccountInv, OwnershipInv, DoomedFenced, Revoked, InCreate,
         QuietMove, Ordinary, QueueKept
  <2> QED
    BY <2>2, <2>3
<1> QED
  BY <1>2, <1>3, <1>4, <1>5, <1>6, <1>7, <1>8, <1>9 DEF AccountInv, OwnershipInv

\* The moves of the operations that no account notices.
LEMMA QuietMoves ==
  /\ QuietMove("idle", "issued") /\ QuietMove("entered", "finishing")
  /\ \A b \in {"done", "cleanupFailed"} : QuietMove("issued", b)
  /\ QuietMove("retiring", "finishing") /\ QuietMove("waiting", "manifest")
  /\ QuietMove("waiting", "abandoned") /\ QuietMove("rejected", "unlinking")
  /\ QuietMove("unlinking", "finishing")
  /\ \A a, b \in {"created", "accepted", "superseding", "dropping", "cleanupAccepted",
                  "cleanupFailed", "done"} : QuietMove(a, b)
BY DEF QuietMove, CreatePcs, ReservedPcs, PendingJobPcs, HoldingPcs, InputPcs, UnstartedPcs,
       StartWGPcs

\* stopSessionLocked on any set of sessions.
LEMMA StopShrinks ==
  ASSUME TypeOK, AccountInv, NEW S, NEW credits, StopSessions(S, credits)
  PROVE  LifeShrinks
<1>1. subtitleJobs \subseteq sessions
  BY DEF AccountInv, OwnershipInv, SubtitleWorkBounded
<1>2. Emptied(S) \subseteq generations
  BY DEF Emptied
<1> QED
  BY <1>1, <1>2 DEF StopSessions, LifeShrinks, CancelledJobs

\* StopForViewer: a live session it is asked for is gone afterwards.
LEMMA StopForViewerShrinks ==
  ASSUME TypeOK, AccountInv, NEW id, StopForViewer(id)
  PROVE  LifeShrinks /\ id \notin sessions'
<1>1. PICK R, target :
        /\ target \in StopTargets(id, R)
        /\ LET H == {h \in handoffs : target \in sessions /\ sessionHandoffs[target] = h}
               S == ({target} \cap sessions) \cup UNION {Pair(h) : h \in H}
           IN StopSessions(S, CreditsWithout(H))
  BY DEF StopForViewer
<1>2. PICK S, credits : StopSessions(S, credits) /\ {target} \cap sessions \subseteq S
  BY <1>1
<1>3. id \in sessions => target = id
  BY <1>1 DEF StopTargets
<1> QED
  BY <1>2, <1>3, StopShrinks DEF StopSessions

\* Resolving handoffs stops sessions.
LEMMA ResolveShrinks ==
  ASSUME TypeOK, AccountInv, NEW H, NEW b, Resolve(H, b)
  PROVE  LifeShrinks
<1>1. PICK S, credits : StopSessions(S, credits)
  BY DEF Resolve
<1> QED
  BY <1>1, StopShrinks

\* What a step leaves alone.
LEMMA Still ==
  /\ AccountInv /\ UNCHANGED <<sessions, subtitleJobs, generations, inputs, retiring>> => LifeShrinks
  /\ UNCHANGED req => ArgsKept
  /\ UNCHANGED stopQueue => QueueKept
<1>1. AccountInv /\ UNCHANGED <<sessions, subtitleJobs, generations, inputs, retiring>> => LifeShrinks
  BY DEF AccountInv, OwnershipInv, SubtitleWorkBounded, LifeShrinks
<1> QED
  BY <1>1 DEF ArgsKept, QueueKept

\* An operation is issued.
LEMMA IssueKeeps ==
  ASSUME TypeOK, AccountInv, NEW r \in Requests, pc[r] = "idle", Goto(r, "issued"),
         \A x \in Requests : x # r => req'[x] = req[x],
         UNCHANGED <<lifeVars, process, dirs, admitVars, closed, shutdown, shutGens, stopQueue,
                     doomed>>
  PROVE  AccountInv'
<1>1. PcQuiet
  BY GotoQuiet, QuietMoves
<1>2. ArgsKept
  BY DEF ArgsKept
<1>3. LifeShrinks /\ QueueKept
  BY Still DEF lifeVars
<1> QED
  BY <1>1, <1>2, <1>3, OrdinaryKeeps DEF Ordinary, admitVars

\* A quiet move of one request that stops sessions at most.
LEMMA MoveKeeps ==
  ASSUME TypeOK, AccountInv, NEW r \in Requests, NEW label, Goto(r, label),
         QuietMove(pc[r], label), LifeShrinks, UNCHANGED req, QueueKept,
         UNCHANGED <<process, dirs, admitVars, closed, shutdown, shutGens, doomed>>
  PROVE  AccountInv'
<1>1. PcQuiet
  BY GotoQuiet
<1>2. ArgsKept
  BY Still
<1> QED
  BY <1>1, <1>2, OrdinaryKeeps DEF Ordinary, admitVars

\* A step of nobody's control that stops sessions at most.
LEMMA ShrinkKeeps ==
  ASSUME TypeOK, AccountInv, LifeShrinks, QueueKept, UNCHANGED clientVars,
         UNCHANGED <<process, dirs, admitVars, closed, shutdown, shutGens, doomed>>
  PROVE  AccountInv'
<1>1. PcQuiet /\ ArgsKept
  BY StillQuiet, Still DEF clientVars
<1> QED
  BY <1>1, OrdinaryKeeps DEF Ordinary, admitVars

-----------------------------------------------------------------------------
(* The steps that change an account.                                       *)

\* Where a request goes.
LEMMA GotoFacts ==
  ASSUME TypeOK, NEW r \in Requests, NEW label, Goto(r, label)
  PROVE  pc'[r] = label /\ \A x \in Requests : x # r => pc'[x] = pc[x]
BY DEF TypeOK, Goto

\* Counting: one more, one less.
LEMMA Counting ==
  ASSUME NEW S \in SUBSET Requests, NEW r \in Requests
  PROVE  /\ IsFiniteSet(S) /\ Cardinality(S) \in Nat
         /\ r \notin S => Cardinality(S \cup {r}) = Cardinality(S) + 1
         /\ r \in S => Cardinality(S \ {r}) = Cardinality(S) - 1
         /\ S # {} => Cardinality(S) > 0
<1>1. IsFiniteSet(S)
  BY FiniteAssumption, FS_Subset
<1>2. Cardinality(S) \in Nat
  BY <1>1, FS_CardinalityType
<1>3. r \notin S => Cardinality(S \cup {r}) = Cardinality(S) + 1
  BY <1>1, FS_AddElement
<1>4. r \in S => Cardinality(S \ {r}) = Cardinality(S) - 1
  BY <1>1, FS_RemoveElement
<1>5. S # {} => Cardinality(S) # 0
  BY <1>1, FS_EmptySet
<1> QED
  BY <1>1, <1>2, <1>3, <1>4, <1>5

\* A reservation is made: one more slot and one more job key.
LEMMA ReservationMade ==
  ASSUME TypeOK, ReservationsBalanced, NEW r \in Requests, UNCHANGED req,
         pc[r] \notin PendingJobPcs, pc'[r] \in ReservedPcs,
         \A x \in Requests : x # r => pc'[x] = pc[x],
         Job(r) \notin pendingJobs,
         starting' = starting + 1, pendingJobs' = pendingJobs \cup {Job(r)}
  PROVE  ReservationsBalanced'
<1> DEFINE R == {x \in Requests : pc[x] \in ReservedPcs}
           J == {x \in Requests : pc[x] \in PendingJobPcs}
<1>1. {x \in Requests : pc'[x] \in ReservedPcs} = R \cup {r} /\ r \notin R
  BY DEF PendingJobPcs
<1>2. {x \in Requests : pc'[x] \in PendingJobPcs} = J \cup {r}
  BY DEF PendingJobPcs
<1>3. \A x \in Requests : Job(x)' = Job(x)
  BY DEF Job
<1>4. starting' = Cardinality({x \in Requests : pc'[x] \in ReservedPcs})
  BY <1>1, Counting DEF ReservationsBalanced
<1>5. pendingJobs' = {Job(x)' : x \in {y \in Requests : pc'[y] \in PendingJobPcs}}
  <2>1. pendingJobs = {Job(x) : x \in J}
    BY DEF ReservationsBalanced
  <2> QED
    BY <1>2, <1>3, <2>1
<1>6. \A q, x \in Requests :
        pc'[q] \in PendingJobPcs /\ pc'[x] \in PendingJobPcs /\ Job(q)' = Job(x)' => q = x
  <2>1. \A x \in J : Job(x) \in pendingJobs
    BY DEF ReservationsBalanced
  <2> QED
    BY <1>2, <1>3, <2>1 DEF ReservationsBalanced
<1> QED
  BY <1>4, <1>5, <1>6 DEF ReservationsBalanced

\* The slot is given back, the job key stays or goes with it.
LEMMA SlotReleased ==
  ASSUME TypeOK, ReservationsBalanced, NEW r \in Requests, UNCHANGED req,
         \A x \in Requests : x # r => pc'[x] = pc[x],
         \/ /\ pc[r] \in ReservedPcs /\ pc'[r] \notin ReservedPcs /\ starting' = starting - 1
         \/ /\ pc[r] \notin ReservedPcs /\ pc'[r] \notin ReservedPcs /\ starting' = starting,
         pc[r] \in PendingJobPcs,
         \/ /\ pc'[r] \in PendingJobPcs /\ pendingJobs' = pendingJobs
         \/ /\ pc'[r] \notin PendingJobPcs /\ pendingJobs' = pendingJobs \ {Job(r)}
  PROVE  ReservationsBalanced'
<1> DEFINE R == {x \in Requests : pc[x] \in ReservedPcs}
           J == {x \in Requests : pc[x] \in PendingJobPcs}
<1>1. starting' = Cardinality({x \in Requests : pc'[x] \in ReservedPcs})
  <2>1. starting = Cardinality(R)
    BY DEF ReservationsBalanced
  <2>2. CASE pc[r] \in ReservedPcs /\ pc'[r] \notin ReservedPcs /\ starting' = starting - 1
    <3>1. {x \in Requests : pc'[x] \in ReservedPcs} = R \ {r} /\ r \in R
      BY <2>2
    <3> QED
      BY <2>1, <2>2, <3>1, Counting
  <2>3. CASE pc[r] \notin ReservedPcs /\ pc'[r] \notin ReservedPcs /\ starting' = starting
    <3>1. {x \in Requests : pc'[x] \in ReservedPcs} = R
      BY <2>3
    <3> QED
      BY <2>1, <2>3, <3>1
  <2> QED
    BY <2>2, <2>3
<1>2. \A x \in Requests : Job(x)' = Job(x)
  BY DEF Job
<1>3. \A x \in J : Job(x) = Job(r) => x = r
  BY DEF ReservationsBalanced
<1>4. pendingJobs = {Job(x) : x \in J}
  BY DEF ReservationsBalanced
<1>5. pendingJobs' = {Job(x)' : x \in {y \in Requests : pc'[y] \in PendingJobPcs}}
  <2>1. CASE pc'[r] \in PendingJobPcs /\ pendingJobs' = pendingJobs
    <3>1. {y \in Requests : pc'[y] \in PendingJobPcs} = J
      BY <2>1
    <3> QED
      BY <1>2, <1>4, <2>1, <3>1
  <2>2. CASE pc'[r] \notin PendingJobPcs /\ pendingJobs' = pendingJobs \ {Job(r)}
    <3>1. {y \in Requests : pc'[y] \in PendingJobPcs} = J \ {r}
      BY <2>2
    <3> QED
      BY <1>2, <1>3, <1>4, <2>2, <3>1
  <2> QED
    BY <2>1, <2>2
<1>6. \A q, x \in Requests :
        pc'[q] \in PendingJobPcs /\ pc'[x] \in PendingJobPcs /\ Job(q)' = Job(x)' => q = x
  BY <1>2 DEF ReservationsBalanced
<1> QED
  BY <1>1, <1>5, <1>6 DEF ReservationsBalanced

\* A step of a reserved create that changes no count.
LEMMA CountsKept ==
  ASSUME TypeOK, AccountInv, NEW r \in Requests, UNCHANGED <<req, admitVars>>,
         \A x \in Requests : x # r => pc'[x] = pc[x],
         pc[r] \in CreatePcs <=> pc'[r] \in CreatePcs,
         pc[r] \in ReservedPcs <=> pc'[r] \in ReservedPcs,
         pc[r] \in PendingJobPcs <=> pc'[r] \in PendingJobPcs,
         generations' \subseteq generations
  PROVE  ReservationsBalanced' /\ FenceTracksCreates' /\ CapacityBound'
<1>1. ArgsKept
  BY DEF ArgsKept
<1>2. \A x \in Requests : /\ pc[x] \in ReservedPcs <=> pc'[x] \in ReservedPcs
                          /\ pc[x] \in PendingJobPcs <=> pc'[x] \in PendingJobPcs
                          /\ pc[x] \in CreatePcs <=> pc'[x] \in CreatePcs
  OBVIOUS
<1>3. ReservationsBalanced'
  BY <1>1, <1>2, ReservationsKept DEF AccountInv, admitVars
<1>4. FenceTracksCreates'
  BY <1>1, <1>2, FencesKept DEF AccountInv, admitVars
<1>5. CapacityBound'
  BY CapacityKept DEF AccountInv, admitVars
<1> QED
  BY <1>3, <1>4, <1>5

\* The fence with one create more or less of the same viewers otherwise.
LEMMA CreatesKept ==
  ASSUME TypeOK, AccountInv, NEW r \in Requests, UNCHANGED <<req, revokedViewers, pendingViewers>>,
         \A x \in Requests : x # r => pc'[x] = pc[x],
         pc[r] \in CreatePcs <=> pc'[r] \in CreatePcs
  PROVE  FenceTracksCreates'
<1>1. ArgsKept /\ \A x \in Requests : pc[x] \in CreatePcs <=> pc'[x] \in CreatePcs
  BY DEF ArgsKept
<1> QED
  BY <1>1, FencesKept DEF AccountInv

\* create is entered: the viewer is counted, and was not fenced.
LEMMA EnterKeeps ==
  ASSUME TypeOK, AccountInv, NEW r \in Requests, Enter(r)
  PROVE  AccountInv'
<1>1. /\ pc[r] = "issued" /\ pc'[r] = "entered" /\ \A x \in Requests : x # r => pc'[x] = pc[x]
      /\ ~Revoked(req[r].viewer)
      /\ pendingViewers' = [pendingViewers EXCEPT ![req[r].viewer] = @ + 1]
      /\ UNCHANGED <<req, sessions, subtitleJobs, generations, inputs, retiring, process, dirs, starting,
                    pendingJobs, revokedViewers, closed, shutdown, shutGens, stopQueue, doomed>>
  BY GotoFacts DEF Enter, clientVars, lifeVars, genVars, admitVars, lifecycleVars, otherVars
<1>21. ProcessesOwned' /\ DirsOwned'
  BY <1>1 DEF AccountInv, OwnershipInv, ProcessesOwned, DirsOwned, Owned, NeverRan, UnstartedPcs,
     TypeOK
<1>22. SubtitleWorkBounded' /\ InputsOwned'
  BY <1>1 DEF AccountInv, OwnershipInv, SubtitleWorkBounded, InputsOwned, TypeOK
<1>23. NeverRan' /\ StartsReturned'
  BY <1>1 DEF AccountInv, OwnershipInv, NeverRan, StartsReturned, ClosedClears, UnstartedPcs,
     StartWGPcs, CreatePcs, TypeOK
<1>24. ClosedClears' /\ ShutdownRetires'
  BY <1>1 DEF AccountInv, OwnershipInv, ClosedClears, ShutdownRetires, StartsReturned,
     StartWGPcs, CreatePcs, TypeOK
<1>25. DoomedFenced'
  BY <1>1 DEF AccountInv, OwnershipInv, DoomedFenced, Revoked, InCreate, CreatePcs, TypeOK
<1>31. ReservationsBalanced'
  <2>1. ArgsKept /\ \A x \in Requests : /\ pc[x] \in ReservedPcs <=> pc'[x] \in ReservedPcs
                                        /\ pc[x] \in PendingJobPcs <=> pc'[x] \in PendingJobPcs
    BY <1>1 DEF ArgsKept, ReservedPcs, PendingJobPcs
  <2> QED
    BY <1>1, <2>1, ReservationsKept DEF AccountInv
<1>32. FenceTracksCreates'
  <2>1. \A v \in Viewers : pendingViewers'[v] =
          IF v = req[r].viewer THEN pendingViewers[v] + 1 ELSE pendingViewers[v]
    BY <1>1 DEF TypeOK
  <2>2. \A v \in Viewers : pendingViewers[v] \in Int
    BY DEF TypeOK
  <2>3. ASSUME NEW v \in Viewers
        PROVE  pendingViewers'[v] = Cardinality({x \in Requests : InCreate(x)' /\ req'[x].viewer = v})
    <3> DEFINE S == {x \in Requests : InCreate(x) /\ req[x].viewer = v}
    <3>1. pendingViewers[v] = Cardinality(S)
      BY DEF AccountInv, FenceTracksCreates
    <3>2. CASE v = req[r].viewer
      <4>1. {x \in Requests : InCreate(x)' /\ req'[x].viewer = v} = S \cup {r} /\ r \notin S
        BY <1>1, <3>2 DEF InCreate, CreatePcs
      <4> QED
        BY <2>1, <3>1, <3>2, <4>1, Counting
    <3>3. CASE v # req[r].viewer
      <4>1. {x \in Requests : InCreate(x)' /\ req'[x].viewer = v} = S
        BY <1>1, <3>3 DEF InCreate, CreatePcs
      <4> QED
        BY <2>1, <3>1, <3>3, <4>1
    <3> QED
      BY <3>2, <3>3
  <2>4. \A v \in revokedViewers' : pendingViewers'[v] > 0
    BY <1>1, <2>1, <2>2 DEF AccountInv, FenceTracksCreates, TypeOK
  <2> QED
    BY <2>3, <2>4 DEF FenceTracksCreates
<1>33. CapacityBound'
  BY <1>1, CapacityKept DEF AccountInv
<1> QED
  BY <1>21, <1>22, <1>23, <1>24, <1>25, <1>31, <1>32, <1>33 DEF AccountInv, OwnershipInv

\* A direct session is admitted: its viewer is not fenced and the manager is open.
LEMMA CreateDirectKeeps ==
  ASSUME TypeOK, AccountInv, NEW r \in Requests, CreateDirect(r)
  PROVE  AccountInv'
<1>1. /\ pc[r] = "entered" /\ pc'[r] = "finishing" /\ \A x \in Requests : x # r => pc'[x] = pc[x]
      /\ ~closed /\ ~Revoked(req[r].viewer)
      /\ sessions' = sessions \cup {r}
      /\ UNCHANGED <<req, subtitleJobs, generations, inputs, retiring, process, dirs, starting, pendingJobs,
                    revokedViewers, pendingViewers, closed, shutdown, shutGens, stopQueue, doomed>>
  BY GotoFacts DEF CreateDirect, Admissible, clientVars, lifeVars, genVars, admitVars, lifecycleVars, otherVars
<1>21. ProcessesOwned' /\ DirsOwned'
  BY <1>1 DEF AccountInv, OwnershipInv, ProcessesOwned, DirsOwned, Owned, NeverRan, UnstartedPcs,
     TypeOK
<1>22. SubtitleWorkBounded' /\ InputsOwned'
  BY <1>1 DEF AccountInv, OwnershipInv, SubtitleWorkBounded, InputsOwned, TypeOK
<1>23. NeverRan' /\ StartsReturned'
  BY <1>1 DEF AccountInv, OwnershipInv, NeverRan, StartsReturned, ClosedClears, UnstartedPcs,
     StartWGPcs, CreatePcs, TypeOK
<1>24. ClosedClears' /\ ShutdownRetires'
  BY <1>1 DEF AccountInv, OwnershipInv, ClosedClears, ShutdownRetires, StartsReturned,
     StartWGPcs, CreatePcs, TypeOK
<1>25. DoomedFenced'
  BY <1>1 DEF AccountInv, OwnershipInv, DoomedFenced, Revoked, InCreate, CreatePcs, TypeOK
<1>31. ReservationsBalanced' /\ FenceTracksCreates' /\ CapacityBound'
  BY <1>1, CountsKept DEF CreatePcs, ReservedPcs, PendingJobPcs, admitVars
<1> QED
  BY <1>21, <1>22, <1>23, <1>24, <1>25, <1>31 DEF AccountInv, OwnershipInv

\* A session joins a ready generation.
LEMMA ShareKeeps ==
  ASSUME TypeOK, AccountInv, NEW r \in Requests, NEW g \in Requests, ShareGeneration(r, g)
  PROVE  AccountInv'
<1>1. /\ pc[r] = "entered" /\ pc'[r] = "finishing" /\ \A x \in Requests : x # r => pc'[x] = pc[x]
      /\ ~closed /\ ~Revoked(req[r].viewer)
      /\ sessions' = sessions \cup {r}
      /\ UNCHANGED <<req, subtitleJobs, generations, inputs, retiring, process, dirs, starting, pendingJobs,
                    revokedViewers, pendingViewers, closed, shutdown, shutGens, stopQueue, doomed>>
  BY GotoFacts DEF ShareGeneration, Admissible, clientVars, lifeVars, genVars, admitVars, lifecycleVars, otherVars
<1>21. ProcessesOwned' /\ DirsOwned'
  BY <1>1 DEF AccountInv, OwnershipInv, ProcessesOwned, DirsOwned, Owned, NeverRan, UnstartedPcs,
     TypeOK
<1>22. SubtitleWorkBounded' /\ InputsOwned'
  BY <1>1 DEF AccountInv, OwnershipInv, SubtitleWorkBounded, InputsOwned, TypeOK
<1>23. NeverRan' /\ StartsReturned'
  BY <1>1 DEF AccountInv, OwnershipInv, NeverRan, StartsReturned, ClosedClears, UnstartedPcs,
     StartWGPcs, CreatePcs, TypeOK
<1>24. ClosedClears' /\ ShutdownRetires'
  BY <1>1 DEF AccountInv, OwnershipInv, ClosedClears, ShutdownRetires, StartsReturned,
     StartWGPcs, CreatePcs, TypeOK
<1>25. DoomedFenced'
  BY <1>1 DEF AccountInv, OwnershipInv, DoomedFenced, Revoked, InCreate, CreatePcs, TypeOK
<1>31. ReservationsBalanced' /\ FenceTracksCreates' /\ CapacityBound'
  BY <1>1, CountsKept DEF CreatePcs, ReservedPcs, PendingJobPcs, admitVars
<1> QED
  BY <1>21, <1>22, <1>23, <1>24, <1>25, <1>31 DEF AccountInv, OwnershipInv

\* A slot and the job key are taken, within the limit and its one credit.
LEMMA ReserveKeeps ==
  ASSUME TypeOK, AccountInv, NEW r \in Requests, Reserve(r)
  PROVE  AccountInv'
<1>1. /\ pc[r] = "entered" /\ pc'[r] = "reserved" /\ \A x \in Requests : x # r => pc'[x] = pc[x]
      /\ ~closed /\ Job(r) \notin pendingJobs /\ Fits(r)
      /\ starting' = starting + 1 /\ pendingJobs' = pendingJobs \cup {Job(r)}
      /\ UNCHANGED <<req, sessions, subtitleJobs, generations, inputs, retiring, process, dirs, revokedViewers,
                    pendingViewers, closed, shutdown, shutGens, stopQueue, doomed>>
  BY GotoFacts DEF Reserve, Admissible, clientVars, lifeVars, genVars, admitVars, lifecycleVars, otherVars
<1>21. ProcessesOwned' /\ DirsOwned'
  BY <1>1 DEF AccountInv, OwnershipInv, ProcessesOwned, DirsOwned, Owned, NeverRan, UnstartedPcs,
     TypeOK
<1>22. SubtitleWorkBounded' /\ InputsOwned'
  BY <1>1 DEF AccountInv, OwnershipInv, SubtitleWorkBounded, InputsOwned, TypeOK
<1>23. NeverRan' /\ StartsReturned'
  BY <1>1 DEF AccountInv, OwnershipInv, NeverRan, StartsReturned, ClosedClears, UnstartedPcs,
     StartWGPcs, CreatePcs, TypeOK
<1>24. ClosedClears' /\ ShutdownRetires'
  BY <1>1 DEF AccountInv, OwnershipInv, ClosedClears, ShutdownRetires, StartsReturned,
     StartWGPcs, CreatePcs, TypeOK
<1>25. DoomedFenced'
  BY <1>1 DEF AccountInv, OwnershipInv, DoomedFenced, Revoked, InCreate, CreatePcs, TypeOK
<1>31. ReservationsBalanced'
  BY <1>1, ReservationMade DEF AccountInv, ReservedPcs, PendingJobPcs
<1>32. FenceTracksCreates'
  BY <1>1, CreatesKept DEF CreatePcs
<1>33. CapacityBound'
  <2>1. Cardinality(generations) \in Nat /\ starting \in Int /\ MaxGenerations \in Nat
    BY Counting, LimitAssumption DEF TypeOK
  <2> QED
    BY <1>1, <2>1 DEF Fits, CapacityBound
<1> QED
  BY <1>21, <1>22, <1>23, <1>24, <1>25, <1>31, <1>32, <1>33 DEF AccountInv, OwnershipInv

\* The directory and the input token of a reserved create.
LEMMA InstallInputsKeeps ==
  ASSUME TypeOK, AccountInv, NEW r \in Requests, InstallInputs(r)
  PROVE  AccountInv'
<1>1. /\ pc[r] = "reserved" /\ pc'[r] = "starting" /\ \A x \in Requests : x # r => pc'[x] = pc[x]
      /\ ~closed
      /\ dirs' = dirs \cup {r} /\ inputs' = inputs \cup {r}
      /\ UNCHANGED <<req, sessions, subtitleJobs, generations, retiring, process, starting, pendingJobs, revokedViewers,
                    pendingViewers, closed, shutdown, shutGens, stopQueue, doomed>>
  BY GotoFacts DEF InstallInputs, Admissible, clientVars, lifeVars, genVars, admitVars, lifecycleVars, otherVars
<1>21. ProcessesOwned' /\ DirsOwned'
  BY <1>1 DEF AccountInv, OwnershipInv, ProcessesOwned, DirsOwned, Owned, NeverRan, UnstartedPcs,
     TypeOK
<1>22. SubtitleWorkBounded' /\ InputsOwned'
  BY <1>1 DEF AccountInv, OwnershipInv, SubtitleWorkBounded, InputsOwned, TypeOK
<1>23. NeverRan' /\ StartsReturned'
  BY <1>1 DEF AccountInv, OwnershipInv, NeverRan, StartsReturned, ClosedClears, UnstartedPcs,
     StartWGPcs, CreatePcs, TypeOK
<1>24. ClosedClears' /\ ShutdownRetires'
  BY <1>1 DEF AccountInv, OwnershipInv, ClosedClears, ShutdownRetires, StartsReturned,
     StartWGPcs, CreatePcs, TypeOK
<1>25. DoomedFenced'
  BY <1>1 DEF AccountInv, OwnershipInv, DoomedFenced, Revoked, InCreate, CreatePcs, TypeOK
<1>31. ReservationsBalanced' /\ FenceTracksCreates' /\ CapacityBound'
  BY <1>1, CountsKept DEF CreatePcs, ReservedPcs, PendingJobPcs, admitVars
<1> QED
  BY <1>21, <1>22, <1>23, <1>24, <1>25, <1>31 DEF AccountInv, OwnershipInv

\* A reserved create that cannot go on.
LEMMA InstallFailsKeeps ==
  ASSUME TypeOK, AccountInv, NEW r \in Requests, InstallFails(r)
  PROVE  AccountInv'
<1>1. /\ pc[r] = "reserved" /\ pc'[r] = "aborting" /\ \A x \in Requests : x # r => pc'[x] = pc[x]
      /\ dirs' = dirs \/ dirs' = dirs \cup {r}
      /\ UNCHANGED <<req, sessions, subtitleJobs, generations, inputs, retiring, process, starting, pendingJobs,
                    revokedViewers, pendingViewers, closed, shutdown, shutGens, stopQueue, doomed>>
  BY GotoFacts DEF InstallFails, clientVars, lifeVars, genVars, admitVars, lifecycleVars, otherVars
<1>21. ProcessesOwned' /\ DirsOwned'
  BY <1>1 DEF AccountInv, OwnershipInv, ProcessesOwned, DirsOwned, Owned, NeverRan, UnstartedPcs,
     TypeOK
<1>22. SubtitleWorkBounded' /\ InputsOwned'
  BY <1>1 DEF AccountInv, OwnershipInv, SubtitleWorkBounded, InputsOwned, TypeOK
<1>23. NeverRan' /\ StartsReturned'
  BY <1>1 DEF AccountInv, OwnershipInv, NeverRan, StartsReturned, ClosedClears, UnstartedPcs,
     StartWGPcs, CreatePcs, TypeOK
<1>24. ClosedClears' /\ ShutdownRetires'
  BY <1>1 DEF AccountInv, OwnershipInv, ClosedClears, ShutdownRetires, StartsReturned,
     StartWGPcs, CreatePcs, TypeOK
<1>25. DoomedFenced'
  BY <1>1 DEF AccountInv, OwnershipInv, DoomedFenced, Revoked, InCreate, CreatePcs, TypeOK
<1>31. ReservationsBalanced' /\ FenceTracksCreates' /\ CapacityBound'
  BY <1>1, CountsKept DEF CreatePcs, ReservedPcs, PendingJobPcs, admitVars
<1> QED
  BY <1>21, <1>22, <1>23, <1>24, <1>25, <1>31 DEF AccountInv, OwnershipInv

\* FFmpeg runs.
LEMMA StartProcessKeeps ==
  ASSUME TypeOK, AccountInv, NEW r \in Requests, StartProcess(r)
  PROVE  AccountInv'
<1>1. /\ pc[r] = "starting" /\ pc'[r] = "started" /\ \A x \in Requests : x # r => pc'[x] = pc[x]
      /\ process' = [process EXCEPT ![r] = "running"]
      /\ UNCHANGED <<req, sessions, subtitleJobs, generations, inputs, retiring, dirs, starting, pendingJobs,
                    revokedViewers, pendingViewers, closed, shutdown, shutGens, stopQueue, doomed>>
  BY GotoFacts DEF StartProcess, clientVars, lifeVars, genVars, admitVars, lifecycleVars, otherVars
<1>21. ProcessesOwned' /\ DirsOwned'
  BY <1>1 DEF AccountInv, OwnershipInv, ProcessesOwned, DirsOwned, Owned, NeverRan, UnstartedPcs,
     TypeOK
<1>22. SubtitleWorkBounded' /\ InputsOwned'
  BY <1>1 DEF AccountInv, OwnershipInv, SubtitleWorkBounded, InputsOwned, TypeOK
<1>23. NeverRan' /\ StartsReturned'
  BY <1>1 DEF AccountInv, OwnershipInv, NeverRan, StartsReturned, ClosedClears, UnstartedPcs,
     StartWGPcs, CreatePcs, TypeOK
<1>24. ClosedClears' /\ ShutdownRetires'
  BY <1>1 DEF AccountInv, OwnershipInv, ClosedClears, ShutdownRetires, StartsReturned,
     StartWGPcs, CreatePcs, TypeOK
<1>25. DoomedFenced'
  BY <1>1 DEF AccountInv, OwnershipInv, DoomedFenced, Revoked, InCreate, CreatePcs, TypeOK
<1>31. ReservationsBalanced' /\ FenceTracksCreates' /\ CapacityBound'
  BY <1>1, CountsKept DEF CreatePcs, ReservedPcs, PendingJobPcs, admitVars
<1> QED
  BY <1>21, <1>22, <1>23, <1>24, <1>25, <1>31 DEF AccountInv, OwnershipInv

\* FFmpeg does not start.
LEMMA StartFailsKeeps ==
  ASSUME TypeOK, AccountInv, NEW r \in Requests, StartFails(r)
  PROVE  AccountInv'
<1>1. /\ pc[r] = "starting" /\ pc'[r] = "aborting" /\ \A x \in Requests : x # r => pc'[x] = pc[x]
      /\ inputs' = inputs \ {r}
      /\ UNCHANGED <<req, sessions, subtitleJobs, generations, retiring, process, dirs, starting, pendingJobs,
                    revokedViewers, pendingViewers, closed, shutdown, shutGens, stopQueue, doomed>>
  BY GotoFacts DEF StartFails, RevokedInputs, clientVars, lifeVars, genVars, admitVars, lifecycleVars, otherVars
<1>21. ProcessesOwned' /\ DirsOwned'
  BY <1>1 DEF AccountInv, OwnershipInv, ProcessesOwned, DirsOwned, Owned, NeverRan, UnstartedPcs,
     TypeOK
<1>22. SubtitleWorkBounded' /\ InputsOwned'
  BY <1>1 DEF AccountInv, OwnershipInv, SubtitleWorkBounded, InputsOwned, TypeOK
<1>23. NeverRan' /\ StartsReturned'
  BY <1>1 DEF AccountInv, OwnershipInv, NeverRan, StartsReturned, ClosedClears, UnstartedPcs,
     StartWGPcs, CreatePcs, TypeOK
<1>24. ClosedClears' /\ ShutdownRetires'
  BY <1>1 DEF AccountInv, OwnershipInv, ClosedClears, ShutdownRetires, StartsReturned,
     StartWGPcs, CreatePcs, TypeOK
<1>25. DoomedFenced'
  BY <1>1 DEF AccountInv, OwnershipInv, DoomedFenced, Revoked, InCreate, CreatePcs, TypeOK
<1>31. ReservationsBalanced' /\ FenceTracksCreates' /\ CapacityBound'
  BY <1>1, CountsKept DEF CreatePcs, ReservedPcs, PendingJobPcs, admitVars
<1> QED
  BY <1>21, <1>22, <1>23, <1>24, <1>25, <1>31 DEF AccountInv, OwnershipInv

\* releaseReservation: slot, job key and directory are given back.
LEMMA AbortKeeps ==
  ASSUME TypeOK, AccountInv, NEW r \in Requests, Abort(r)
  PROVE  AccountInv'
<1>1. /\ pc[r] = "aborting" /\ pc'[r] = "finishing" /\ \A x \in Requests : x # r => pc'[x] = pc[x]
      /\ starting' = starting - 1 /\ pendingJobs' = pendingJobs \ {Job(r)}
      /\ dirs' = dirs \ {r}
      /\ UNCHANGED <<req, sessions, subtitleJobs, generations, inputs, retiring, process, revokedViewers, pendingViewers,
                    closed, shutdown, shutGens, stopQueue, doomed>>
  BY GotoFacts DEF Abort, ReleasedJob, clientVars, lifeVars, genVars, admitVars, lifecycleVars, otherVars
<1>21. ProcessesOwned' /\ DirsOwned'
  BY <1>1 DEF AccountInv, OwnershipInv, ProcessesOwned, DirsOwned, Owned, NeverRan, UnstartedPcs,
     TypeOK
<1>22. SubtitleWorkBounded' /\ InputsOwned'
  BY <1>1 DEF AccountInv, OwnershipInv, SubtitleWorkBounded, InputsOwned, TypeOK
<1>23. NeverRan' /\ StartsReturned'
  BY <1>1 DEF AccountInv, OwnershipInv, NeverRan, StartsReturned, ClosedClears, UnstartedPcs,
     StartWGPcs, CreatePcs, TypeOK
<1>24. ClosedClears' /\ ShutdownRetires'
  BY <1>1 DEF AccountInv, OwnershipInv, ClosedClears, ShutdownRetires, StartsReturned,
     StartWGPcs, CreatePcs, TypeOK
<1>25. DoomedFenced'
  BY <1>1 DEF AccountInv, OwnershipInv, DoomedFenced, Revoked, InCreate, CreatePcs, TypeOK
<1>31. ReservationsBalanced'
  BY <1>1, SlotReleased DEF AccountInv, ReservedPcs, PendingJobPcs
<1>32. FenceTracksCreates'
  BY <1>1, CreatesKept DEF CreatePcs
<1>33. CapacityBound'
  <2>1. Cardinality(generations) \in Nat /\ starting \in Int /\ MaxGenerations \in Nat
    BY Counting, LimitAssumption DEF TypeOK
  <2> QED
    BY <1>1, <2>1 DEF AccountInv, CapacityBound
<1> QED
  BY <1>21, <1>22, <1>23, <1>24, <1>25, <1>31, <1>32, <1>33 DEF AccountInv, OwnershipInv

\* The reservation becomes a generation: one slot less, one generation more.
LEMMA AdmitKeeps ==
  ASSUME TypeOK, AccountInv, NEW r \in Requests, Admit(r)
  PROVE  AccountInv'
<1>1. /\ pc[r] = "started" /\ pc'[r] \in {"waiting", "manifest"}
      /\ \A x \in Requests : x # r => pc'[x] = pc[x]
      /\ ~closed /\ ~Revoked(req[r].viewer)
      /\ starting' = starting - 1
      /\ generations' = generations \cup {r} /\ sessions' = sessions \cup {r}
      /\ UNCHANGED <<req, subtitleJobs, inputs, retiring, process, dirs, pendingJobs, revokedViewers, pendingViewers,
                    closed, shutdown, shutGens, stopQueue, doomed>>
  BY GotoFacts DEF Admit, Admissible, clientVars, lifeVars, genVars, admitVars, lifecycleVars, otherVars
<1>21. ProcessesOwned' /\ DirsOwned'
  BY <1>1 DEF AccountInv, OwnershipInv, ProcessesOwned, DirsOwned, Owned, NeverRan, UnstartedPcs,
     TypeOK
<1>22. SubtitleWorkBounded' /\ InputsOwned'
  BY <1>1 DEF AccountInv, OwnershipInv, SubtitleWorkBounded, InputsOwned, TypeOK
<1>23. NeverRan' /\ StartsReturned'
  BY <1>1 DEF AccountInv, OwnershipInv, NeverRan, StartsReturned, ClosedClears, UnstartedPcs,
     StartWGPcs, CreatePcs, TypeOK
<1>24. ClosedClears' /\ ShutdownRetires'
  BY <1>1 DEF AccountInv, OwnershipInv, ClosedClears, ShutdownRetires, StartsReturned,
     StartWGPcs, CreatePcs, TypeOK
<1>25. DoomedFenced'
  BY <1>1 DEF AccountInv, OwnershipInv, DoomedFenced, Revoked, InCreate, CreatePcs, TypeOK
<1>31. ReservationsBalanced'
  BY <1>1, SlotReleased DEF AccountInv, ReservedPcs, PendingJobPcs
<1>32. FenceTracksCreates'
  BY <1>1, CreatesKept DEF CreatePcs
<1>33. CapacityBound'
  <2>1. /\ Cardinality(generations) \in Nat /\ starting \in Int /\ MaxGenerations \in Nat
        /\ IsFiniteSet(generations)
    BY Counting, LimitAssumption DEF TypeOK
  <2>2. Cardinality(generations') <= Cardinality(generations) + 1 /\ Cardinality(generations') \in Nat
    <3>1. CASE r \in generations
      <4>1. generations' = generations
        BY <1>1, <3>1
      <4> QED
        BY <2>1, <4>1
    <3>2. CASE r \notin generations
      <4>1. Cardinality(generations \cup {r}) = Cardinality(generations) + 1
        BY <3>2, Counting DEF TypeOK
      <4> QED
        BY <1>1, <2>1, <4>1
    <3> QED
      BY <3>1, <3>2
  <2> QED
    BY <1>1, <2>1, <2>2 DEF AccountInv, CapacityBound
<1> QED
  BY <1>21, <1>22, <1>23, <1>24, <1>25, <1>31, <1>32, <1>33 DEF AccountInv, OwnershipInv

\* Revoked or closed while FFmpeg started: the reservation goes.
LEMMA AdmitRefusedKeeps ==
  ASSUME TypeOK, AccountInv, NEW r \in Requests, AdmitRefused(r)
  PROVE  AccountInv'
<1>1. /\ pc[r] = "started" /\ pc'[r] = "discarding" /\ \A x \in Requests : x # r => pc'[x] = pc[x]
      /\ starting' = starting - 1 /\ pendingJobs' = pendingJobs \ {Job(r)}
      /\ UNCHANGED <<req, sessions, subtitleJobs, generations, inputs, retiring, process, dirs, revokedViewers,
                    pendingViewers, closed, shutdown, shutGens, stopQueue, doomed>>
  BY GotoFacts DEF AdmitRefused, ReleasedJob, clientVars, lifeVars, genVars, admitVars, lifecycleVars, otherVars
<1>21. ProcessesOwned' /\ DirsOwned'
  BY <1>1 DEF AccountInv, OwnershipInv, ProcessesOwned, DirsOwned, Owned, NeverRan, UnstartedPcs,
     TypeOK
<1>22. SubtitleWorkBounded' /\ InputsOwned'
  BY <1>1 DEF AccountInv, OwnershipInv, SubtitleWorkBounded, InputsOwned, TypeOK
<1>23. NeverRan' /\ StartsReturned'
  BY <1>1 DEF AccountInv, OwnershipInv, NeverRan, StartsReturned, ClosedClears, UnstartedPcs,
     StartWGPcs, CreatePcs, TypeOK
<1>24. ClosedClears' /\ ShutdownRetires'
  BY <1>1 DEF AccountInv, OwnershipInv, ClosedClears, ShutdownRetires, StartsReturned,
     StartWGPcs, CreatePcs, TypeOK
<1>25. DoomedFenced'
  BY <1>1 DEF AccountInv, OwnershipInv, DoomedFenced, Revoked, InCreate, CreatePcs, TypeOK
<1>31. ReservationsBalanced'
  BY <1>1, SlotReleased DEF AccountInv, ReservedPcs, PendingJobPcs
<1>32. FenceTracksCreates'
  BY <1>1, CreatesKept DEF CreatePcs
<1>33. CapacityBound'
  <2>1. Cardinality(generations) \in Nat /\ starting \in Int /\ MaxGenerations \in Nat
    BY Counting, LimitAssumption DEF TypeOK
  <2> QED
    BY <1>1, <2>1 DEF AccountInv, CapacityBound
<1> QED
  BY <1>21, <1>22, <1>23, <1>24, <1>25, <1>31, <1>32, <1>33 DEF AccountInv, OwnershipInv

\* A generation nobody holds goes to be retired.
LEMMA DiscardKeeps ==
  ASSUME TypeOK, AccountInv, NEW r \in Requests, Discard(r)
  PROVE  AccountInv'
<1>1. /\ pc[r] = "discarding" /\ pc'[r] = "retiring" /\ \A x \in Requests : x # r => pc'[x] = pc[x]
      /\ inputs' = inputs \ {r} /\ retiring' = retiring \cup {r}
      /\ UNCHANGED <<req, sessions, subtitleJobs, generations, process, dirs, starting, pendingJobs, revokedViewers,
                    pendingViewers, closed, shutdown, shutGens, stopQueue, doomed>>
  BY GotoFacts DEF Discard, RevokedInputs, clientVars, lifeVars, genVars, admitVars, lifecycleVars, otherVars
<1>21. ProcessesOwned' /\ DirsOwned'
  BY <1>1 DEF AccountInv, OwnershipInv, ProcessesOwned, DirsOwned, Owned, NeverRan, UnstartedPcs,
     TypeOK
<1>22. SubtitleWorkBounded' /\ InputsOwned'
  BY <1>1 DEF AccountInv, OwnershipInv, SubtitleWorkBounded, InputsOwned, TypeOK
<1>23. NeverRan' /\ StartsReturned'
  BY <1>1 DEF AccountInv, OwnershipInv, NeverRan, StartsReturned, ClosedClears, UnstartedPcs,
     StartWGPcs, CreatePcs, TypeOK
<1>24. ClosedClears' /\ ShutdownRetires'
  BY <1>1 DEF AccountInv, OwnershipInv, ClosedClears, ShutdownRetires, StartsReturned,
     StartWGPcs, CreatePcs, TypeOK
<1>25. DoomedFenced'
  BY <1>1 DEF AccountInv, OwnershipInv, DoomedFenced, Revoked, InCreate, CreatePcs, TypeOK
<1>31. ReservationsBalanced' /\ FenceTracksCreates' /\ CapacityBound'
  BY <1>1, CountsKept DEF CreatePcs, ReservedPcs, PendingJobPcs, admitVars
<1> QED
  BY <1>21, <1>22, <1>23, <1>24, <1>25, <1>31 DEF AccountInv, OwnershipInv

\* A create whose manifest never came gives its job key back.
LEMMA AbandonKeeps ==
  ASSUME TypeOK, AccountInv, NEW r \in Requests, Abandon(r)
  PROVE  AccountInv'
<1>1. /\ pc[r] = "abandoned" /\ pc'[r] = "finishing" /\ \A x \in Requests : x # r => pc'[x] = pc[x]
      /\ pendingJobs' = pendingJobs \ {Job(r)}
      /\ UNCHANGED <<req, sessions, subtitleJobs, generations, inputs, retiring, process, dirs, starting,
                    revokedViewers, pendingViewers, closed, shutdown, shutGens, stopQueue, doomed>>
  BY GotoFacts DEF Abandon, ReleasedJob, clientVars, lifeVars, genVars, admitVars, lifecycleVars, otherVars
<1>21. ProcessesOwned' /\ DirsOwned'
  BY <1>1 DEF AccountInv, OwnershipInv, ProcessesOwned, DirsOwned, Owned, NeverRan, UnstartedPcs,
     TypeOK
<1>22. SubtitleWorkBounded' /\ InputsOwned'
  BY <1>1 DEF AccountInv, OwnershipInv, SubtitleWorkBounded, InputsOwned, TypeOK
<1>23. NeverRan' /\ StartsReturned'
  BY <1>1 DEF AccountInv, OwnershipInv, NeverRan, StartsReturned, ClosedClears, UnstartedPcs,
     StartWGPcs, CreatePcs, TypeOK
<1>24. ClosedClears' /\ ShutdownRetires'
  BY <1>1 DEF AccountInv, OwnershipInv, ClosedClears, ShutdownRetires, StartsReturned,
     StartWGPcs, CreatePcs, TypeOK
<1>25. DoomedFenced'
  BY <1>1 DEF AccountInv, OwnershipInv, DoomedFenced, Revoked, InCreate, CreatePcs, TypeOK
<1>31. ReservationsBalanced'
  BY <1>1, SlotReleased DEF AccountInv, ReservedPcs, PendingJobPcs
<1>32. FenceTracksCreates'
  BY <1>1, CreatesKept DEF CreatePcs
<1>33. CapacityBound'
  BY <1>1, CapacityKept DEF AccountInv
<1> QED
  BY <1>21, <1>22, <1>23, <1>24, <1>25, <1>31, <1>32, <1>33 DEF AccountInv, OwnershipInv

\* The last admission check gives the job key back either way.
LEMMA ConfirmKeeps ==
  ASSUME TypeOK, AccountInv, NEW r \in Requests, ConfirmAdmission(r)
  PROVE  AccountInv'
<1>1. /\ pc[r] = "manifest" /\ pc'[r] \in {"finishing", "rejected"}
      /\ \A x \in Requests : x # r => pc'[x] = pc[x]
      /\ pendingJobs' = pendingJobs \ {Job(r)}
      /\ UNCHANGED <<req, sessions, subtitleJobs, generations, inputs, retiring, process, dirs, starting,
                    revokedViewers, pendingViewers, closed, shutdown, shutGens, stopQueue, doomed>>
  BY GotoFacts DEF ConfirmAdmission, ReleasedJob, clientVars, lifeVars, genVars, admitVars, lifecycleVars, otherVars
<1>21. ProcessesOwned' /\ DirsOwned'
  BY <1>1 DEF AccountInv, OwnershipInv, ProcessesOwned, DirsOwned, Owned, NeverRan, UnstartedPcs,
     TypeOK
<1>22. SubtitleWorkBounded' /\ InputsOwned'
  BY <1>1 DEF AccountInv, OwnershipInv, SubtitleWorkBounded, InputsOwned, TypeOK
<1>23. NeverRan' /\ StartsReturned'
  BY <1>1 DEF AccountInv, OwnershipInv, NeverRan, StartsReturned, ClosedClears, UnstartedPcs,
     StartWGPcs, CreatePcs, TypeOK
<1>24. ClosedClears' /\ ShutdownRetires'
  BY <1>1 DEF AccountInv, OwnershipInv, ClosedClears, ShutdownRetires, StartsReturned,
     StartWGPcs, CreatePcs, TypeOK
<1>25. DoomedFenced'
  BY <1>1 DEF AccountInv, OwnershipInv, DoomedFenced, Revoked, InCreate, CreatePcs, TypeOK
<1>31. ReservationsBalanced'
  BY <1>1, SlotReleased DEF AccountInv, ReservedPcs, PendingJobPcs
<1>32. FenceTracksCreates'
  BY <1>1, CreatesKept DEF CreatePcs
<1>33. CapacityBound'
  BY <1>1, CapacityKept DEF AccountInv
<1> QED
  BY <1>21, <1>22, <1>23, <1>24, <1>25, <1>31, <1>32, <1>33 DEF AccountInv, OwnershipInv

\* finishViewerCreate: the fence goes with the last create of its viewer.
LEMMA FinishKeeps ==
  ASSUME TypeOK, AccountInv, NEW r \in Requests, FinishViewerCreate(r)
  PROVE  AccountInv'
<1>1. /\ pc[r] = "finishing" /\ pc'[r] \in {"created", "cleanupFailed", "done"}
      /\ \A x \in Requests : x # r => pc'[x] = pc[x]
      /\ pendingViewers' = [pendingViewers EXCEPT ![req[r].viewer] = pendingViewers[req[r].viewer] - 1]
      /\ revokedViewers' = IF pendingViewers[req[r].viewer] - 1 > 0 THEN revokedViewers
                            ELSE revokedViewers \ {req[r].viewer}
      /\ UNCHANGED <<req, sessions, subtitleJobs, generations, inputs, retiring, process, dirs, starting,
                    pendingJobs, closed, shutdown, shutGens, stopQueue, doomed>>
  BY GotoFacts DEF FinishViewerCreate, FailedLabel, LiftedFence, clientVars, lifeVars, genVars, admitVars, lifecycleVars, otherVars
<1>11. \A v \in Viewers : /\ pendingViewers[v] \in Int
                         /\ pendingViewers'[v] = IF v = req[r].viewer THEN pendingViewers[v] - 1
                                                  ELSE pendingViewers[v]
  BY <1>1 DEF TypeOK
<1>12. ASSUME NEW v \in Viewers
       PROVE  pendingViewers'[v] = Cardinality({x \in Requests : InCreate(x)' /\ req'[x].viewer = v})
  <2> DEFINE S == {x \in Requests : InCreate(x) /\ req[x].viewer = v}
  <2>1. pendingViewers[v] = Cardinality(S)
    BY DEF AccountInv, FenceTracksCreates
  <2>2. CASE v = req[r].viewer
    <3>1. {x \in Requests : InCreate(x)' /\ req'[x].viewer = v} = S \ {r} /\ r \in S
      BY <1>1, <2>2 DEF InCreate, CreatePcs
    <3> QED
      BY <1>11, <2>1, <2>2, <3>1, Counting
  <2>3. CASE v # req[r].viewer
    <3>1. {x \in Requests : InCreate(x)' /\ req'[x].viewer = v} = S
      BY <1>1, <2>3 DEF InCreate, CreatePcs
    <3> QED
      BY <1>11, <2>1, <2>3, <3>1
  <2> QED
    BY <2>2, <2>3
<1>13. \A v \in revokedViewers' : pendingViewers'[v] > 0
  <2> SUFFICES ASSUME NEW v \in revokedViewers' PROVE pendingViewers'[v] > 0
    OBVIOUS
  <2>1. v \in revokedViewers /\ v \in Viewers
    BY <1>1 DEF TypeOK
  <2>2. pendingViewers[v] > 0
    BY <2>1 DEF AccountInv, FenceTracksCreates
  <2>3. v = req[r].viewer => pendingViewers[v] - 1 > 0
    BY <1>1
  <2> QED
    BY <1>11, <2>1, <2>2, <2>3
<1>14. \A x \in Requests : x # r /\ InCreate(x) /\ req[x].viewer \in revokedViewers
                             => req[x].viewer \in revokedViewers'
  <2> SUFFICES ASSUME NEW x \in Requests, x # r, InCreate(x), req[x].viewer \in revokedViewers,
                      req[x].viewer = req[r].viewer
               PROVE  req[x].viewer \in revokedViewers'
    BY <1>1
  <2> DEFINE v == req[r].viewer
             T == {y \in Requests : InCreate(y)' /\ req'[y].viewer = v}
  <2>1. v \in Viewers
    BY DEF TypeOK
  <2>2. x \in T
    BY <1>1 DEF InCreate
  <2>3. Cardinality(T) > 0
    BY <2>2, Counting
  <2>4. pendingViewers'[v] = Cardinality(T)
    BY <1>12, <2>1
  <2>5. pendingViewers[v] - 1 > 0
    BY <1>11, <2>1, <2>3, <2>4
  <2> QED
    BY <1>1, <2>5
<1>21. ProcessesOwned' /\ DirsOwned'
  BY <1>1, <1>14 DEF AccountInv, OwnershipInv, ProcessesOwned, DirsOwned, Owned, NeverRan, UnstartedPcs,
     TypeOK
<1>22. SubtitleWorkBounded' /\ InputsOwned'
  BY <1>1, <1>14 DEF AccountInv, OwnershipInv, SubtitleWorkBounded, InputsOwned, TypeOK
<1>23. NeverRan' /\ StartsReturned'
  BY <1>1, <1>14 DEF AccountInv, OwnershipInv, NeverRan, StartsReturned, ClosedClears, UnstartedPcs,
     StartWGPcs, CreatePcs, TypeOK
<1>24. ClosedClears' /\ ShutdownRetires'
  BY <1>1, <1>14 DEF AccountInv, OwnershipInv, ClosedClears, ShutdownRetires, StartsReturned,
     StartWGPcs, CreatePcs, TypeOK
<1>25. DoomedFenced'
  BY <1>1, <1>14 DEF AccountInv, OwnershipInv, DoomedFenced, Revoked, InCreate, CreatePcs, TypeOK
<1>31. ReservationsBalanced'
  <2>1. ArgsKept /\ \A x \in Requests : /\ pc[x] \in ReservedPcs <=> pc'[x] \in ReservedPcs
                                        /\ pc[x] \in PendingJobPcs <=> pc'[x] \in PendingJobPcs
    BY <1>1 DEF ArgsKept, ReservedPcs, PendingJobPcs
  <2> QED
    BY <1>1, <2>1, ReservationsKept DEF AccountInv
<1>32. FenceTracksCreates'
  BY <1>12, <1>13 DEF FenceTracksCreates
<1>33. CapacityBound'
  BY <1>1, CapacityKept DEF AccountInv
<1> QED
  BY <1>21, <1>22, <1>23, <1>24, <1>25, <1>31, <1>32, <1>33 DEF AccountInv, OwnershipInv

\* StopViewer fences the creates in flight, revokes their tokens and lists the sessions.
LEMMA StopViewerKeeps ==
  ASSUME TypeOK, AccountInv, NEW v \in Viewers, StopViewer(v)
  PROVE  AccountInv'
<1>1. /\ UNCHANGED pc
      /\ revokedViewers' = IF pendingViewers[v] > 0 THEN revokedViewers \cup {v} ELSE revokedViewers
      /\ inputs' \subseteq inputs
      /\ stopQueue' = [stopQueue EXCEPT ![v] = stopQueue[v] \cup {s \in sessions : req[s].viewer = v}]
      /\ doomed' = doomed \cup {r \in Requests : InCreate(r) /\ req[r].viewer = v}
      /\ UNCHANGED <<req, sessions, subtitleJobs, generations, retiring, process, dirs, starting, pendingJobs,
                    pendingViewers, closed, shutdown, shutGens>>
  BY DEF StopViewer, PendingInputs, clientVars, lifeVars, genVars, admitVars, lifecycleVars, otherVars
<1>11. \A r \in Requests : InCreate(r) /\ req[r].viewer = v => pendingViewers[v] > 0
  <2> SUFFICES ASSUME NEW r \in Requests, InCreate(r), req[r].viewer = v PROVE pendingViewers[v] > 0
    OBVIOUS
  <2> DEFINE S == {x \in Requests : InCreate(x) /\ req[x].viewer = v}
  <2>1. Cardinality(S) > 0
    <3>1. r \in S
      OBVIOUS
    <3> QED
      BY <3>1, Counting
  <2> QED
    BY <2>1 DEF AccountInv, FenceTracksCreates
<1>12. \A u \in Viewers : stopQueue[u] \subseteq stopQueue'[u]
  BY <1>1 DEF TypeOK
<1>13. stopQueue'[v] = stopQueue[v] \cup {s \in sessions : req[s].viewer = v}
  BY <1>1 DEF TypeOK
<1>21. ProcessesOwned' /\ DirsOwned'
  BY <1>1, <1>11, <1>12, <1>13 DEF AccountInv, OwnershipInv, ProcessesOwned, DirsOwned, Owned, NeverRan, UnstartedPcs,
     TypeOK
<1>22. SubtitleWorkBounded' /\ InputsOwned'
  BY <1>1, <1>11, <1>12, <1>13 DEF AccountInv, OwnershipInv, SubtitleWorkBounded, InputsOwned, TypeOK
<1>23. NeverRan' /\ StartsReturned'
  BY <1>1, <1>11, <1>12, <1>13 DEF AccountInv, OwnershipInv, NeverRan, StartsReturned, ClosedClears, UnstartedPcs,
     StartWGPcs, CreatePcs, TypeOK
<1>24. ClosedClears' /\ ShutdownRetires'
  BY <1>1, <1>11, <1>12, <1>13 DEF AccountInv, OwnershipInv, ClosedClears, ShutdownRetires, StartsReturned,
     StartWGPcs, CreatePcs, TypeOK
<1>25. DoomedFenced'
  BY <1>1, <1>11, <1>12, <1>13 DEF AccountInv, OwnershipInv, DoomedFenced, Revoked, InCreate, CreatePcs, TypeOK
<1>31. ReservationsBalanced'
  BY <1>1, ReservationsKept DEF AccountInv, ArgsKept
<1>32. FenceTracksCreates'
  <2>1. \A u \in Viewers : {r \in Requests : InCreate(r)' /\ req'[r].viewer = u}
                            = {r \in Requests : InCreate(r) /\ req[r].viewer = u}
    BY <1>1 DEF InCreate
  <2>2. \A u \in Viewers : pendingViewers'[u] =
          Cardinality({r \in Requests : InCreate(r)' /\ req'[r].viewer = u})
    BY <1>1, <2>1 DEF AccountInv, FenceTracksCreates
  <2>3. \A u \in revokedViewers' : pendingViewers'[u] > 0
    BY <1>1 DEF AccountInv, FenceTracksCreates
  <2> QED
    BY <2>2, <2>3 DEF FenceTracksCreates
<1>33. CapacityBound'
  BY <1>1, CapacityKept DEF AccountInv
<1> QED
  BY <1>21, <1>22, <1>23, <1>24, <1>25, <1>31, <1>32, <1>33 DEF AccountInv, OwnershipInv

\* A process ends.
LEMMA ExitKeeps ==
  ASSUME TypeOK, AccountInv, NEW g \in Requests, ProcessExit(g)
  PROVE  AccountInv'
<1>1. /\ UNCHANGED pc
      /\ process[g] \in {"running", "killed"}
      /\ process' = [process EXCEPT ![g] = "exited"]
      /\ UNCHANGED <<req, sessions, subtitleJobs, generations, inputs, retiring, dirs, starting, pendingJobs,
                    revokedViewers, pendingViewers, closed, shutdown, shutGens, stopQueue, doomed>>
  BY DEF ProcessExit, clientVars, lifeVars, genVars, admitVars, lifecycleVars, otherVars
<1>21. ProcessesOwned' /\ DirsOwned'
  BY <1>1 DEF AccountInv, OwnershipInv, ProcessesOwned, DirsOwned, Owned, NeverRan, UnstartedPcs,
     TypeOK
<1>22. SubtitleWorkBounded' /\ InputsOwned'
  BY <1>1 DEF AccountInv, OwnershipInv, SubtitleWorkBounded, InputsOwned, TypeOK
<1>23. NeverRan' /\ StartsReturned'
  BY <1>1 DEF AccountInv, OwnershipInv, NeverRan, StartsReturned, ClosedClears, UnstartedPcs,
     StartWGPcs, CreatePcs, TypeOK
<1>24. ClosedClears' /\ ShutdownRetires'
  BY <1>1 DEF AccountInv, OwnershipInv, ClosedClears, ShutdownRetires, StartsReturned,
     StartWGPcs, CreatePcs, TypeOK
<1>25. DoomedFenced'
  BY <1>1 DEF AccountInv, OwnershipInv, DoomedFenced, Revoked, InCreate, CreatePcs, TypeOK
<1>31. ReservationsBalanced'
  BY <1>1, ReservationsKept DEF AccountInv, ArgsKept
<1>32. FenceTracksCreates'
  BY <1>1, FencesKept DEF AccountInv, ArgsKept
<1>33. CapacityBound'
  BY <1>1, CapacityKept DEF AccountInv
<1> QED
  BY <1>21, <1>22, <1>23, <1>24, <1>25, <1>31, <1>32, <1>33 DEF AccountInv, OwnershipInv

\* retireGeneration: the process is signalled and the directory removed.
LEMMA RetireKeeps ==
  ASSUME TypeOK, AccountInv, NEW g \in Requests, Retire(g)
  PROVE  AccountInv'
<1>1. /\ UNCHANGED pc
      /\ process' = [process EXCEPT ![g] = IF process[g] = "running" THEN "killed" ELSE process[g]]
      /\ dirs' = dirs \ {g} /\ retiring' = retiring \ {g}
      /\ UNCHANGED <<req, sessions, subtitleJobs, generations, inputs, starting, pendingJobs, revokedViewers, pendingViewers,
                    closed, shutdown, shutGens, stopQueue, doomed>>
  BY DEF Retire, clientVars, lifeVars, genVars, admitVars, lifecycleVars, otherVars
<1>11. /\ process'[g] # "running" /\ g \notin dirs'
       /\ process[g] = "none" => process'[g] = "none"
  BY <1>1 DEF TypeOK
<1>12. \A x \in Requests : x # g => process'[x] = process[x]
  BY <1>1 DEF TypeOK
<1>21. ProcessesOwned' /\ DirsOwned'
  BY <1>1, <1>11, <1>12 DEF AccountInv, OwnershipInv, ProcessesOwned, DirsOwned, Owned, NeverRan, UnstartedPcs,
     TypeOK
<1>22. SubtitleWorkBounded' /\ InputsOwned'
  BY <1>1, <1>11, <1>12 DEF AccountInv, OwnershipInv, SubtitleWorkBounded, InputsOwned, TypeOK
<1>23. NeverRan' /\ StartsReturned'
  BY <1>1, <1>11, <1>12 DEF AccountInv, OwnershipInv, NeverRan, StartsReturned, ClosedClears, UnstartedPcs,
     StartWGPcs, CreatePcs, TypeOK
<1>24. ClosedClears' /\ ShutdownRetires'
  BY <1>1, <1>11, <1>12 DEF AccountInv, OwnershipInv, ClosedClears, ShutdownRetires, StartsReturned,
     StartWGPcs, CreatePcs, TypeOK
<1>25. DoomedFenced'
  BY <1>1, <1>11, <1>12 DEF AccountInv, OwnershipInv, DoomedFenced, Revoked, InCreate, CreatePcs, TypeOK
<1>31. ReservationsBalanced'
  BY <1>1, ReservationsKept DEF AccountInv, ArgsKept
<1>32. FenceTracksCreates'
  BY <1>1, FencesKept DEF AccountInv, ArgsKept
<1>33. CapacityBound'
  BY <1>1, CapacityKept DEF AccountInv
<1> QED
  BY <1>21, <1>22, <1>23, <1>24, <1>25, <1>31, <1>32, <1>33 DEF AccountInv, OwnershipInv

\* Shutdown detaches everything at once.
LEMMA ShutdownKeeps ==
  ASSUME TypeOK, AccountInv, Shutdown
  PROVE  AccountInv'
<1>1. /\ UNCHANGED pc
      /\ ~closed /\ closed' = TRUE /\ shutdown' = "starts" /\ shutGens' = generations
      /\ generations' = {} /\ sessions' = {} /\ inputs' = {} /\ subtitleJobs' = subtitleJobs \ sessions
      /\ UNCHANGED <<req, retiring, process, dirs, starting, pendingJobs, revokedViewers, pendingViewers, stopQueue,
                    doomed>>
  BY DEF Shutdown, CancelledJobs, clientVars, lifeVars, genVars, admitVars, lifecycleVars, otherVars
<1>21. ProcessesOwned' /\ DirsOwned'
  BY <1>1 DEF AccountInv, OwnershipInv, ProcessesOwned, DirsOwned, Owned, NeverRan, UnstartedPcs,
     TypeOK, ClosedClears
<1>22. SubtitleWorkBounded' /\ InputsOwned'
  BY <1>1 DEF AccountInv, OwnershipInv, SubtitleWorkBounded, InputsOwned, TypeOK, ClosedClears
<1>23. NeverRan' /\ StartsReturned'
  BY <1>1 DEF AccountInv, OwnershipInv, NeverRan, StartsReturned, ClosedClears, UnstartedPcs,
     StartWGPcs, CreatePcs, TypeOK, ClosedClears
<1>24. ClosedClears' /\ ShutdownRetires'
  BY <1>1 DEF AccountInv, OwnershipInv, ClosedClears, ShutdownRetires, StartsReturned,
     StartWGPcs, CreatePcs, TypeOK, ClosedClears
<1>25. DoomedFenced'
  BY <1>1 DEF AccountInv, OwnershipInv, DoomedFenced, Revoked, InCreate, CreatePcs, TypeOK, ClosedClears
<1>31. ReservationsBalanced'
  BY <1>1, ReservationsKept DEF AccountInv, ArgsKept
<1>32. FenceTracksCreates'
  BY <1>1, FencesKept DEF AccountInv, ArgsKept
<1>33. CapacityBound'
  BY <1>1, CapacityKept DEF AccountInv
<1> QED
  BY <1>21, <1>22, <1>23, <1>24, <1>25, <1>31, <1>32, <1>33 DEF AccountInv, OwnershipInv

\* The creates in flight have returned.
LEMMA StartsDoneKeeps ==
  ASSUME TypeOK, AccountInv, ShutdownStartsDone
  PROVE  AccountInv'
<1>1. /\ UNCHANGED pc
      /\ shutdown = "starts" /\ shutdown' = "janitor"
      /\ \A r \in Requests : pc[r] \notin StartWGPcs
      /\ retiring' = retiring
      /\ UNCHANGED <<req, sessions, subtitleJobs, generations, inputs, process, dirs, starting, pendingJobs,
                    revokedViewers, pendingViewers, closed, shutGens, stopQueue, doomed>>
  BY DEF ShutdownStartsDone, ShutdownMoves, clientVars, lifeVars, genVars, admitVars, lifecycleVars, otherVars
<1>21. ProcessesOwned' /\ DirsOwned'
  BY <1>1 DEF AccountInv, OwnershipInv, ProcessesOwned, DirsOwned, Owned, NeverRan, UnstartedPcs,
     TypeOK, ClosedClears, ShutdownRetires
<1>22. SubtitleWorkBounded' /\ InputsOwned'
  BY <1>1 DEF AccountInv, OwnershipInv, SubtitleWorkBounded, InputsOwned, TypeOK, ClosedClears, ShutdownRetires
<1>23. NeverRan' /\ StartsReturned'
  BY <1>1 DEF AccountInv, OwnershipInv, NeverRan, StartsReturned, ClosedClears, UnstartedPcs,
     StartWGPcs, CreatePcs, TypeOK, ClosedClears, ShutdownRetires
<1>24. ClosedClears' /\ ShutdownRetires'
  BY <1>1 DEF AccountInv, OwnershipInv, ClosedClears, ShutdownRetires, StartsReturned,
     StartWGPcs, CreatePcs, TypeOK, ClosedClears, ShutdownRetires
<1>25. DoomedFenced'
  BY <1>1 DEF AccountInv, OwnershipInv, DoomedFenced, Revoked, InCreate, CreatePcs, TypeOK, ClosedClears, ShutdownRetires
<1>31. ReservationsBalanced'
  BY <1>1, ReservationsKept DEF AccountInv, ArgsKept
<1>32. FenceTracksCreates'
  BY <1>1, FencesKept DEF AccountInv, ArgsKept
<1>33. CapacityBound'
  BY <1>1, CapacityKept DEF AccountInv
<1> QED
  BY <1>21, <1>22, <1>23, <1>24, <1>25, <1>31, <1>32, <1>33 DEF AccountInv, OwnershipInv

\* The deadline passes while Shutdown waits for the creates.
LEMMA StartsTimeoutKeeps ==
  ASSUME TypeOK, AccountInv, ShutdownStartsTimeout
  PROVE  AccountInv'
<1>1. /\ UNCHANGED pc
      /\ shutdown = "starts" /\ shutdown' = "failed"
      /\ retiring' = retiring \cup shutGens
      /\ UNCHANGED <<req, sessions, subtitleJobs, generations, inputs, process, dirs, starting, pendingJobs,
                    revokedViewers, pendingViewers, closed, shutGens, stopQueue, doomed>>
  BY DEF ShutdownStartsTimeout, ShutdownMoves, clientVars, lifeVars, genVars, admitVars, lifecycleVars, otherVars
<1>21. ProcessesOwned' /\ DirsOwned'
  BY <1>1 DEF AccountInv, OwnershipInv, ProcessesOwned, DirsOwned, Owned, NeverRan, UnstartedPcs,
     TypeOK, ClosedClears, ShutdownRetires
<1>22. SubtitleWorkBounded' /\ InputsOwned'
  BY <1>1 DEF AccountInv, OwnershipInv, SubtitleWorkBounded, InputsOwned, TypeOK, ClosedClears, ShutdownRetires
<1>23. NeverRan' /\ StartsReturned'
  BY <1>1 DEF AccountInv, OwnershipInv, NeverRan, StartsReturned, ClosedClears, UnstartedPcs,
     StartWGPcs, CreatePcs, TypeOK, ClosedClears, ShutdownRetires
<1>24. ClosedClears' /\ ShutdownRetires'
  BY <1>1 DEF AccountInv, OwnershipInv, ClosedClears, ShutdownRetires, StartsReturned,
     StartWGPcs, CreatePcs, TypeOK, ClosedClears, ShutdownRetires
<1>25. DoomedFenced'
  BY <1>1 DEF AccountInv, OwnershipInv, DoomedFenced, Revoked, InCreate, CreatePcs, TypeOK, ClosedClears, ShutdownRetires
<1>31. ReservationsBalanced'
  BY <1>1, ReservationsKept DEF AccountInv, ArgsKept
<1>32. FenceTracksCreates'
  BY <1>1, FencesKept DEF AccountInv, ArgsKept
<1>33. CapacityBound'
  BY <1>1, CapacityKept DEF AccountInv
<1> QED
  BY <1>21, <1>22, <1>23, <1>24, <1>25, <1>31, <1>32, <1>33 DEF AccountInv, OwnershipInv

\* The janitor has stopped: what was detached is retired.
LEMMA JanitorDoneKeeps ==
  ASSUME TypeOK, AccountInv, ShutdownJanitorDone
  PROVE  AccountInv'
<1>1. /\ UNCHANGED pc
      /\ shutdown = "janitor" /\ shutdown' = "retire"
      /\ retiring' = retiring \cup shutGens
      /\ UNCHANGED <<req, sessions, subtitleJobs, generations, inputs, process, dirs, starting, pendingJobs,
                    revokedViewers, pendingViewers, closed, shutGens, stopQueue, doomed>>
  BY DEF ShutdownJanitorDone, ShutdownMoves, clientVars, lifeVars, genVars, admitVars, lifecycleVars, otherVars
<1>21. ProcessesOwned' /\ DirsOwned'
  BY <1>1 DEF AccountInv, OwnershipInv, ProcessesOwned, DirsOwned, Owned, NeverRan, UnstartedPcs,
     TypeOK, ClosedClears, ShutdownRetires
<1>22. SubtitleWorkBounded' /\ InputsOwned'
  BY <1>1 DEF AccountInv, OwnershipInv, SubtitleWorkBounded, InputsOwned, TypeOK, ClosedClears, ShutdownRetires
<1>23. NeverRan' /\ StartsReturned'
  BY <1>1 DEF AccountInv, OwnershipInv, NeverRan, StartsReturned, ClosedClears, UnstartedPcs,
     StartWGPcs, CreatePcs, TypeOK, ClosedClears, ShutdownRetires
<1>24. ClosedClears' /\ ShutdownRetires'
  BY <1>1 DEF AccountInv, OwnershipInv, ClosedClears, ShutdownRetires, StartsReturned,
     StartWGPcs, CreatePcs, TypeOK, ClosedClears, ShutdownRetires
<1>25. DoomedFenced'
  BY <1>1 DEF AccountInv, OwnershipInv, DoomedFenced, Revoked, InCreate, CreatePcs, TypeOK, ClosedClears, ShutdownRetires
<1>31. ReservationsBalanced'
  BY <1>1, ReservationsKept DEF AccountInv, ArgsKept
<1>32. FenceTracksCreates'
  BY <1>1, FencesKept DEF AccountInv, ArgsKept
<1>33. CapacityBound'
  BY <1>1, CapacityKept DEF AccountInv
<1> QED
  BY <1>21, <1>22, <1>23, <1>24, <1>25, <1>31, <1>32, <1>33 DEF AccountInv, OwnershipInv

\* The deadline passes while Shutdown waits for the janitor.
LEMMA JanitorTimeoutKeeps ==
  ASSUME TypeOK, AccountInv, ShutdownJanitorTimeout
  PROVE  AccountInv'
<1>1. /\ UNCHANGED pc
      /\ shutdown = "janitor" /\ shutdown' = "failed"
      /\ retiring' = retiring
      /\ UNCHANGED <<req, sessions, subtitleJobs, generations, inputs, process, dirs, starting, pendingJobs,
                    revokedViewers, pendingViewers, closed, shutGens, stopQueue, doomed>>
  BY DEF ShutdownJanitorTimeout, ShutdownMoves, clientVars, lifeVars, genVars, admitVars, lifecycleVars, otherVars
<1>21. ProcessesOwned' /\ DirsOwned'
  BY <1>1 DEF AccountInv, OwnershipInv, ProcessesOwned, DirsOwned, Owned, NeverRan, UnstartedPcs,
     TypeOK, ClosedClears, ShutdownRetires
<1>22. SubtitleWorkBounded' /\ InputsOwned'
  BY <1>1 DEF AccountInv, OwnershipInv, SubtitleWorkBounded, InputsOwned, TypeOK, ClosedClears, ShutdownRetires
<1>23. NeverRan' /\ StartsReturned'
  BY <1>1 DEF AccountInv, OwnershipInv, NeverRan, StartsReturned, ClosedClears, UnstartedPcs,
     StartWGPcs, CreatePcs, TypeOK, ClosedClears, ShutdownRetires
<1>24. ClosedClears' /\ ShutdownRetires'
  BY <1>1 DEF AccountInv, OwnershipInv, ClosedClears, ShutdownRetires, StartsReturned,
     StartWGPcs, CreatePcs, TypeOK, ClosedClears, ShutdownRetires
<1>25. DoomedFenced'
  BY <1>1 DEF AccountInv, OwnershipInv, DoomedFenced, Revoked, InCreate, CreatePcs, TypeOK, ClosedClears, ShutdownRetires
<1>31. ReservationsBalanced'
  BY <1>1, ReservationsKept DEF AccountInv, ArgsKept
<1>32. FenceTracksCreates'
  BY <1>1, FencesKept DEF AccountInv, ArgsKept
<1>33. CapacityBound'
  BY <1>1, CapacityKept DEF AccountInv
<1> QED
  BY <1>21, <1>22, <1>23, <1>24, <1>25, <1>31, <1>32, <1>33 DEF AccountInv, OwnershipInv

\* Everything detached has been retired.
LEMMA ShutdownDoneKeeps ==
  ASSUME TypeOK, AccountInv, ShutdownDone
  PROVE  AccountInv'
<1>1. /\ UNCHANGED pc
      /\ shutdown = "retire" /\ shutdown' = "done"
      /\ shutGens \cap retiring = {}
      /\ retiring' = retiring
      /\ UNCHANGED <<req, sessions, subtitleJobs, generations, inputs, process, dirs, starting, pendingJobs,
                    revokedViewers, pendingViewers, closed, shutGens, stopQueue, doomed>>
  BY DEF ShutdownDone, ShutdownMoves, clientVars, lifeVars, genVars, admitVars, lifecycleVars, otherVars
<1>21. ProcessesOwned' /\ DirsOwned'
  BY <1>1 DEF AccountInv, OwnershipInv, ProcessesOwned, DirsOwned, Owned, NeverRan, UnstartedPcs,
     TypeOK, ClosedClears, ShutdownRetires
<1>22. SubtitleWorkBounded' /\ InputsOwned'
  BY <1>1 DEF AccountInv, OwnershipInv, SubtitleWorkBounded, InputsOwned, TypeOK, ClosedClears, ShutdownRetires
<1>23. NeverRan' /\ StartsReturned'
  BY <1>1 DEF AccountInv, OwnershipInv, NeverRan, StartsReturned, ClosedClears, UnstartedPcs,
     StartWGPcs, CreatePcs, TypeOK, ClosedClears, ShutdownRetires
<1>24. ClosedClears' /\ ShutdownRetires'
  BY <1>1 DEF AccountInv, OwnershipInv, ClosedClears, ShutdownRetires, StartsReturned,
     StartWGPcs, CreatePcs, TypeOK, ClosedClears, ShutdownRetires
<1>25. DoomedFenced'
  BY <1>1 DEF AccountInv, OwnershipInv, DoomedFenced, Revoked, InCreate, CreatePcs, TypeOK, ClosedClears, ShutdownRetires
<1>31. ReservationsBalanced'
  BY <1>1, ReservationsKept DEF AccountInv, ArgsKept
<1>32. FenceTracksCreates'
  BY <1>1, FencesKept DEF AccountInv, ArgsKept
<1>33. CapacityBound'
  BY <1>1, CapacityKept DEF AccountInv
<1> QED
  BY <1>21, <1>22, <1>23, <1>24, <1>25, <1>31, <1>32, <1>33 DEF AccountInv, OwnershipInv

\* Every step keeps the accounts.
LEMMA AccountStep == TypeOK /\ AccountInv /\ [Next]_vars => AccountInv'
<1> SUFFICES ASSUME TypeOK, AccountInv, [Next]_vars PROVE AccountInv'
  OBVIOUS
<1> USE DEF clientVars, lifeVars, genVars, admitVars, lifecycleVars, otherVars
<1>1. ASSUME NEW r \in Requests, NEW v \in Viewers, NEW c \in Catalogs, NEW p \in Plans \cup {Direct}, Plan(r, v, c, p)
      PROVE  AccountInv'
  <2>1. \A x \in Requests : x # r => req'[x] = req[x]
    BY <1>1 DEF Plan, TypeOK
  <2> QED
    BY <1>1, <2>1, IssueKeeps DEF Plan
<1>2. ASSUME NEW r \in Requests, NEW s \in Requests, Seek(r, s) PROVE AccountInv'
  <2>1. \A x \in Requests : x # r => req'[x] = req[x]
    BY <1>2 DEF Seek, Replacing, TypeOK
  <2> QED
    BY <1>2, <2>1, IssueKeeps DEF Seek, Replacing
<1>3. ASSUME NEW r \in Requests, NEW s \in Requests, NEW p \in Plans \cup {Direct}, Replace(r, s, p)
      PROVE  AccountInv'
  <2>1. \A x \in Requests : x # r => req'[x] = req[x]
    BY <1>3 DEF Replace, ReserveSource, Replacing, TypeOK
  <2> QED
    BY <1>3, <2>1, IssueKeeps DEF Replace, ReserveSource, Replacing
<1>4. ASSUME NEW r \in Requests, NEW s \in Requests, NEW p \in Plans \cup {Direct}, PrepareHandoff(r, s, p)
      PROVE  AccountInv'
  <2>1. \A x \in Requests : x # r => req'[x] = req[x]
    BY <1>4 DEF PrepareHandoff, ReserveSource, Replacing, TypeOK
  <2> QED
    BY <1>4, <2>1, IssueKeeps DEF PrepareHandoff, ReserveSource, Replacing
<1>5. ASSUME NEW r \in Requests, Enter(r) PROVE AccountInv'
  BY <1>5, EnterKeeps
<1>6. ASSUME NEW r \in Requests, CreateDirect(r) PROVE AccountInv'
  BY <1>6, CreateDirectKeeps
<1>7. ASSUME NEW r \in Requests, NEW g \in Requests, ShareGeneration(r, g) PROVE AccountInv'
  BY <1>7, ShareKeeps
<1>8. ASSUME NEW r \in Requests, Reserve(r) PROVE AccountInv'
  BY <1>8, ReserveKeeps
<1>9. ASSUME NEW r \in Requests, InstallInputs(r) PROVE AccountInv'
  BY <1>9, InstallInputsKeeps
<1>10. ASSUME NEW r \in Requests, InstallFails(r) PROVE AccountInv'
  BY <1>10, InstallFailsKeeps
<1>11. ASSUME NEW r \in Requests, StartProcess(r) PROVE AccountInv'
  BY <1>11, StartProcessKeeps
<1>12. ASSUME NEW r \in Requests, StartFails(r) PROVE AccountInv'
  BY <1>12, StartFailsKeeps
<1>13. ASSUME NEW r \in Requests, Abort(r) PROVE AccountInv'
  BY <1>13, AbortKeeps
<1>14. ASSUME NEW r \in Requests, Admit(r) PROVE AccountInv'
  BY <1>14, AdmitKeeps
<1>15. ASSUME NEW r \in Requests, AdmitRefused(r) PROVE AccountInv'
  BY <1>15, AdmitRefusedKeeps
<1>16. ASSUME NEW r \in Requests, Discard(r) PROVE AccountInv'
  BY <1>16, DiscardKeeps
<1>17. ASSUME NEW r \in Requests, Abandon(r) PROVE AccountInv'
  BY <1>17, AbandonKeeps
<1>18. ASSUME NEW r \in Requests, ConfirmAdmission(r) PROVE AccountInv'
  BY <1>18, ConfirmKeeps
<1>19. ASSUME NEW r \in Requests, FinishViewerCreate(r) PROVE AccountInv'
  BY <1>19, FinishKeeps
<1>20. ASSUME NEW v \in Viewers, StopViewer(v) PROVE AccountInv'
  BY <1>20, StopViewerKeeps
<1>21. ASSUME NEW g \in Requests, ProcessExit(g) PROVE AccountInv'
  BY <1>21, ExitKeeps
<1>22. ASSUME NEW g \in Requests, Retire(g) PROVE AccountInv'
  BY <1>22, RetireKeeps
<1>23. ASSUME Shutdown PROVE AccountInv'
  BY <1>23, ShutdownKeeps
<1>24. ASSUME ShutdownStartsDone PROVE AccountInv'
  BY <1>24, StartsDoneKeeps
<1>25. ASSUME ShutdownStartsTimeout PROVE AccountInv'
  BY <1>25, StartsTimeoutKeeps
<1>26. ASSUME ShutdownJanitorDone PROVE AccountInv'
  BY <1>26, JanitorDoneKeeps
<1>27. ASSUME ShutdownJanitorTimeout PROVE AccountInv'
  BY <1>27, JanitorTimeoutKeeps
<1>28. ASSUME ShutdownDone PROVE AccountInv'
  BY <1>28, ShutdownDoneKeeps
<1>29. ASSUME NEW r \in Requests, EnterRefused(r) PROVE AccountInv'
  <2>1. PICK label : Goto(r, label) /\ QuietMove(pc[r], label)
    BY <1>29, QuietMoves DEF EnterRefused, FailedLabel
  <2>2. LifeShrinks /\ QueueKept
    BY <1>29, Still DEF EnterRefused, FailedLabel
  <2> QED
    BY <1>29, <2>1, <2>2, MoveKeeps DEF EnterRefused, FailedLabel
<1>30. ASSUME NEW r \in Requests, CreateRefused(r) PROVE AccountInv'
  <2>1. PICK label : Goto(r, label) /\ QuietMove(pc[r], label)
    BY <1>30, QuietMoves DEF CreateRefused
  <2>2. LifeShrinks /\ QueueKept
    BY <1>30, Still DEF CreateRefused
  <2> QED
    BY <1>30, <2>1, <2>2, MoveKeeps DEF CreateRefused
<1>31. ASSUME NEW r \in Requests, Discarded(r) PROVE AccountInv'
  <2>1. PICK label : Goto(r, label) /\ QuietMove(pc[r], label)
    BY <1>31, QuietMoves DEF Discarded
  <2>2. LifeShrinks /\ QueueKept
    BY <1>31, Still DEF Discarded
  <2> QED
    BY <1>31, <2>1, <2>2, MoveKeeps DEF Discarded
<1>32. ASSUME NEW r \in Requests, ManifestWritten(r) PROVE AccountInv'
  <2>1. PICK label : Goto(r, label) /\ QuietMove(pc[r], label)
    BY <1>32, QuietMoves DEF ManifestWritten
  <2>2. LifeShrinks /\ QueueKept
    BY <1>32, Still DEF ManifestWritten
  <2> QED
    BY <1>32, <2>1, <2>2, MoveKeeps DEF ManifestWritten
<1>33. ASSUME NEW r \in Requests, Unlink(r) PROVE AccountInv'
  <2>1. PICK label : Goto(r, label) /\ QuietMove(pc[r], label)
    BY <1>33, QuietMoves DEF Unlink
  <2>2. LifeShrinks /\ QueueKept
    BY <1>33, Still DEF Unlink
  <2> QED
    BY <1>33, <2>1, <2>2, MoveKeeps DEF Unlink
<1>34. ASSUME NEW r \in Requests, BeginPlayback(r) PROVE AccountInv'
  <2>1. PICK label : Goto(r, label) /\ QuietMove(pc[r], label)
    BY <1>34, QuietMoves DEF BeginPlayback
  <2>2. LifeShrinks /\ QueueKept
    BY <1>34, Still DEF BeginPlayback
  <2> QED
    BY <1>34, <2>1, <2>2, MoveKeeps DEF BeginPlayback
<1>35. ASSUME NEW r \in Requests, PlanAnswered(r) PROVE AccountInv'
  <2>1. PICK label : Goto(r, label) /\ QuietMove(pc[r], label)
    BY <1>35, QuietMoves DEF PlanAnswered
  <2>2. LifeShrinks /\ QueueKept
    BY <1>35, Still DEF PlanAnswered
  <2> QED
    BY <1>35, <2>1, <2>2, MoveKeeps DEF PlanAnswered
<1>36. ASSUME NEW r \in Requests, SeekPromoted(r) PROVE AccountInv'
  <2>1. PICK label : Goto(r, label) /\ QuietMove(pc[r], label)
    BY <1>36, QuietMoves DEF SeekPromoted
  <2>2. LifeShrinks /\ QueueKept
    BY <1>36, Still DEF SeekPromoted
  <2> QED
    BY <1>36, <2>1, <2>2, MoveKeeps DEF SeekPromoted
<1>37. ASSUME NEW r \in Requests, SeekDropped(r) PROVE AccountInv'
  <2>1. PICK label : Goto(r, label) /\ QuietMove(pc[r], label)
    BY <1>37, QuietMoves DEF SeekDropped
  <2>2. LifeShrinks /\ QueueKept
    BY <1>37, Still DEF SeekDropped
  <2> QED
    BY <1>37, <2>1, <2>2, MoveKeeps DEF SeekDropped
<1>38. ASSUME NEW r \in Requests, HandoffActivated(r) PROVE AccountInv'
  <2>1. PICK label : Goto(r, label) /\ QuietMove(pc[r], label)
    BY <1>38, QuietMoves DEF HandoffActivated
  <2>2. LifeShrinks /\ QueueKept
    BY <1>38, Still DEF HandoffActivated
  <2> QED
    BY <1>38, <2>1, <2>2, MoveKeeps DEF HandoffActivated
<1>39. ASSUME NEW r \in Requests, HandoffPromoted(r) PROVE AccountInv'
  <2>1. PICK label : Goto(r, label) /\ QuietMove(pc[r], label)
    BY <1>39, QuietMoves DEF HandoffPromoted
  <2>2. LifeShrinks /\ QueueKept
    BY <1>39, Still DEF HandoffPromoted
  <2> QED
    BY <1>39, <2>1, <2>2, MoveKeeps DEF HandoffPromoted
<1>40. ASSUME NEW r \in Requests, ReplacementDropped(r) PROVE AccountInv'
  <2>1. PICK label : Goto(r, label) /\ QuietMove(pc[r], label)
    BY <1>40, QuietMoves DEF ReplacementDropped
  <2>2. LifeShrinks /\ QueueKept
    BY <1>40, Still DEF ReplacementDropped
  <2> QED
    BY <1>40, <2>1, <2>2, MoveKeeps DEF ReplacementDropped
<1>41. ASSUME NEW r \in Requests, Cleanup(r) PROVE AccountInv'
  <2>1. PICK label : Goto(r, label) /\ QuietMove(pc[r], label)
    BY <1>41, QuietMoves DEF Cleanup
  <2>2. LifeShrinks /\ QueueKept
    BY <1>41, Still DEF Cleanup
  <2> QED
    BY <1>41, <2>1, <2>2, MoveKeeps DEF Cleanup
<1>42. ASSUME NEW r \in Requests, ManifestFails(r) PROVE AccountInv'
  <2>1. PICK label : Goto(r, label) /\ QuietMove(pc[r], label)
    BY <1>42, QuietMoves DEF ManifestFails
  <2>2. LifeShrinks /\ QueueKept
    BY <1>42, Still, StopForViewerShrinks DEF ManifestFails
  <2> QED
    BY <1>42, <2>1, <2>2, MoveKeeps DEF ManifestFails
<1>43. ASSUME NEW r \in Requests, Reject(r) PROVE AccountInv'
  <2>1. PICK label : Goto(r, label) /\ QuietMove(pc[r], label)
    BY <1>43, QuietMoves DEF Reject
  <2>2. LifeShrinks /\ QueueKept
    BY <1>43, Still, StopForViewerShrinks DEF Reject
  <2> QED
    BY <1>43, <2>1, <2>2, MoveKeeps DEF Reject
<1>44. ASSUME NEW r \in Requests, PlanDropped(r) PROVE AccountInv'
  <2>1. PICK label : Goto(r, label) /\ QuietMove(pc[r], label)
    BY <1>44, QuietMoves DEF PlanDropped
  <2>2. LifeShrinks /\ QueueKept
    BY <1>44, Still, StopForViewerShrinks DEF PlanDropped
  <2> QED
    BY <1>44, <2>1, <2>2, MoveKeeps DEF PlanDropped
<1>45. ASSUME NEW r \in Requests, DropCandidate(r) PROVE AccountInv'
  <2>1. PICK label : Goto(r, label) /\ QuietMove(pc[r], label)
    BY <1>45, QuietMoves DEF DropCandidate
  <2>2. LifeShrinks /\ QueueKept
    BY <1>45, Still, StopForViewerShrinks DEF DropCandidate
  <2> QED
    BY <1>45, <2>1, <2>2, MoveKeeps DEF DropCandidate
<1>46. ASSUME NEW r \in Requests, SeekSwapped(r) PROVE AccountInv'
  <2>1. PICK label : Goto(r, label) /\ QuietMove(pc[r], label)
    BY <1>46, QuietMoves DEF SeekSwapped
  <2>2. LifeShrinks /\ QueueKept
    BY <1>46, Still, StopShrinks DEF SeekSwapped
  <2> QED
    BY <1>46, <2>1, <2>2, MoveKeeps DEF SeekSwapped
<1>47. ASSUME NEW r \in Requests, ReplaceSwapped(r) PROVE AccountInv'
  <2>1. PICK label : Goto(r, label) /\ QuietMove(pc[r], label)
    BY <1>47, QuietMoves DEF ReplaceSwapped
  <2>2. LifeShrinks
    <3>1. CASE OwnerStoppedOld(r)
      BY <1>47, <3>1, Still DEF ReplaceSwapped
    <3>2. CASE ~OwnerStoppedOld(r)
      BY <1>47, <3>2, StopShrinks DEF ReplaceSwapped
    <3> QED
      BY <3>1, <3>2
  <2> QED
    BY <1>47, <2>1, <2>2, MoveKeeps, Still DEF ReplaceSwapped
<1>48. ASSUME NEW r \in Requests, StopSupersededPlans(r) PROVE AccountInv'
  <2>1. Goto(r, "superseding") /\ QuietMove(pc[r], "superseding")
    BY <1>48, QuietMoves DEF StopSupersededPlans
  <2>2. QueueKept
    <3>1. \A v \in Viewers : stopQueue'[v] = stopQueue[v]
      BY <1>48, NoneAssumption DEF StopSupersededPlans, TypeOK
    <3> QED
      BY <3>1 DEF QueueKept
  <2>3. LifeShrinks
    BY <1>48, Still DEF StopSupersededPlans
  <2> QED
    BY <1>48, <2>1, <2>2, <2>3, MoveKeeps DEF StopSupersededPlans
<1>49. ASSUME NEW key \in Viewers \X Catalogs, SetWatched(key) PROVE AccountInv'
  <2>1. LifeShrinks /\ QueueKept
    BY <1>49, Still DEF SetWatched
  <2> QED
    BY <1>49, <2>1, ShrinkKeeps DEF SetWatched
<1>50. ASSUME NEW s \in Requests, SeekRetained(s) PROVE AccountInv'
  <2>1. LifeShrinks /\ QueueKept
    BY <1>50, Still DEF SeekRetained
  <2> QED
    BY <1>50, <2>1, ShrinkKeeps DEF SeekRetained
<1>51. ASSUME NEW h \in Requests, NEW isAttached \in BOOLEAN, ResolveHandoff(h, isAttached)
      PROVE  AccountInv'
  <2>1. LifeShrinks /\ QueueKept
    BY <1>51, Still, ResolveShrinks DEF ResolveHandoff
  <2> QED
    BY <1>51, <2>1, ShrinkKeeps DEF ResolveHandoff
<1>52. ASSUME NEW s \in Requests, ExpireHandoff(s) PROVE AccountInv'
  <2>1. LifeShrinks /\ QueueKept
    BY <1>52, Still, ResolveShrinks DEF ExpireHandoff
  <2> QED
    BY <1>52, <2>1, ShrinkKeeps DEF ExpireHandoff
<1>53. ASSUME NEW s \in Requests, Lookup(s) PROVE AccountInv'
  <2>1. LifeShrinks /\ QueueKept
    BY <1>53, Still DEF Lookup, Renew
  <2> QED
    BY <1>53, <2>1, ShrinkKeeps DEF Lookup, Renew
<1>54. ASSUME NEW s \in Requests, LookupExpired(s) PROVE AccountInv'
  <2>1. LifeShrinks /\ QueueKept
    BY <1>54, Still, StopForViewerShrinks DEF LookupExpired
  <2> QED
    BY <1>54, <2>1, ShrinkKeeps DEF LookupExpired
<1>55. ASSUME NEW s \in Requests, Heartbeat(s) PROVE AccountInv'
  <2>1. LifeShrinks /\ QueueKept
    BY <1>55, Still DEF Heartbeat, Renew
  <2> QED
    BY <1>55, <2>1, ShrinkKeeps DEF Heartbeat, Renew
<1>56. ASSUME NEW g \in Requests, InputFile(g) PROVE AccountInv'
  <2>1. LifeShrinks /\ QueueKept
    BY <1>56, Still DEF InputFile, AccountInv, OwnershipInv, SubtitleWorkBounded, LifeShrinks
  <2> QED
    BY <1>56, <2>1, ShrinkKeeps DEF InputFile, AccountInv, OwnershipInv, SubtitleWorkBounded, LifeShrinks
<1>57. ASSUME NEW s \in Requests, SubtitleStart(s) PROVE AccountInv'
  <2>1. LifeShrinks /\ QueueKept
    BY <1>57, Still DEF SubtitleStart, AccountInv, OwnershipInv, SubtitleWorkBounded, LifeShrinks
  <2> QED
    BY <1>57, <2>1, ShrinkKeeps DEF SubtitleStart, AccountInv, OwnershipInv, SubtitleWorkBounded, LifeShrinks
<1>58. ASSUME NEW s \in Requests, SubtitleRelease(s) PROVE AccountInv'
  <2>1. LifeShrinks /\ QueueKept
    BY <1>58, Still DEF SubtitleRelease, AccountInv, OwnershipInv, SubtitleWorkBounded, LifeShrinks
  <2> QED
    BY <1>58, <2>1, ShrinkKeeps DEF SubtitleRelease, AccountInv, OwnershipInv, SubtitleWorkBounded, LifeShrinks
<1>59. ASSUME NEW s \in Requests, Stop(s) PROVE AccountInv'
  <2>1. LifeShrinks /\ QueueKept
    BY <1>59, Still, StopForViewerShrinks DEF Stop
  <2> QED
    BY <1>59, <2>1, ShrinkKeeps DEF Stop
<1>60. ASSUME NEW k \in Requests \cup Viewers, NEW s \in Requests, StopQueued(k, s)
      PROVE  AccountInv'
  <2>1. LifeShrinks /\ s \notin sessions'
    BY <1>60, StopForViewerShrinks DEF StopQueued
  <2>2. QueueKept
    BY <1>60, <2>1 DEF StopQueued, QueueKept, TypeOK
  <2> QED
    BY <1>60, <2>1, <2>2, ShrinkKeeps DEF StopQueued
<1>61. ASSUME NEW c \in Catalogs, StopCatalog(c) PROVE AccountInv'
  <2>1. LifeShrinks /\ QueueKept
    BY <1>61, Still, StopShrinks DEF StopCatalog
  <2> QED
    BY <1>61, <2>1, ShrinkKeeps DEF StopCatalog
<1>62. ASSUME NEW s \in Requests, StopOwnerSession(s) PROVE AccountInv'
  <2>1. PICK credits : StopSessions({s}, credits)
    BY <1>62 DEF StopOwnerSession
  <2>2. LifeShrinks /\ QueueKept
    BY <1>62, <2>1, StopShrinks, Still DEF StopOwnerSession
  <2> QED
    BY <1>62, <2>2, ShrinkKeeps DEF StopOwnerSession
<1>63. ASSUME SweepExpire PROVE AccountInv'
  <2>1. LifeShrinks
    <3>1. subtitleJobs \subseteq sessions /\ Emptied(Overdue) \subseteq generations
      BY DEF AccountInv, OwnershipInv, SubtitleWorkBounded, Emptied
    <3> QED
      BY <1>63, <3>1 DEF SweepExpire, LifeShrinks, CancelledJobs
  <2> QED
    BY <1>63, <2>1, ShrinkKeeps, Still DEF SweepExpire
<1>64. ASSUME NEW bad \in SUBSET snapshot, SweepReclaim(bad) PROVE AccountInv'
  <2>1. LifeShrinks
    <3>1. subtitleJobs \subseteq sessions
      BY DEF AccountInv, OwnershipInv, SubtitleWorkBounded
    <3> QED
      BY <1>64, <3>1 DEF SweepReclaim, Detach, LifeShrinks, CancelledJobs
  <2> QED
    BY <1>64, <2>1, ShrinkKeeps, Still DEF SweepReclaim
<1>65. ASSUME SweepDone PROVE AccountInv'
  <2>1. LifeShrinks /\ QueueKept
    BY <1>65, Still DEF SweepDone
  <2> QED
    BY <1>65, <2>1, ShrinkKeeps DEF SweepDone
<1>66. ASSUME JanitorStops PROVE AccountInv'
  <2>1. LifeShrinks /\ QueueKept
    BY <1>66, Still DEF JanitorStops
  <2> QED
    BY <1>66, <2>1, ShrinkKeeps DEF JanitorStops
<1>67. ASSUME Tick PROVE AccountInv'
  <2>1. LifeShrinks /\ QueueKept
    BY <1>67, Still DEF Tick
  <2> QED
    BY <1>67, <2>1, ShrinkKeeps DEF Tick
<1>68. CASE UNCHANGED vars
  BY <1>68, Still, ShrinkKeeps DEF vars
<1> QED
  BY <1>1, <1>2, <1>3, <1>4, <1>5, <1>6, <1>7, <1>8, <1>9, <1>10, <1>11, <1>12, <1>13,
     <1>14, <1>15, <1>16, <1>17, <1>18, <1>19, <1>20, <1>21, <1>22, <1>23, <1>24, <1>25,
     <1>26, <1>27, <1>28, <1>29, <1>30, <1>31, <1>32, <1>33, <1>34, <1>35, <1>36, <1>37,
     <1>38, <1>39, <1>40, <1>41, <1>42, <1>43, <1>44, <1>45, <1>46, <1>47, <1>48, <1>49,
     <1>50, <1>51, <1>52, <1>53, <1>54, <1>55, <1>56, <1>57, <1>58, <1>59, <1>60, <1>61,
     <1>62, <1>63, <1>64, <1>65, <1>66, <1>67, <1>68 DEF Next, Issue, CreateStep,
     OperationStep, SessionStep, JanitorStep, ShutdownStep

\* An idle manager has nothing to account for.
LEMMA AccountInit == Init => AccountInv
<1> SUFFICES ASSUME Init PROVE AccountInv
  OBVIOUS
<1>1. OwnershipInv
  BY DEF Init, OwnershipInv, ProcessesOwned, DirsOwned, SubtitleWorkBounded, InputsOwned, NeverRan,
     ClosedClears, StartsReturned, ShutdownRetires, DoomedFenced, StartWGPcs, CreatePcs
<1>2. \A r \in Requests : pc[r] = "idle"
  BY DEF Init
<1>3. ReservationsBalanced
  <2>1. /\ {r \in Requests : pc[r] \in ReservedPcs} = {}
        /\ {x \in Requests : pc[x] \in PendingJobPcs} = {}
    BY <1>2 DEF ReservedPcs, PendingJobPcs
  <2> QED
    BY <1>2, <2>1, FS_EmptySet DEF Init, ReservationsBalanced, PendingJobPcs, ReservedPcs
<1>4. FenceTracksCreates
  <2>1. \A v \in Viewers : {r \in Requests : InCreate(r) /\ req[r].viewer = v} = {}
    BY <1>2 DEF InCreate, CreatePcs
  <2> QED
    BY <2>1, FS_EmptySet DEF Init, FenceTracksCreates
<1>5. CapacityBound
  BY FS_EmptySet, LimitAssumption DEF Init, CapacityBound
<1> QED
  BY <1>1, <1>3, <1>4, <1>5 DEF AccountInv

\* The accounts hold in every reachable state.
LEMMA AccountsHold == Spec => [](TypeOK /\ AccountInv)
BY TypeInit, TypeStep, AccountInit, AccountStep, PTL DEF Spec

\* Whatever a create takes before its admission is given back by whichever path it
\* leaves through, for any number of concurrent creates: m.starting counts exactly the
\* reserved ones, a pending job key has exactly one owner, an input token one that is
\* starting or admitted, and a viewer is fenced only while it has a create in flight.
THEOREM CreatesBalance == Spec => []CreatesAccounted
<1>1. AccountInv => CreatesAccounted
  BY DEF AccountInv, OwnershipInv, CreatesAccounted
<1> QED
  BY AccountsHold, <1>1, PTL

\* The admitted and starting generations never exceed the limit by more than the one
\* replacement credit, however seeks, replacements and plans overlap.
THEOREM CapacityHolds == Spec => []CapacityBound
<1>1. AccountInv => CapacityBound
  BY DEF AccountInv
<1> QED
  BY AccountsHold, <1>1, PTL

\* Every running FFmpeg process, every segment directory and every subtitle extraction
\* has somebody who ends it, on every error path and across sweep and shutdown.
THEOREM ResourcesHaveOwners == Spec => []ResourcesOwned
<1>1. AccountInv => ResourcesOwned
  BY DEF AccountInv, OwnershipInv, ResourcesOwned
<1> QED
  BY AccountsHold, <1>1, PTL

\* A create in flight when StopViewer ran leaves no session behind that StopViewer does
\* not stop, however long the create goes on.
THEOREM RevocationHolds == Spec => []RevokedCreateFails
<1>1. AccountInv => RevokedCreateFails
  BY DEF AccountInv, OwnershipInv, DoomedFenced, RevokedCreateFails
<1> QED
  BY AccountsHold, <1>1, PTL

\* A Shutdown that returns without an error leaves no session, generation, token,
\* running process or directory of what it detached.
THEOREM ShutdownLeavesNothing == Spec => []ShutdownClears
<1>1. TypeOK /\ AccountInv => ShutdownClears
  <2> SUFFICES ASSUME TypeOK, AccountInv, shutdown = "done"
               PROVE  /\ sessions = {} /\ generations = {} /\ inputs = {}
                      /\ \A g \in shutGens : process[g] # "running" /\ g \notin dirs
    BY DEF ShutdownClears
  <2>1. sessions = {} /\ generations = {}
    BY DEF AccountInv, OwnershipInv, ClosedClears, TypeOK
  <2>2. inputs = {}
    BY <2>1 DEF AccountInv, OwnershipInv, InputsOwned, StartsReturned, StartWGPcs, CreatePcs, TypeOK
  <2> QED
    BY <2>1, <2>2 DEF AccountInv, OwnershipInv, ShutdownRetires
<1> QED
  BY AccountsHold, <1>1, PTL

\* The janitor never ends a session whose lease has not run out, but for the candidate
\* of a handoff that has: a viewer who joins between the two phases of Sweep is safe.
THEOREM JanitorIsPatient == Spec => JanitorSparesLive
<1>1. ASSUME TypeOK, SweepExpire, NEW s \in sessions \ sessions'
      PROVE  now >= expires'[s] \/ s \in handoffs \ handoffs'
  <2> DEFINE kept == {req[h].old : h \in Overdue} \cap sessions
  <2>1. s \in Overdue \/ (s \in sessions \ (kept \cup Overdue) /\ Expired(s))
    BY <1>1 DEF SweepExpire, Late
  <2>2. CASE s \in Overdue
    BY <1>1, <2>2 DEF SweepExpire, DropHandoffs, Overdue
  <2>3. CASE s \in sessions \ (kept \cup Overdue) /\ Expired(s)
    <3>1. expires'[s] = expires[s]
      BY <1>1, <2>3 DEF SweepExpire, Extend, TypeOK
    <3> QED
      BY <2>3, <3>1 DEF Expired
  <2> QED
    BY <2>1, <2>2, <2>3
<1>2. SweepReclaim({}) => sessions' = sessions
  BY DEF SweepReclaim, Reclaimable, Detach
<1>3. TypeOK => [SweepExpire \/ SweepReclaim({}) =>
         \A s \in sessions \ sessions' : now >= expires'[s] \/ s \in handoffs \ handoffs']_vars
  BY <1>1, <1>2
<1> QED
  BY TypeCorrect, <1>3, PTL DEF JanitorSparesLive

-----------------------------------------------------------------------------
(* Replacements: credits, preparations and handoffs.                       *)

\* Where a create has been admitted but has not yet succeeded.
PreparedPcs == {"waiting", "manifest", "rejected", "abandoned", "unlinking"}
\* Where create has returned.
LatePcs == {"created", "accepted", "superseding", "dropping", "cleanupAccepted", "cleanupFailed",
            "done"}

\* Which operation may be at a control point after create.
RoleOK(r) ==
  /\ pc[r] \in {"accepted", "superseding"} => req[r].op = "plan"
  /\ pc[r] = "dropping" => req[r].op \in {"seek", "replace", "handoff"}
  /\ pc[r] \in {"cleanupAccepted", "cleanupFailed"} => req[r].op \in {"replace", "handoff"}

\* Only an operation on a session has a predecessor, and that one has been answered.
OldOK(r) ==
  /\ req[r].old # None <=> req[r].op \in {"seek", "replace", "handoff"}
  /\ req[r].old # None => pc[req[r].old] = "done" /\ req[r].old # r
  /\ RoleOK(r)

\* What the success of create says about the control point, and the other way round.
OkOK(r) ==
  /\ r \in ok => pc[r] \in LatePcs \cup {"finishing"}
  /\ pc[r] \in {"created", "accepted", "superseding", "dropping", "cleanupAccepted"} => r \in ok
  /\ pc[r] = "cleanupFailed" /\ r \in ok => r \notin sessions

\* An operation that may hold the credit of generation g: before admission, a handoff
\* until it is activated or given up, and an active handoff that recorded it.
MayHold(r, g) ==
  \/ pc[r] \in ReservedPcs
  \/ req[r].op = "handoff" /\ pc[r] \in PreparedPcs
  \/ req[r].op = "handoff" /\ r \in ok
           /\ pc[r] \in {"finishing", "created", "dropping", "cleanupFailed"}
  \/ r \in handoffs /\ handoffGen[r] = g
CreditOK(g) ==
  replacements[g] # None =>
    g \in generations /\ OldGen(replacements[g]) = g /\ MayHold(replacements[g], g)

\* An active handoff has answered, or is about to.
HandoffOK(h) == h \in handoffs => req[h].op = "handoff" /\ pc[h] \in {"cleanupAccepted", "done"}

\* A reserved source has an operation that will release it.
SourceOK(s) ==
  s \in preparingHandoffs =>
    \E r \in Requests : InFlight(r) /\ req[r].old = s /\ req[r].op \in {"replace", "handoff"}

\* An operation whose preparation record may still be in the map.
MayLink(r) ==
  \/ pc[r] \in PreparedPcs
  \/ r \in ok /\ pc[r] \in {"finishing", "created", "cleanupFailed"}
  \/ pc[r] = "dropping" /\ req[r].op \in {"replace", "handoff"}
  \/ pc[r] = "done" /\ r \notin sessions

\* A record is found under its own id whenever it is found at all, and only there once
\* its operation is over.
LinkOK(s) ==
  preparingReplacements[s] # None =>
    LET r == preparingReplacements[s] IN
    /\ s \in Pair(r) /\ req[r].old # None
    /\ preparingReplacements[r] = r /\ MayLink(r)
    /\ pc[r] = "done" => s = r

\* A source the owner stopped has taken its operation's credit along.
StoppedOK(r) ==
  /\ pc[r] \notin AdmittedPcs => ownerStopped[r] = None
  /\ req[r].old # None /\ ownerStopped[r] = req[r].old =>
       \A g \in Requests : replacements[g] # r

\* The inductive invariant behind credits, handoffs and controls.
ReplaceInv ==
  /\ \A r \in Requests : /\ OldOK(r) /\ OkOK(r) /\ CreditOK(r) /\ HandoffOK(r)
                         /\ SourceOK(r) /\ LinkOK(r) /\ StoppedOK(r)
  /\ HandoffsPaired

\* Credits are only given back, all of them with their generation, and with the handoff
\* that recorded them.
CreditsShrink ==
  /\ \A g \in Requests : replacements'[g] \in {None, replacements[g]}
  /\ \A g \in generations \ generations' : replacements'[g] = None
  /\ \A h \in handoffs \ handoffs', g \in Requests :
       replacements[g] = h /\ handoffGen[h] = g => replacements'[g] = None

\* Handoffs end for both sessions at once.
HandoffsShrink ==
  /\ handoffs' \subseteq handoffs
  /\ \A s \in Requests : sessionHandoffs'[s] =
       IF \E h \in handoffs \ handoffs' : s \in Pair(h) THEN None ELSE sessionHandoffs[s]

\* Preparation records are removed whole, or under the predecessor's id only.
LinksShrink ==
  /\ \A s \in Requests : preparingReplacements'[s] \in {None, preparingReplacements[s]}
  /\ \A s \in Requests : preparingReplacements'[s] # None =>
       preparingReplacements'[preparingReplacements'[s]] = preparingReplacements'[s]

\* A step that begins nothing.
MapsShrink ==
  /\ CreditsShrink /\ HandoffsShrink /\ LinksShrink
  /\ preparingHandoffs' \subseteq preparingHandoffs /\ sessions' \subseteq sessions
  /\ UNCHANGED <<req, genOf, handoffGen>>

\* The invariant, part by part.
LEMMA ReplaceParts ==
  ASSUME TypeOK, ReplaceInv
  PROVE  /\ \A r \in Requests : OldOK(r) /\ OkOK(r) /\ CreditOK(r) /\ HandoffOK(r)
         /\ \A r \in Requests : SourceOK(r) /\ LinkOK(r) /\ StoppedOK(r)
         /\ \A r \in Requests : req[r].old \in Requests \cup {None} /\ r # None
         /\ \A r \in Requests : genOf[r] \in Requests \cup {None}
         /\ \A r \in Requests : replacements[r] \in Requests \cup {None}
         /\ \A r \in Requests : preparingReplacements[r] \in Requests \cup {None}
         /\ \A r \in Requests : sessionHandoffs[r] \in Requests \cup {None}
         /\ handoffs \subseteq Requests /\ HandoffsPaired
BY NoneAssumption DEF ReplaceInv, TypeOK

\* Ending handoffs keeps both maps paired.
LEMMA PairedKept ==
  ASSUME TypeOK, ReplaceInv, HandoffsShrink, UNCHANGED req
  PROVE  HandoffsPaired'
<1> SUFFICES ASSUME NEW s \in Requests
             PROVE  /\ sessionHandoffs'[s] # None =>
                         sessionHandoffs'[s] \in handoffs' /\ s \in Pair(sessionHandoffs'[s])
                    /\ s \in handoffs' => \A x \in Pair(s) : sessionHandoffs'[x] = s
  BY DEF HandoffsPaired, Pair
<1>1. sessionHandoffs'[s] # None =>
        sessionHandoffs'[s] \in handoffs' /\ s \in Pair(sessionHandoffs'[s])
  BY ReplaceParts DEF HandoffsShrink, HandoffsPaired
<1>2. ASSUME s \in handoffs', NEW x \in Pair(s) PROVE sessionHandoffs'[x] = s
  <2>1. s \in handoffs /\ sessionHandoffs[x] = s /\ x \in Requests
    BY <1>2, ReplaceParts DEF HandoffsShrink, HandoffsPaired, Pair, HandoffOK, OldOK
  <2>2. ~\E h \in handoffs \ handoffs' : x \in Pair(h)
    BY <1>2, <2>1, ReplaceParts DEF HandoffsPaired
  <2> QED
    BY <2>1, <2>2 DEF HandoffsShrink
<1> QED
  BY <1>1, <1>2

\* A step of nobody's control that begins nothing.
LEMMA BystanderKeeps ==
  ASSUME TypeOK, ReplaceInv, MapsShrink, UNCHANGED <<pc, ok>>,
         UNCHANGED ownerStopped \/ \A x \in Requests : StoppedOK(x)'
  PROVE  ReplaceInv'
<1>1. HandoffsPaired'
  BY PairedKept DEF MapsShrink
<1> SUFFICES ASSUME NEW x \in Requests
             PROVE  /\ OldOK(x)' /\ OkOK(x)' /\ CreditOK(x)' /\ HandoffOK(x)'
                    /\ SourceOK(x)' /\ LinkOK(x)' /\ StoppedOK(x)'
  BY <1>1 DEF ReplaceInv
<1>2. OldOK(x)' /\ OkOK(x)' /\ HandoffOK(x)'
  BY ReplaceParts DEF MapsShrink, HandoffsShrink, OldOK, RoleOK, OkOK, HandoffOK
<1>3. CreditOK(x)'
  BY ReplaceParts DEF MapsShrink, CreditsShrink, HandoffsShrink, CreditOK, MayHold, OldGen
<1>4. SourceOK(x)' /\ StoppedOK(x)'
  BY ReplaceParts DEF MapsShrink, CreditsShrink, SourceOK, StoppedOK, InFlight
<1>5. LinkOK(x)'
  BY ReplaceParts DEF MapsShrink, LinksShrink, LinkOK, MayLink, Pair
<1> QED
  BY <1>2, <1>3, <1>4, <1>5

\* One operation moves on and begins nothing: what it may not leave behind is for the
\* step to show.
LEMMA MoverKeeps ==
  ASSUME TypeOK, ReplaceInv, MapsShrink, UNCHANGED ownerStopped, NEW r \in Requests,
         \A x \in Requests : x # r => pc'[x] = pc[x] /\ (x \in ok' <=> x \in ok),
         pc[r] \notin {"done", "cleanupAccepted"}, pc'[r] # "idle",
         pc[r] \in AdmittedPcs => pc'[r] \in AdmittedPcs,
         pc'[r] = "done" => req[r].op \notin {"replace", "handoff"},
         RoleOK(r)',
         OkOK(r)',
         \A g \in Requests : replacements'[g] = r => MayHold(r, g)',
         \A s \in Requests : preparingReplacements'[s] = r => MayLink(r)' /\ pc'[r] # "done"
  PROVE  ReplaceInv'
<1>1. HandoffsPaired'
  BY PairedKept DEF MapsShrink
<1> SUFFICES ASSUME NEW x \in Requests
             PROVE  /\ OldOK(x)' /\ OkOK(x)' /\ CreditOK(x)' /\ HandoffOK(x)'
                    /\ SourceOK(x)' /\ LinkOK(x)' /\ StoppedOK(x)'
  BY <1>1 DEF ReplaceInv
<1>2. OldOK(x)'
  BY ReplaceParts DEF MapsShrink, OldOK, RoleOK
<1>3. OkOK(x)' /\ HandoffOK(x)'
  BY ReplaceParts DEF MapsShrink, HandoffsShrink, OkOK, HandoffOK
<1>4. CreditOK(x)'
  <2>1. CASE replacements'[x] = None
    BY <2>1 DEF CreditOK
  <2>2. CASE replacements'[x] # None
    <3>1. PICK y \in Requests : y = replacements'[x] /\ y = replacements[x]
      BY <2>2, ReplaceParts DEF MapsShrink, CreditsShrink
    <3>2. x \in generations' /\ OldGen(y) = x /\ MayHold(y, x)
      <4>1. CreditOK(x) /\ replacements[x] # None
        BY <2>2, <3>1, ReplaceParts
      <4>2. x \in generations /\ OldGen(y) = x /\ MayHold(y, x)
        BY <3>1, <4>1 DEF CreditOK
      <4> QED
        BY <2>2, <4>2 DEF MapsShrink, CreditsShrink
    <3>3. OldGen(y)' = x
      BY <3>2 DEF OldGen, MapsShrink
    <3>4. y \in handoffs /\ handoffGen[y] = x => y \in handoffs'
      BY <2>2, <3>1 DEF MapsShrink, CreditsShrink
    <3>5. MayHold(y, x)'
      <4>1. CASE y = r
        BY <3>1, <4>1
      <4>2. CASE y # r
        BY <3>2, <3>4, <4>2 DEF MayHold, MapsShrink
      <4> QED
        BY <4>1, <4>2
    <3> QED
      BY <3>1, <3>2, <3>3, <3>5 DEF CreditOK
  <2> QED
    BY <2>1, <2>2
<1>5. SourceOK(x)'
  BY ReplaceParts DEF MapsShrink, SourceOK, InFlight
<1>6. LinkOK(x)'
  <2>1. CASE preparingReplacements'[x] = None
    BY <2>1 DEF LinkOK
  <2>2. CASE preparingReplacements'[x] # None
    <3>1. PICK y \in Requests : y = preparingReplacements'[x] /\ y = preparingReplacements[x]
      BY <2>2, ReplaceParts DEF MapsShrink, LinksShrink
    <3>2. /\ x \in Pair(y) /\ req[y].old # None /\ preparingReplacements'[y] = y /\ MayLink(y)
          /\ pc[y] = "done" => x = y
      <4>1. LinkOK(x) /\ preparingReplacements[x] # None
        BY <2>2, <3>1, ReplaceParts
      <4>2. x \in Pair(y) /\ req[y].old # None /\ MayLink(y) /\ (pc[y] = "done" => x = y)
        BY <3>1, <4>1 DEF LinkOK
      <4>3. preparingReplacements'[y] = y
        BY <2>2, <3>1 DEF MapsShrink, LinksShrink
      <4> QED
        BY <4>2, <4>3
    <3>3. x \in Pair(y)' /\ req'[y].old # None
      BY <3>2 DEF Pair, MapsShrink
    <3>4. MayLink(y)' /\ (pc'[y] = "done" => x = y)
      <4>1. CASE y = r
        BY <3>1, <4>1
      <4>2. CASE y # r
        BY <3>2, <4>2 DEF MayLink, MapsShrink
      <4> QED
        BY <4>1, <4>2
    <3> QED
      BY <3>1, <3>2, <3>3, <3>4 DEF LinkOK
  <2> QED
    BY <2>1, <2>2
<1>7. StoppedOK(x)'
  BY ReplaceParts DEF MapsShrink, CreditsShrink, StoppedOK
<1> QED
  BY <1>2, <1>3, <1>4, <1>5, <1>6, <1>7

\* Giving back the credit of an operation gives back all it has.
LEMMA ReleaseFacts ==
  ASSUME TypeOK, ReplaceInv, NEW r \in Requests
  PROVE  \A g \in Requests : /\ CreditReleased(OldGen(r), r)[g] \in {None, replacements[g]}
                             /\ CreditReleased(OldGen(r), r)[g] # r
BY ReplaceParts DEF CreditReleased, CreditOK

\* Clearing a record clears every trace of an operation that is still running.
LEMMA ClearFacts ==
  ASSUME TypeOK, ReplaceInv, NEW id \in Requests
  PROVE  /\ \A s \in Requests : ClearedReplacement(id)[s] \in {None, preparingReplacements[s]}
         /\ \A s \in Requests : ClearedReplacement(id)[s] # None =>
              ClearedReplacement(id)[ClearedReplacement(id)[s]] = ClearedReplacement(id)[s]
         /\ pc[id] # "done" => \A s \in Requests : ClearedReplacement(id)[s] # id
<1> DEFINE record == preparingReplacements[id]
<1>1. CASE record = None
  <2>1. \A s \in Requests : ClearedReplacement(id)[s] = preparingReplacements[s]
    BY <1>1 DEF ClearedReplacement
  <2>2. \A s \in Requests : preparingReplacements[s] # id
    BY <1>1, ReplaceParts DEF LinkOK
  <2> QED
    BY <2>1, <2>2, ReplaceParts DEF LinkOK
<1>2. CASE record # None
  <2>1. record \in Requests /\ LinkOK(id)
    BY <1>2, ReplaceParts
  <2>2. \A s \in Requests : ClearedReplacement(id)[s] =
          IF s \in {req[record].old, record} THEN None ELSE preparingReplacements[s]
    BY <1>2 DEF ClearedReplacement
  <2>3. ASSUME NEW s \in Requests, ClearedReplacement(id)[s] # None
        PROVE  ClearedReplacement(id)[ClearedReplacement(id)[s]] = ClearedReplacement(id)[s]
    <3>1. PICK y \in Requests : /\ y = preparingReplacements[s] /\ y = ClearedReplacement(id)[s]
                                /\ s \notin {req[record].old, record}
      BY <2>2, <2>3, ReplaceParts
    <3>2. /\ s \in {req[y].old, y} /\ preparingReplacements[y] = y
          /\ pc[y] = "done" => s = y
      BY <3>1, ReplaceParts DEF LinkOK, Pair
    <3>3. y # record
      BY <3>1, <3>2
    <3>4. y # req[record].old
      BY <2>1, <3>1, <3>2, ReplaceParts DEF OldOK
    <3> QED
      BY <2>2, <3>1, <3>2, <3>3, <3>4
  <2>4. ASSUME pc[id] # "done" PROVE \A s \in Requests : ClearedReplacement(id)[s] # id
    <3>1. record = id
      BY <1>2, <2>1, <2>4, ReplaceParts DEF LinkOK, Pair, OldOK
    <3> QED
      BY <2>2, <3>1, ReplaceParts DEF LinkOK, Pair
  <2> QED
    BY <2>2, <2>3, <2>4
<1> QED
  BY <1>1, <1>2

\* What the running operation r may still have of credits and records.
Holding(r) ==
  \/ pc[r] \in ReservedPcs
  \/ /\ req[r].op = "handoff"
     /\ pc[r] \in PreparedPcs
          \/ (r \in ok /\ pc[r] \in {"finishing", "created", "dropping", "cleanupFailed"})
Linking(r) ==
  /\ req[r].op \in {"seek", "replace", "handoff"}
  /\ \/ pc[r] \in PreparedPcs
     \/ r \in ok /\ pc[r] \in {"finishing", "created", "cleanupFailed"}
     \/ pc[r] = "dropping" /\ req[r].op \in {"replace", "handoff"}

\* A running operation has a credit or a record only where it will give it back.
LEMMA Tenure ==
  ASSUME TypeOK, ReplaceInv, NEW r \in Requests, pc[r] \notin {"done", "cleanupAccepted"}
  PROVE  /\ \A g \in Requests : replacements[g] = r => Holding(r)
         /\ \A s \in Requests : preparingReplacements[s] = r => Linking(r)
<1>1. ASSUME NEW g \in Requests, replacements[g] = r PROVE Holding(r)
  <2>1. CreditOK(g) /\ HandoffOK(r) /\ r # None
    BY ReplaceParts
  <2>2. MayHold(r, g)
    BY <1>1, <2>1 DEF CreditOK
  <2> QED
    BY <2>1, <2>2 DEF MayHold, HandoffOK, Holding
<1>2. ASSUME NEW s \in Requests, preparingReplacements[s] = r PROVE Linking(r)
  <2>1. LinkOK(s) /\ OldOK(r) /\ r # None
    BY ReplaceParts
  <2>2. MayLink(r) /\ req[r].op \in {"seek", "replace", "handoff"}
    BY <1>2, <2>1 DEF LinkOK, OldOK
  <2> QED
    BY <2>2 DEF MayLink, Linking
<1> QED
  BY <1>1, <1>2

\* An operation moves on and gives back what it may not keep.
LEMMA AdvanceKeeps ==
  ASSUME TypeOK, ReplaceInv, MapsShrink, UNCHANGED ownerStopped, NEW r \in Requests,
         \A x \in Requests : x # r => pc'[x] = pc[x] /\ (x \in ok' <=> x \in ok),
         pc[r] \notin {"done", "cleanupAccepted"}, pc'[r] # "idle",
         pc[r] \in AdmittedPcs => pc'[r] \in AdmittedPcs,
         pc'[r] = "done" => req[r].op \notin {"replace", "handoff"},
         RoleOK(r)',
         OkOK(r) => OkOK(r)',
         (Holding(r) => Holding(r)') \/ \A g \in Requests : replacements'[g] # r,
         (Linking(r) => Linking(r)') \/ \A s \in Requests : preparingReplacements'[s] # r
  PROVE  ReplaceInv'
<1>1. OkOK(r)'
  BY ReplaceParts
<1>2. ASSUME NEW g \in Requests, replacements'[g] = r PROVE MayHold(r, g)'
  <2>1. replacements[g] = r
    BY <1>2, ReplaceParts DEF MapsShrink, CreditsShrink
  <2>2. Holding(r)'
    BY <1>2, <2>1, Tenure
  <2> QED
    BY <2>2 DEF Holding, MayHold
<1>3. ASSUME NEW s \in Requests, preparingReplacements'[s] = r
      PROVE  MayLink(r)' /\ pc'[r] # "done"
  <2>1. preparingReplacements[s] = r
    BY <1>3, ReplaceParts DEF MapsShrink, LinksShrink
  <2>2. Linking(r)'
    BY <1>3, <2>1, Tenure
  <2> QED
    BY <2>2 DEF Linking, MayLink, PreparedPcs
<1> QED
  BY <1>1, <1>2, <1>3, MoverKeeps

-----------------------------------------------------------------------------
(* What the helpers do to credits, records and handoffs.                   *)

\* Records and credits that are left alone.
LEMMA MapsStill ==
  ASSUME TypeOK, ReplaceInv
  PROVE  /\ UNCHANGED <<replacements, generations, handoffs>> => CreditsShrink
         /\ UNCHANGED <<handoffs, sessionHandoffs>> => HandoffsShrink
         /\ UNCHANGED preparingReplacements => LinksShrink
<1>1. UNCHANGED preparingReplacements => LinksShrink
  BY ReplaceParts DEF LinksShrink, LinkOK
<1> QED
  BY <1>1 DEF CreditsShrink, HandoffsShrink

\* stopSessionLocked takes credits away only.
LEMMA StopMaps ==
  ASSUME TypeOK, ReplaceInv, NEW S, NEW credits, StopSessions(S, credits),
         \A g \in Requests : credits[g] \in {None, replacements[g]},
         \A h \in handoffs \ handoffs', g \in Requests :
           replacements[g] = h /\ handoffGen[h] = g => credits[g] = None
  PROVE  CreditsShrink /\ sessions' \subseteq sessions
<1>1. \A g \in Requests : replacements'[g] = IF g \in Emptied(S) THEN None ELSE credits[g]
  BY DEF StopSessions
<1>2. generations' = generations \ Emptied(S) /\ sessions' \subseteq sessions
  BY DEF StopSessions
<1> QED
  BY <1>1, <1>2 DEF CreditsShrink, TypeOK

\* Ending handoffs of the map takes exactly their entries away.
LEMMA DropMaps ==
  ASSUME TypeOK, ReplaceInv, NEW H \in SUBSET handoffs, DropHandoffs(H)
  PROVE  /\ HandoffsShrink /\ handoffs \ handoffs' = H
         /\ \A g \in Requests : CreditsWithout(H)[g] \in {None, replacements[g]}
         /\ \A h \in H, g \in Requests :
              replacements[g] = h /\ handoffGen[h] = g => CreditsWithout(H)[g] = None
<1>1. handoffs \ handoffs' = H
  BY DEF DropHandoffs
<1> QED
  BY <1>1 DEF DropHandoffs, HandoffsShrink, CreditsWithout

\* StopForViewer ends the session, or the pair of its handoff.
LEMMA ViewerStopMaps ==
  ASSUME TypeOK, ReplaceInv, NEW id, StopForViewer(id)
  PROVE  CreditsShrink /\ HandoffsShrink /\ sessions' \subseteq sessions
<1>1. PICK target :
        LET H == {h \in handoffs : target \in sessions /\ sessionHandoffs[target] = h}
            S == ({target} \cap sessions) \cup UNION {Pair(h) : h \in H}
        IN DropHandoffs(H) /\ StopSessions(S, CreditsWithout(H))
  BY DEF StopForViewer
<1>2. PICK H, S : H \in SUBSET handoffs /\ DropHandoffs(H) /\ StopSessions(S, CreditsWithout(H))
  BY <1>1
<1>3. HandoffsShrink /\ handoffs \ handoffs' = H
  BY <1>2, DropMaps
<1>4. /\ \A g \in Requests : CreditsWithout(H)[g] \in {None, replacements[g]}
      /\ \A h \in handoffs \ handoffs', g \in Requests :
           replacements[g] = h /\ handoffGen[h] = g => CreditsWithout(H)[g] = None
  BY <1>2, <1>3, DropMaps
<1> QED
  BY <1>2, <1>3, <1>4, StopMaps

\* resolveHandoffLocked ends one session of each pair.
LEMMA ResolveMaps ==
  ASSUME TypeOK, ReplaceInv, NEW H \in SUBSET handoffs, NEW b, Resolve(H, b)
  PROVE  CreditsShrink /\ HandoffsShrink /\ sessions' \subseteq sessions
<1>1. PICK S : DropHandoffs(H) /\ StopSessions(S, CreditsWithout(H))
  BY DEF Resolve
<1>3. HandoffsShrink /\ handoffs \ handoffs' = H
  BY <1>1, DropMaps
<1>4. /\ \A g \in Requests : CreditsWithout(H)[g] \in {None, replacements[g]}
      /\ \A h \in handoffs \ handoffs', g \in Requests :
           replacements[g] = h /\ handoffGen[h] = g => CreditsWithout(H)[g] = None
  BY <1>1, <1>3, DropMaps
<1> QED
  BY <1>1, <1>3, <1>4, StopMaps

\* releaseReservation and the clean-ups give back the credit of one operation.
LEMMA ReleaseMaps ==
  ASSUME TypeOK, ReplaceInv, NEW r \in Requests, replacements' = CreditReleased(OldGen(r), r),
         UNCHANGED <<generations, handoffs>>
  PROVE  CreditsShrink /\ \A g \in Requests : replacements'[g] # r
BY ReleaseFacts DEF CreditsShrink

\* clearPreparingReplacementLocked.
LEMMA ClearMaps ==
  ASSUME TypeOK, ReplaceInv, NEW id \in Requests, preparingReplacements' = ClearedReplacement(id)
  PROVE  /\ LinksShrink
         /\ pc[id] # "done" => \A s \in Requests : preparingReplacements'[s] # id
BY ClearFacts DEF LinksShrink

-----------------------------------------------------------------------------
(* The steps that begin something.                                         *)

\* Nobody's predecessor is still running.
LEMMA OldsDone ==
  ASSUME TypeOK, ReplaceInv, NEW r \in Requests, pc[r] # "done"
  PROVE  /\ \A y \in Requests : req[y].old # r
         /\ pc[r] # "cleanupAccepted" => r \notin handoffs /\ sessionHandoffs[r] = None
<1>1. \A y \in Requests : req[y].old # r
  BY ReplaceParts DEF OldOK
<1>2. pc[r] # "cleanupAccepted" => r \notin handoffs
  BY ReplaceParts DEF HandoffOK
<1>3. ASSUME pc[r] # "cleanupAccepted" PROVE sessionHandoffs[r] = None
  <2> SUFFICES ASSUME sessionHandoffs[r] # None PROVE FALSE
    OBVIOUS
  <2>1. PICK h \in Requests : h \in handoffs /\ r \in Pair(h)
    BY ReplaceParts DEF HandoffsPaired
  <2> QED
    BY <1>1, <1>2, <1>3, <2>1 DEF Pair
<1> QED
  BY <1>1, <1>2, <1>3

\* An operation is issued: it has nothing yet but the reservation of its source.
LEMMA BeginKeeps ==
  ASSUME TypeOK, ReplaceInv, NEW r \in Requests, pc[r] = "idle", Goto(r, "issued"),
         \A x \in Requests : x # r => req'[x] = req[x],
         OldOK(r)',
         \A s \in preparingHandoffs' \ preparingHandoffs :
           s = req'[r].old /\ req'[r].op \in {"replace", "handoff"},
         UNCHANGED <<ok, genOf, sessions, generations, replacements, preparingReplacements,
                     ownerStopped, handoffs, handoffGen, sessionHandoffs>>
  PROVE  ReplaceInv'
<1>1. pc'[r] = "issued" /\ \A x \in Requests : x # r => pc'[x] = pc[x]
  BY GotoFacts
<1>2. /\ \A g \in Requests : replacements[g] # r
      /\ \A s \in Requests : preparingReplacements[s] # r
      /\ \A y \in Requests : req[y].old # r
      /\ r \notin handoffs /\ sessionHandoffs[r] = None
  BY Tenure, OldsDone DEF Holding, Linking, ReservedPcs, PreparedPcs
<1>3. \A x \in Requests : OldOK(x)'
  <2>1. ASSUME NEW x \in Requests, x # r PROVE OldOK(x)'
    BY <1>1, <1>2, <2>1, ReplaceParts DEF OldOK, RoleOK
  <2> QED
    BY <2>1
<1>4. \A x \in Requests : OkOK(x)' /\ HandoffOK(x)'
  BY <1>1, <1>2, ReplaceParts DEF OkOK, LatePcs, HandoffOK
<1>5. ASSUME NEW x \in Requests PROVE CreditOK(x)'
  <2>1. CASE replacements[x] = None
    BY <2>1 DEF CreditOK
  <2>2. CASE replacements[x] # None
    <3>1. PICK y \in Requests : y = replacements[x] /\ y # r
      BY <1>2, <2>2, ReplaceParts
    <3>2. x \in generations /\ OldGen(y) = x /\ MayHold(y, x)
      BY <2>2, <3>1, ReplaceParts DEF CreditOK
    <3>3. OldGen(y)' = x /\ MayHold(y, x)'
      BY <1>1, <3>1, <3>2 DEF OldGen, MayHold
    <3> QED
      BY <3>1, <3>2, <3>3 DEF CreditOK
  <2> QED
    BY <2>1, <2>2
<1>6. ASSUME NEW x \in Requests PROVE SourceOK(x)'
  <2>1. CASE x \in preparingHandoffs
    <3>1. PICK y \in Requests : InFlight(y) /\ req[y].old = x
             /\ req[y].op \in {"replace", "handoff"}
      BY <2>1, ReplaceParts DEF SourceOK
    <3>2. y # r
      BY <3>1 DEF InFlight
    <3> QED
      BY <1>1, <3>1, <3>2 DEF SourceOK, InFlight
  <2>2. CASE x \notin preparingHandoffs
    BY <1>1, <2>2 DEF SourceOK, InFlight
  <2> QED
    BY <2>1, <2>2
<1>7. ASSUME NEW x \in Requests PROVE LinkOK(x)'
  <2>1. CASE preparingReplacements[x] = None
    BY <2>1 DEF LinkOK
  <2>2. CASE preparingReplacements[x] # None
    <3>1. PICK y \in Requests : y = preparingReplacements[x] /\ y # r
      BY <1>2, <2>2, ReplaceParts
    <3>2. /\ x \in Pair(y) /\ req[y].old # None /\ preparingReplacements[y] = y /\ MayLink(y)
          /\ pc[y] = "done" => x = y
      BY <2>2, <3>1, ReplaceParts DEF LinkOK
    <3>3. x \in Pair(y)' /\ req'[y].old # None /\ MayLink(y)' /\ pc'[y] = pc[y]
      BY <1>1, <3>1, <3>2 DEF Pair, MayLink
    <3> QED
      BY <3>1, <3>2, <3>3 DEF LinkOK
  <2> QED
    BY <2>1, <2>2
<1>8. ASSUME NEW x \in Requests PROVE StoppedOK(x)'
  <2>1. CASE x = r
    <3>1. ownerStopped[r] = None
      BY ReplaceParts DEF StoppedOK, AdmittedPcs
    <3> QED
      BY <2>1, <3>1 DEF StoppedOK
  <2>2. CASE x # r
    BY <1>1, <2>2, ReplaceParts DEF StoppedOK
  <2> QED
    BY <2>1, <2>2
<1>9. HandoffsPaired'
  <2>1. \A h \in handoffs : h \in Requests /\ h # r /\ Pair(h)' = Pair(h)
    BY <1>2, ReplaceParts DEF Pair
  <2>2. \A s \in Requests : sessionHandoffs[s] # None => sessionHandoffs[s] \in handoffs
    BY ReplaceParts DEF HandoffsPaired
  <2> QED
    BY <2>1, <2>2, ReplaceParts DEF HandoffsPaired
<1> QED
  BY <1>3, <1>4, <1>5, <1>6, <1>7, <1>8, <1>9 DEF ReplaceInv

\* A reservation may take the credit of the generation it replaces.
LEMMA ReserveCredit ==
  ASSUME TypeOK, ReplaceInv, NEW r \in Requests, Reserve(r)
  PROVE  ReplaceInv'
<1> USE DEF lifeVars, genVars, prepVars, handoffVars
<1>1. /\ pc[r] = "entered" /\ pc'[r] = "reserved" /\ \A x \in Requests : x # r => pc'[x] = pc[x]
      /\ UNCHANGED <<req, ok, genOf, sessions, generations, preparingReplacements, ownerStopped,
                     preparingHandoffs, handoffs, handoffGen, sessionHandoffs>>
  BY GotoFacts DEF Reserve
<1>2. \A g \in Requests : \/ replacements'[g] = replacements[g]
                          \/ /\ replacements'[g] = r /\ g = OldGen(r) /\ g \in generations
  BY DEF Reserve, GetsCredit
<1>3. /\ \A g \in Requests : replacements[g] # r
      /\ \A s \in Requests : preparingReplacements[s] # r
      /\ \A y \in Requests : req[y].old # r
      /\ r \notin handoffs
  BY <1>1, Tenure, OldsDone DEF Holding, Linking, ReservedPcs, PreparedPcs
<1>4. \A x \in Requests : OldOK(x)' /\ OkOK(x)' /\ HandoffOK(x)'
  BY <1>1, <1>3, ReplaceParts DEF OldOK, RoleOK, OkOK, LatePcs, HandoffOK
<1>5. ASSUME NEW x \in Requests PROVE CreditOK(x)'
  <2>1. CASE replacements'[x] = replacements[x]
    <3>1. CASE replacements[x] = None
      BY <2>1, <3>1 DEF CreditOK
    <3>2. CASE replacements[x] # None
      <4>1. PICK y \in Requests : y = replacements[x] /\ y # r
        BY <1>3, <3>2, ReplaceParts
      <4>2. x \in generations /\ OldGen(y) = x /\ MayHold(y, x)
        BY <3>2, <4>1, ReplaceParts DEF CreditOK
      <4>3. OldGen(y)' = x /\ MayHold(y, x)'
        BY <1>1, <4>1, <4>2 DEF OldGen, MayHold
      <4> QED
        BY <1>1, <2>1, <4>1, <4>2, <4>3 DEF CreditOK
    <3> QED
      BY <3>1, <3>2
  <2>2. CASE replacements'[x] = r /\ x = OldGen(r) /\ x \in generations
    <3>1. OldGen(r)' = x /\ MayHold(r, x)'
      BY <1>1, <2>2 DEF OldGen, MayHold, ReservedPcs
    <3> QED
      BY <1>1, <2>2, <3>1 DEF CreditOK
  <2> QED
    BY <1>2, <2>1, <2>2
<1>6. \A x \in Requests : SourceOK(x)'
  BY <1>1, ReplaceParts DEF SourceOK, InFlight
<1>7. ASSUME NEW x \in Requests PROVE LinkOK(x)'
  <2>1. CASE preparingReplacements[x] = None
    BY <1>1, <2>1 DEF LinkOK
  <2>2. CASE preparingReplacements[x] # None
    <3>1. PICK y \in Requests : y = preparingReplacements[x] /\ y # r
      BY <1>3, <2>2, ReplaceParts
    <3>2. /\ x \in Pair(y) /\ req[y].old # None /\ preparingReplacements[y] = y /\ MayLink(y)
          /\ pc[y] = "done" => x = y
      BY <2>2, <3>1, ReplaceParts DEF LinkOK
    <3>3. x \in Pair(y)' /\ req'[y].old # None /\ MayLink(y)' /\ pc'[y] = pc[y]
      BY <1>1, <3>1, <3>2 DEF Pair, MayLink
    <3> QED
      BY <1>1, <3>1, <3>2, <3>3 DEF LinkOK
  <2> QED
    BY <2>1, <2>2
<1>8. ASSUME NEW x \in Requests PROVE StoppedOK(x)'
  <2>1. CASE x = r
    <3>1. ownerStopped[r] = None
      BY <1>1, ReplaceParts DEF StoppedOK, AdmittedPcs
    <3> QED
      BY <1>1, <2>1, <3>1 DEF StoppedOK
  <2>2. CASE x # r
    <3>1. \A g \in Requests : replacements'[g] = x => replacements[g] = x
      BY <1>2, <2>2
    <3> QED
      BY <1>1, <2>2, <3>1, ReplaceParts DEF StoppedOK
  <2> QED
    BY <2>1, <2>2
<1>9. HandoffsPaired'
  BY <1>1, ReplaceParts DEF HandoffsPaired, Pair
<1> QED
  BY <1>4, <1>5, <1>6, <1>7, <1>8, <1>9 DEF ReplaceInv

\* An admission links the operation's record under both ids.  The record it may find
\* under the predecessor's id is another operation's, which keeps its own.
LEMMA AdmissionKeeps ==
  ASSUME TypeOK, ReplaceInv, NEW r \in Requests, pc[r] \in {"entered", "started"},
         \A x \in Requests : x # r => pc'[x] = pc[x] /\ (x \in ok' <=> x \in ok),
         \/ pc'[r] \in {"waiting", "manifest"} /\ r \notin ok'
         \/ pc'[r] = "finishing" /\ r \in ok' /\ pc[r] = "entered",
         preparingReplacements' = LinkedReplacement(req[r].old, r),
         \A g \in Requests : replacements'[g] \in {None, replacements[g]},
         req[r].op # "handoff" => \A g \in Requests : replacements'[g] # r,
         \A x \in Requests : x # r => genOf'[x] = genOf[x],
         sessions' = sessions \cup {r}, generations \subseteq generations',
         UNCHANGED <<req, ownerStopped, preparingHandoffs, handoffs, handoffGen, sessionHandoffs>>
  PROVE  ReplaceInv'
<1>1. /\ \A s \in Requests : preparingReplacements[s] # r
      /\ \A y \in Requests : req[y].old # r
      /\ r \notin handoffs
      /\ pc[r] = "entered" => \A g \in Requests : replacements[g] # r
  BY Tenure, OldsDone DEF Holding, Linking, ReservedPcs, PreparedPcs
<1>2. \A x \in Requests : OldOK(x)' /\ OkOK(x)' /\ HandoffOK(x)'
  BY <1>1, ReplaceParts DEF OldOK, RoleOK, OkOK, LatePcs, HandoffOK
<1>3. ASSUME NEW x \in Requests PROVE CreditOK(x)'
  <2>1. CASE replacements'[x] = None
    BY <2>1 DEF CreditOK
  <2>2. CASE replacements'[x] # None
    <3>1. PICK y \in Requests : y = replacements'[x] /\ y = replacements[x]
      BY <2>2, ReplaceParts
    <3>2. x \in generations /\ OldGen(y) = x /\ MayHold(y, x)
      <4>1. CreditOK(x) /\ replacements[x] # None
        BY <2>2, <3>1, ReplaceParts
      <4> QED
        BY <3>1, <4>1 DEF CreditOK
    <3>3. OldGen(y)' = x
      <4>1. req'[y].old = req[y].old /\ (req[y].old # None => req[y].old \in Requests \ {r})
        BY <1>1, ReplaceParts
      <4> QED
        BY <3>2, <4>1 DEF OldGen
    <3>4. MayHold(y, x)'
      <4>1. CASE y = r
        <5>1. pc[r] = "started" /\ req[r].op = "handoff"
          BY <1>1, <3>1, <4>1
        <5> QED
          BY <4>1, <5>1 DEF MayHold, PreparedPcs
      <4>2. CASE y # r
        BY <3>2, <4>2 DEF MayHold
      <4> QED
        BY <4>1, <4>2
    <3> QED
      BY <3>1, <3>2, <3>3, <3>4 DEF CreditOK
  <2> QED
    BY <2>1, <2>2
<1>4. \A x \in Requests : SourceOK(x)'
  BY ReplaceParts DEF SourceOK, InFlight
<1>5. ASSUME NEW x \in Requests PROVE LinkOK(x)'
  <2>1. CASE req[r].old = None
    <3>1. preparingReplacements' = preparingReplacements
      BY <2>1 DEF LinkedReplacement
    <3>2. CASE preparingReplacements[x] = None
      BY <3>1, <3>2 DEF LinkOK
    <3>3. CASE preparingReplacements[x] # None
      <4>1. PICK y \in Requests : y = preparingReplacements[x] /\ y # r
        BY <1>1, <3>3, ReplaceParts
      <4>2. /\ x \in Pair(y) /\ req[y].old # None /\ preparingReplacements[y] = y /\ MayLink(y)
            /\ pc[y] = "done" => x = y
        BY <3>3, <4>1, ReplaceParts DEF LinkOK
      <4>3. x \in Pair(y)' /\ req'[y].old # None /\ MayLink(y)' /\ pc'[y] = pc[y]
        BY <4>1, <4>2 DEF Pair, MayLink
      <4> QED
        BY <3>1, <4>1, <4>2, <4>3 DEF LinkOK
    <3> QED
      BY <3>2, <3>3
  <2>2. CASE req[r].old # None
    <3>1. /\ req[r].old \in Requests /\ req[r].old # r
          /\ \A s \in Requests : preparingReplacements'[s] =
               IF s \in {req[r].old, r} THEN r ELSE preparingReplacements[s]
      BY <2>2, ReplaceParts DEF LinkedReplacement, TypeOK, OldOK
    <3>2. CASE x \in {req[r].old, r}
      <4>1. preparingReplacements'[x] = r /\ preparingReplacements'[r] = r
        BY <3>1, <3>2
      <4>2. x \in Pair(r)' /\ req'[r].old # None /\ MayLink(r)' /\ pc'[r] # "done"
        BY <2>2, <3>2 DEF Pair, MayLink, PreparedPcs
      <4> QED
        BY <4>1, <4>2 DEF LinkOK
    <3>3. CASE x \notin {req[r].old, r} /\ preparingReplacements[x] # None
      <4>1. PICK y \in Requests : y = preparingReplacements[x] /\ y # r
        BY <1>1, <3>3, ReplaceParts
      <4>2. /\ x \in Pair(y) /\ req[y].old # None /\ preparingReplacements[y] = y /\ MayLink(y)
            /\ pc[y] = "done" => x = y
        BY <3>3, <4>1, ReplaceParts DEF LinkOK
      <4>3. x \in Pair(y)' /\ req'[y].old # None /\ MayLink(y)' /\ pc'[y] = pc[y]
        BY <4>1, <4>2 DEF Pair, MayLink
      <4>4. y # req[r].old
        <5>1. pc[req[r].old] = "done"
          BY <2>2, ReplaceParts DEF OldOK
        <5> QED
          BY <3>3, <4>2, <5>1
      <4>5. preparingReplacements'[x] = y /\ preparingReplacements'[y] = y
        BY <3>1, <3>3, <4>1, <4>2, <4>4
      <4> QED
        BY <4>1, <4>2, <4>3, <4>5 DEF LinkOK
    <3>4. CASE x \notin {req[r].old, r} /\ preparingReplacements[x] = None
      BY <3>1, <3>4 DEF LinkOK
    <3> QED
      BY <3>2, <3>3, <3>4
  <2> QED
    BY <2>1, <2>2
<1>6. ASSUME NEW x \in Requests PROVE StoppedOK(x)'
  <2>1. \A g \in Requests : replacements'[g] = x => replacements[g] = x
    BY ReplaceParts
  <2>2. CASE x = r
    <3>1. ownerStopped[r] = None
      BY ReplaceParts DEF StoppedOK, AdmittedPcs
    <3> QED
      BY <2>2, <3>1 DEF StoppedOK
  <2>3. CASE x # r
    BY <2>1, <2>3, ReplaceParts DEF StoppedOK
  <2> QED
    BY <2>2, <2>3
<1>7. HandoffsPaired'
  BY ReplaceParts DEF HandoffsPaired, Pair
<1> QED
  BY <1>2, <1>3, <1>4, <1>5, <1>6, <1>7 DEF ReplaceInv

\* A handoff becomes active: it keeps its credit and takes both sessions.
LEMMA ActivationKeeps ==
  ASSUME TypeOK, ReplaceInv, NEW r \in Requests, HandoffActivated(r)
  PROVE  ReplaceInv'
<1> USE DEF lifeVars, genVars
<1>1. /\ pc[r] = "created" /\ pc'[r] = "cleanupAccepted" /\ req[r].op = "handoff"
      /\ \A x \in Requests : x # r => pc'[x] = pc[x]
      /\ UNCHANGED <<req, ok, genOf, sessions, generations, replacements, ownerStopped,
                     preparingHandoffs>>
  BY GotoFacts DEF HandoffActivated
<1>2. /\ req[r].old \in Requests /\ req[r].old # r /\ sessionHandoffs[req[r].old] = None
      /\ handoffs' = handoffs \cup {r}
      /\ \A s \in Requests : sessionHandoffs'[s] =
           IF s \in {req[r].old, r} THEN r ELSE sessionHandoffs[s]
      /\ \A h \in Requests : h # r => handoffGen'[h] = handoffGen[h]
      /\ handoffGen'[r] = IF genOf[req[r].old] # None /\ replacements[genOf[req[r].old]] = r
                          THEN genOf[req[r].old] ELSE None
  <2>1. req[r].old \in Requests /\ req[r].old # r
    BY <1>1, ReplaceParts DEF OldOK
  <2> QED
    BY <2>1 DEF HandoffActivated, TypeOK
<1>3. \A y \in Requests : req[y].old # r /\ r \notin handoffs /\ sessionHandoffs[r] = None
  BY <1>1, OldsDone
<1>4. LinksShrink /\ \A s \in Requests : preparingReplacements'[s] # r
  BY <1>1, ClearMaps DEF HandoffActivated
<1>5. \A x \in Requests : OldOK(x)' /\ OkOK(x)' /\ HandoffOK(x)'
  BY <1>1, <1>2, <1>3, ReplaceParts DEF OldOK, RoleOK, OkOK, LatePcs, HandoffOK
<1>6. ASSUME NEW x \in Requests PROVE CreditOK(x)'
  <2>1. CASE replacements[x] = None
    BY <1>1, <2>1 DEF CreditOK
  <2>2. CASE replacements[x] # None
    <3>1. PICK y \in Requests : y = replacements[x]
      BY <2>2, ReplaceParts
    <3>2. x \in generations /\ OldGen(y) = x /\ MayHold(y, x)
      BY <2>2, <3>1, ReplaceParts DEF CreditOK
    <3>3. OldGen(y)' = x
      BY <1>1, <3>2 DEF OldGen
    <3>4. MayHold(y, x)'
      <4>1. CASE y = r
        <5>1. genOf[req[r].old] = x /\ x # None
          BY <1>2, <3>2, <4>1, ReplaceParts DEF OldGen
        <5> QED
          BY <1>2, <3>1, <4>1, <5>1 DEF MayHold
      <4>2. CASE y # r
        BY <1>1, <1>2, <3>2, <4>2 DEF MayHold
      <4> QED
        BY <4>1, <4>2
    <3> QED
      BY <1>1, <3>1, <3>2, <3>3, <3>4 DEF CreditOK
  <2> QED
    BY <2>1, <2>2
<1>7. \A x \in Requests : SourceOK(x)'
  BY <1>1, ReplaceParts DEF SourceOK, InFlight
<1>8. ASSUME NEW x \in Requests PROVE LinkOK(x)'
  <2>1. CASE preparingReplacements'[x] = None
    BY <2>1 DEF LinkOK
  <2>2. CASE preparingReplacements'[x] # None
    <3>1. PICK y \in Requests : /\ y = preparingReplacements'[x] /\ y = preparingReplacements[x]
                                /\ y # r
      BY <1>4, <2>2, ReplaceParts DEF LinksShrink
    <3>2. /\ x \in Pair(y) /\ req[y].old # None /\ preparingReplacements'[y] = y /\ MayLink(y)
          /\ pc[y] = "done" => x = y
      <4>1. LinkOK(x) /\ preparingReplacements[x] # None
        BY <2>2, <3>1, ReplaceParts
      <4>2. x \in Pair(y) /\ req[y].old # None /\ MayLink(y) /\ (pc[y] = "done" => x = y)
        BY <3>1, <4>1 DEF LinkOK
      <4>3. preparingReplacements'[y] = y
        BY <1>4, <2>2, <3>1 DEF LinksShrink
      <4> QED
        BY <4>2, <4>3
    <3>3. x \in Pair(y)' /\ req'[y].old # None /\ MayLink(y)' /\ pc'[y] = pc[y]
      BY <1>1, <3>1, <3>2 DEF Pair, MayLink
    <3> QED
      BY <3>1, <3>2, <3>3 DEF LinkOK
  <2> QED
    BY <2>1, <2>2
<1>9. \A x \in Requests : StoppedOK(x)'
  BY <1>1, ReplaceParts DEF StoppedOK, AdmittedPcs, PCs, OperationPcs
<1>10. HandoffsPaired'
  <2> SUFFICES ASSUME NEW s \in Requests
               PROVE  /\ sessionHandoffs'[s] # None =>
                           sessionHandoffs'[s] \in handoffs' /\ s \in Pair(sessionHandoffs'[s])
                      /\ s \in handoffs' => \A x \in Pair(s) : sessionHandoffs'[x] = s
    BY <1>1 DEF HandoffsPaired, Pair
  <2>1. sessionHandoffs'[s] # None =>
          sessionHandoffs'[s] \in handoffs' /\ s \in Pair(sessionHandoffs'[s])
    <3>1. CASE s \in {req[r].old, r}
      BY <1>2, <3>1 DEF Pair
    <3>2. CASE s \notin {req[r].old, r}
      BY <1>2, <3>2, ReplaceParts DEF HandoffsPaired
    <3> QED
      BY <3>1, <3>2
  <2>2. ASSUME s \in handoffs', NEW x \in Pair(s) PROVE sessionHandoffs'[x] = s
    <3>1. CASE s = r
      BY <1>2, <2>2, <3>1 DEF Pair
    <3>2. CASE s # r
      <4>1. sessionHandoffs[x] = s /\ x \in Requests
        BY <1>2, <2>2, <3>2, ReplaceParts DEF HandoffsPaired, Pair, HandoffOK, OldOK
      <4> QED
        BY <1>2, <1>3, <4>1, ReplaceParts
    <3> QED
      BY <3>1, <3>2
  <2> QED
    BY <2>1, <2>2
<1> QED
  BY <1>5, <1>6, <1>7, <1>8, <1>9, <1>10 DEF ReplaceInv

\* The deferred clean-up releases the source, the record and the credit that are left.
LEMMA CleanupReplaces ==
  ASSUME TypeOK, ReplaceInv, NEW r \in Requests, Cleanup(r)
  PROVE  ReplaceInv'
<1> USE DEF lifeVars, genVars, handoffVars
<1>1. /\ pc[r] \in {"cleanupAccepted", "cleanupFailed"} /\ pc'[r] = "done"
      /\ \A x \in Requests : x # r => pc'[x] = pc[x] /\ (x \in ok' <=> x \in ok)
      /\ UNCHANGED <<req, genOf, sessions, generations, ownerStopped, handoffs, handoffGen,
                     sessionHandoffs>>
      /\ preparingHandoffs' = preparingHandoffs \ {req[r].old}
      /\ pc[r] = "cleanupFailed" => r \notin ok'
      /\ ok' \subseteq ok
  BY GotoFacts DEF Cleanup
<1>2. /\ req[r].op \in {"replace", "handoff"}
      /\ req[r].old \in Requests /\ req[r].old # r /\ \A y \in Requests : req[y].old # r
  BY <1>1, OldsDone, ReplaceParts DEF OldOK, RoleOK
<1>3. /\ \A g \in Requests : replacements'[g] \in {None, replacements[g]}
      /\ \A g \in Requests : replacements'[g] = r => r \in handoffs /\ handoffGen[r] = g
  <2>1. ASSUME NEW g \in Requests, replacements[g] = r
        PROVE  \/ r \in handoffs /\ handoffGen[r] = g
               \/ req[r].op = "handoff" /\ pc[r] = "cleanupFailed" /\ r \in ok
    <3>1. CreditOK(g) /\ r # None
      BY ReplaceParts
    <3>2. MayHold(r, g)
      BY <2>1, <3>1 DEF CreditOK
    <3> QED
      BY <1>1, <3>2 DEF MayHold, ReservedPcs, PreparedPcs
  <2>2. CASE req[r].op = "handoff" /\ pc[r] = "cleanupFailed" /\ r \in ok
    <3>1. replacements' = CreditReleased(OldGen(r), r)
      BY <2>2 DEF Cleanup
    <3> QED
      BY <3>1, ReleaseFacts
  <2>3. CASE ~(req[r].op = "handoff" /\ pc[r] = "cleanupFailed" /\ r \in ok)
    <3>1. replacements' = replacements
      BY <2>3 DEF Cleanup
    <3> QED
      BY <2>1, <2>3, <3>1
  <2> QED
    BY <2>2, <2>3
<1>4. /\ LinksShrink
      /\ \A s \in Requests : preparingReplacements'[s] = r => s = r /\ r \notin sessions
  <2>1. ASSUME NEW s \in Requests, preparingReplacements[s] = r
        PROVE  s \in Pair(r) /\ pc[r] = "cleanupFailed" /\ r \in ok
    <3>1. LinkOK(s) /\ r # None
      BY ReplaceParts
    <3>2. s \in Pair(r) /\ MayLink(r)
      BY <2>1, <3>1 DEF LinkOK
    <3> QED
      BY <1>1, <3>2 DEF MayLink, PreparedPcs
  <2>2. CASE req[r].op = "handoff" /\ r \notin ok
    <3>1. preparingReplacements' = preparingReplacements
      BY <2>2 DEF Cleanup
    <3> QED
      BY <2>1, <2>2, <3>1, MapsStill
  <2>3. CASE req[r].op = "handoff" /\ r \in ok
    <3>1. preparingReplacements' = ClearedReplacement(r)
      BY <2>3 DEF Cleanup
    <3> QED
      BY <1>1, <3>1, ClearMaps
  <2>4. CASE req[r].op = "replace"
    <3>1. preparingReplacements' = ClearedReplacement(req[r].old)
      BY <2>4 DEF Cleanup
    <3>2. LinksShrink
      BY <1>2, <3>1, ClearMaps
    <3>3. preparingReplacements'[req[r].old] = None
      <4>1. LinkOK(req[r].old)
        BY <1>2, ReplaceParts
      <4> QED
        BY <1>2, <3>1, <4>1 DEF ClearedReplacement, LinkOK, Pair
    <3>4. ASSUME NEW s \in Requests, preparingReplacements'[s] = r PROVE s = r /\ r \notin sessions
      <4>1. preparingReplacements[s] = r
        BY <3>2, <3>4, ReplaceParts DEF LinksShrink
      <4>2. s \in Pair(r) /\ pc[r] = "cleanupFailed" /\ r \in ok
        BY <2>1, <4>1
      <4>3. r \notin sessions
        BY <4>2, ReplaceParts DEF OkOK
      <4> QED
        BY <3>3, <3>4, <4>2, <4>3, ReplaceParts DEF Pair
    <3> QED
      BY <3>2, <3>4
  <2> QED
    BY <1>2, <2>2, <2>3, <2>4
<1>5. \A x \in Requests : OldOK(x)' /\ OkOK(x)' /\ HandoffOK(x)'
  BY <1>1, <1>2, ReplaceParts DEF OldOK, RoleOK, OkOK, LatePcs, HandoffOK
<1>6. ASSUME NEW x \in Requests PROVE CreditOK(x)'
  <2>1. CASE replacements'[x] = None
    BY <2>1 DEF CreditOK
  <2>2. CASE replacements'[x] # None
    <3>1. PICK y \in Requests : y = replacements'[x] /\ y = replacements[x]
      BY <1>3, <2>2, ReplaceParts
    <3>2. x \in generations /\ OldGen(y) = x /\ MayHold(y, x)
      <4>1. CreditOK(x) /\ replacements[x] # None
        BY <2>2, <3>1, ReplaceParts
      <4> QED
        BY <3>1, <4>1 DEF CreditOK
    <3>3. OldGen(y)' = x
      BY <1>1, <3>2 DEF OldGen
    <3>4. MayHold(y, x)'
      <4>1. CASE y = r
        BY <1>1, <1>3, <3>1, <4>1 DEF MayHold
      <4>2. CASE y # r
        BY <1>1, <3>2, <4>2 DEF MayHold
      <4> QED
        BY <4>1, <4>2
    <3> QED
      BY <1>1, <3>1, <3>2, <3>3, <3>4 DEF CreditOK
  <2> QED
    BY <2>1, <2>2
<1>7. ASSUME NEW x \in Requests PROVE SourceOK(x)'
  <2>1. CASE x \in preparingHandoffs'
    <3>1. x \in preparingHandoffs /\ x # req[r].old
      BY <1>1, <2>1
    <3>2. PICK y \in Requests : InFlight(y) /\ req[y].old = x
             /\ req[y].op \in {"replace", "handoff"}
      BY <3>1, ReplaceParts DEF SourceOK
    <3> QED
      BY <1>1, <3>1, <3>2 DEF SourceOK, InFlight
  <2>2. CASE x \notin preparingHandoffs'
    BY <2>2 DEF SourceOK
  <2> QED
    BY <2>1, <2>2
<1>8. ASSUME NEW x \in Requests PROVE LinkOK(x)'
  <2>1. CASE preparingReplacements'[x] = None
    BY <2>1 DEF LinkOK
  <2>2. CASE preparingReplacements'[x] # None
    <3>1. PICK y \in Requests : y = preparingReplacements'[x] /\ y = preparingReplacements[x]
      BY <1>4, <2>2, ReplaceParts DEF LinksShrink
    <3>2. /\ x \in Pair(y) /\ req[y].old # None /\ preparingReplacements'[y] = y /\ MayLink(y)
          /\ pc[y] = "done" => x = y
      <4>1. LinkOK(x) /\ preparingReplacements[x] # None
        BY <2>2, <3>1, ReplaceParts
      <4>2. x \in Pair(y) /\ req[y].old # None /\ MayLink(y) /\ (pc[y] = "done" => x = y)
        BY <3>1, <4>1 DEF LinkOK
      <4>3. preparingReplacements'[y] = y
        BY <1>4, <2>2, <3>1 DEF LinksShrink
      <4> QED
        BY <4>2, <4>3
    <3>3. x \in Pair(y)' /\ req'[y].old # None
      BY <1>1, <3>2 DEF Pair
    <3>4. MayLink(y)' /\ (pc'[y] = "done" => x = y)
      <4>1. CASE y = r
        BY <1>1, <1>4, <3>1, <4>1 DEF MayLink
      <4>2. CASE y # r
        BY <1>1, <3>2, <4>2 DEF MayLink
      <4> QED
        BY <4>1, <4>2
    <3> QED
      BY <3>1, <3>2, <3>3, <3>4 DEF LinkOK
  <2> QED
    BY <2>1, <2>2
<1>9. ASSUME NEW x \in Requests PROVE StoppedOK(x)'
  <2>1. \A g \in Requests : replacements'[g] = x => replacements[g] = x
    BY <1>3, ReplaceParts
  <2>2. pc'[x] \notin AdmittedPcs => pc[x] \notin AdmittedPcs
    BY <1>1 DEF AdmittedPcs, PCs
  <2> QED
    BY <1>1, <2>1, <2>2, ReplaceParts DEF StoppedOK
<1>10. HandoffsPaired'
  BY <1>1, ReplaceParts DEF HandoffsPaired, Pair
<1> QED
  BY <1>5, <1>6, <1>7, <1>8, <1>9, <1>10 DEF ReplaceInv

\* The owner stops a session: the operation that was replacing it loses its credit.
LEMMA OwnerStopReplaces ==
  ASSUME TypeOK, ReplaceInv, NEW s \in Requests, StopOwnerSession(s)
  PROVE  ReplaceInv'
<1> USE DEF clientVars, genVars
<1> DEFINE record == preparingReplacements[s]
           H == {h \in handoffs : sessionHandoffs[s] = h}
           lent == {g \in Requests : /\ record # None /\ req[record].old \in sessions
                                     /\ genOf[req[record].old] = g
                                     /\ replacements[g] = record}
           credits == [g \in Requests |-> IF g \in lent THEN None ELSE CreditsWithout(H)[g]]
<1>1. /\ s \in sessions
      /\ ownerStopped' = IF record = None THEN ownerStopped ELSE [ownerStopped EXCEPT ![record] = s]
      /\ preparingHandoffs' \subseteq preparingHandoffs
      /\ DropHandoffs(H) /\ StopSessions({s}, credits)
      /\ UNCHANGED <<pc, ok, req, genOf, preparingReplacements, handoffGen>>
  BY DEF StopOwnerSession
<1>2. H \in SUBSET handoffs
  OBVIOUS
<1>3. /\ HandoffsShrink /\ handoffs \ handoffs' = H
      /\ \A g \in Requests : CreditsWithout(H)[g] \in {None, replacements[g]}
      /\ \A h \in H, g \in Requests :
           replacements[g] = h /\ handoffGen[h] = g => CreditsWithout(H)[g] = None
  BY <1>1, <1>2, DropMaps
<1>4. /\ \A g \in Requests : credits[g] \in {None, replacements[g]}
      /\ \A h \in handoffs \ handoffs', g \in Requests :
           replacements[g] = h /\ handoffGen[h] = g => credits[g] = None
  BY <1>3
<1>5. CreditsShrink /\ sessions' \subseteq sessions
  <2> HIDE DEF credits
  <2> QED
    BY <1>1, <1>4, StopMaps
<1>6. LinksShrink
  BY <1>1, MapsStill
<1>7. MapsShrink
  BY <1>1, <1>3, <1>5, <1>6 DEF MapsShrink
<1>8. ASSUME NEW x \in Requests PROVE StoppedOK(x)'
  <2>1. \A g \in Requests : replacements'[g] = x => replacements[g] = x
    BY <1>5, ReplaceParts DEF CreditsShrink
  <2>2. CASE record = None \/ x # record
    <3>1. ownerStopped'[x] = ownerStopped[x]
      BY <1>1, <2>2 DEF TypeOK
    <3> QED
      BY <1>1, <2>1, <3>1, ReplaceParts DEF StoppedOK
  <2>3. CASE record # None /\ x = record
    <3>1. LinkOK(s) /\ pc[x] \in AdmittedPcs
      BY <2>3, ReplaceParts DEF LinkOK, MayLink, PreparedPcs, AdmittedPcs, PCs, CreatePcs,
           OperationPcs
    <3>2. ownerStopped'[x] = s
      BY <1>1, <2>3 DEF TypeOK
    <3>3. ASSUME req[x].old # None, s = req[x].old, NEW g \in Requests, replacements'[g] = x
          PROVE  FALSE
      <4>1. replacements[g] = x /\ CreditOK(g) /\ x # None
        BY <2>1, <3>3, ReplaceParts
      <4>2. genOf[s] = g
        BY <3>3, <4>1 DEF CreditOK, OldGen
      <4>3. g \in lent
        BY <1>1, <2>3, <3>3, <4>1, <4>2
      <4>4. replacements'[g] = None
        BY <1>1, <4>3 DEF StopSessions
      <4> QED
        BY <3>3, <4>1, <4>4
    <3> QED
      BY <1>1, <3>1, <3>2, <3>3 DEF StoppedOK
  <2> QED
    BY <2>2, <2>3
<1> QED
  BY <1>1, <1>7, <1>8, BystanderKeeps

-----------------------------------------------------------------------------
(* Every step.                                                             *)

\* Which control points come before admission and which after.
LEMMA Places ==
  /\ \A p \in LatePcs \cup PreparedPcs \cup {"finishing"} : p \in AdmittedPcs
  /\ \A p \in {"idle", "issued", "entered", "reserved", "starting", "started", "aborting",
               "discarding", "retiring"} : p \notin AdmittedPcs
BY DEF AdmittedPcs, LatePcs, PreparedPcs, PCs, CreatePcs, OperationPcs

\* Every step keeps credits, records and handoffs in order.
LEMMA ReplaceStep == TypeOK /\ AccountInv /\ ReplaceInv /\ [Next]_vars => ReplaceInv'
<1> SUFFICES ASSUME TypeOK, AccountInv, ReplaceInv, [Next]_vars PROVE ReplaceInv'
  OBVIOUS
<1> USE DEF clientVars, lifeVars, genVars, prepVars, handoffVars
<1>1. ASSUME NEW r \in Requests, NEW v \in Viewers, NEW c \in Catalogs,
             NEW p \in Plans \cup {Direct}, Plan(r, v, c, p)
      PROVE  ReplaceInv'
  <2>1. \A x \in Requests : x # r => req'[x] = req[x]
    BY <1>1 DEF Plan, TypeOK
  <2>2. req'[r].op = "plan" /\ req'[r].old = None
    BY <1>1 DEF Plan, TypeOK, Known
  <2>3. OldOK(r)'
    BY <1>1, <2>2, GotoFacts, NoneAssumption DEF Plan, OldOK, RoleOK
  <2> QED
    BY <1>1, <2>1, <2>2, <2>3, BeginKeeps DEF Plan
<1>2. ASSUME NEW r \in Requests, NEW s \in Requests, Seek(r, s) PROVE ReplaceInv'
  <2>1. \A x \in Requests : x # r => req'[x] = req[x]
    BY <1>2 DEF Seek, Replacing, TypeOK
  <2>2. req'[r].op = "seek" /\ req'[r].old = s /\ pc[s] = "done" /\ s # r
    BY <1>2 DEF Seek, Replacing, TypeOK, Known
  <2>3. OldOK(r)'
    BY <1>2, <2>2, GotoFacts, NoneAssumption DEF Seek, Replacing, OldOK, RoleOK
  <2> QED
    BY <1>2, <2>1, <2>2, <2>3, BeginKeeps DEF Seek, Replacing
<1>3. ASSUME NEW r \in Requests, NEW s \in Requests, NEW p \in Plans \cup {Direct}, Replace(r, s, p)
      PROVE  ReplaceInv'
  <2>1. \A x \in Requests : x # r => req'[x] = req[x]
    BY <1>3 DEF Replace, ReserveSource, Replacing, TypeOK
  <2>2. req'[r].op = "replace" /\ req'[r].old = s /\ pc[s] = "done" /\ s # r
    BY <1>3 DEF Replace, ReserveSource, Replacing, TypeOK, Known
  <2>3. OldOK(r)'
    BY <1>3, <2>2, GotoFacts, NoneAssumption DEF Replace, ReserveSource, Replacing, OldOK, RoleOK
  <2> QED
    BY <1>3, <2>1, <2>2, <2>3, BeginKeeps DEF Replace, ReserveSource, Replacing
<1>4. ASSUME NEW r \in Requests, NEW s \in Requests, NEW p \in Plans \cup {Direct},
             PrepareHandoff(r, s, p)
      PROVE  ReplaceInv'
  <2>1. \A x \in Requests : x # r => req'[x] = req[x]
    BY <1>4 DEF PrepareHandoff, ReserveSource, Replacing, TypeOK
  <2>2. req'[r].op = "handoff" /\ req'[r].old = s /\ pc[s] = "done" /\ s # r
    BY <1>4 DEF PrepareHandoff, ReserveSource, Replacing, TypeOK, Known
  <2>3. OldOK(r)'
    BY <1>4, <2>2, GotoFacts, NoneAssumption DEF PrepareHandoff, ReserveSource, Replacing, OldOK,
         RoleOK
  <2> QED
    BY <1>4, <2>1, <2>2, <2>3, BeginKeeps DEF PrepareHandoff, ReserveSource, Replacing
<1>5. ASSUME NEW r \in Requests, Enter(r) PROVE ReplaceInv'
  <2>1. pc[r] = "issued" /\ pc'[r] = "entered" /\ UNCHANGED ok
    BY <1>5, GotoFacts DEF Enter
  <2>2. \A x \in Requests : x # r => pc'[x] = pc[x] /\ (x \in ok' <=> x \in ok)
    BY <1>5, GotoFacts DEF Enter
  <2>3. /\ MapsShrink /\ UNCHANGED ownerStopped
    BY <1>5, MapsStill DEF Enter, MapsShrink
  <2> QED
    BY <1>5, <2>1, <2>2, <2>3, Places, AdvanceKeeps
    DEF Enter, Holding, Linking, OkOK, RoleOK, LatePcs, PreparedPcs, ReservedPcs
<1>6. ASSUME NEW r \in Requests, EnterRefused(r) PROVE ReplaceInv'
  <2>1. pc[r] = "issued" /\ pc'[r] = FailedLabel(r) /\ UNCHANGED ok
    BY <1>6, GotoFacts DEF EnterRefused, FailedLabel
  <2>2. \A x \in Requests : x # r => pc'[x] = pc[x] /\ (x \in ok' <=> x \in ok)
    BY <1>6, GotoFacts DEF EnterRefused, FailedLabel
  <2>3. /\ MapsShrink /\ UNCHANGED ownerStopped
    BY <1>6, MapsStill DEF EnterRefused, FailedLabel, MapsShrink
  <2> QED
    BY <1>6, <2>1, <2>2, <2>3, Places, AdvanceKeeps
    DEF EnterRefused, FailedLabel, Holding, Linking, OkOK, RoleOK, LatePcs, PreparedPcs, ReservedPcs
<1>7. ASSUME NEW r \in Requests, CreateDirect(r) PROVE ReplaceInv'
  <2>1. \A x \in Requests : x # r => pc'[x] = pc[x] /\ (x \in ok' <=> x \in ok)
    BY <1>7, GotoFacts DEF CreateDirect
  <2>2. \A x \in Requests : x # r => genOf'[x] = genOf[x]
    BY <1>7 DEF CreateDirect, TypeOK
  <2>3. \A g \in Requests : replacements[g] # r
    BY <1>7, Tenure DEF CreateDirect, Holding, ReservedPcs, PreparedPcs
  <2> QED
    BY <1>7, <2>1, <2>2, <2>3, GotoFacts, AdmissionKeeps DEF CreateDirect
<1>8. ASSUME NEW r \in Requests, NEW g \in Requests, ShareGeneration(r, g) PROVE ReplaceInv'
  <2>1. \A x \in Requests : x # r => pc'[x] = pc[x] /\ (x \in ok' <=> x \in ok)
    BY <1>8, GotoFacts DEF ShareGeneration
  <2>2. \A x \in Requests : x # r => genOf'[x] = genOf[x]
    BY <1>8 DEF ShareGeneration, TypeOK
  <2>3. \A x \in Requests : replacements[x] # r
    BY <1>8, Tenure DEF ShareGeneration, Holding, ReservedPcs, PreparedPcs
  <2> QED
    BY <1>8, <2>1, <2>2, <2>3, GotoFacts, AdmissionKeeps DEF ShareGeneration
<1>9. ASSUME NEW r \in Requests, Reserve(r) PROVE ReplaceInv'
  BY <1>9, ReserveCredit
<1>10. ASSUME NEW r \in Requests, CreateRefused(r) PROVE ReplaceInv'
  <2>1. pc[r] = "entered" /\ pc'[r] = "finishing" /\ UNCHANGED ok
    BY <1>10, GotoFacts DEF CreateRefused
  <2>2. \A x \in Requests : x # r => pc'[x] = pc[x] /\ (x \in ok' <=> x \in ok)
    BY <1>10, GotoFacts DEF CreateRefused
  <2>3. /\ MapsShrink /\ UNCHANGED ownerStopped
    BY <1>10, MapsStill DEF CreateRefused, MapsShrink
  <2> QED
    BY <1>10, <2>1, <2>2, <2>3, Places, AdvanceKeeps
    DEF CreateRefused, Holding, Linking, OkOK, RoleOK, LatePcs, PreparedPcs, ReservedPcs
<1>11. ASSUME NEW r \in Requests, InstallInputs(r) PROVE ReplaceInv'
  <2>1. pc[r] = "reserved" /\ pc'[r] = "starting" /\ UNCHANGED ok
    BY <1>11, GotoFacts DEF InstallInputs
  <2>2. \A x \in Requests : x # r => pc'[x] = pc[x] /\ (x \in ok' <=> x \in ok)
    BY <1>11, GotoFacts DEF InstallInputs
  <2>3. /\ MapsShrink /\ UNCHANGED ownerStopped
    BY <1>11, MapsStill DEF InstallInputs, MapsShrink
  <2> QED
    BY <1>11, <2>1, <2>2, <2>3, Places, AdvanceKeeps
    DEF InstallInputs, Holding, Linking, OkOK, RoleOK, LatePcs, PreparedPcs, ReservedPcs
<1>12. ASSUME NEW r \in Requests, InstallFails(r) PROVE ReplaceInv'
  <2>1. pc[r] = "reserved" /\ pc'[r] = "aborting" /\ UNCHANGED ok
    BY <1>12, GotoFacts DEF InstallFails
  <2>2. \A x \in Requests : x # r => pc'[x] = pc[x] /\ (x \in ok' <=> x \in ok)
    BY <1>12, GotoFacts DEF InstallFails
  <2>3. /\ MapsShrink /\ UNCHANGED ownerStopped
    BY <1>12, MapsStill DEF InstallFails, MapsShrink
  <2> QED
    BY <1>12, <2>1, <2>2, <2>3, Places, AdvanceKeeps
    DEF InstallFails, Holding, Linking, OkOK, RoleOK, LatePcs, PreparedPcs, ReservedPcs
<1>13. ASSUME NEW r \in Requests, StartProcess(r) PROVE ReplaceInv'
  <2>1. pc[r] = "starting" /\ pc'[r] = "started" /\ UNCHANGED ok
    BY <1>13, GotoFacts DEF StartProcess
  <2>2. \A x \in Requests : x # r => pc'[x] = pc[x] /\ (x \in ok' <=> x \in ok)
    BY <1>13, GotoFacts DEF StartProcess
  <2>3. /\ MapsShrink /\ UNCHANGED ownerStopped
    BY <1>13, MapsStill DEF StartProcess, MapsShrink
  <2> QED
    BY <1>13, <2>1, <2>2, <2>3, Places, AdvanceKeeps
    DEF StartProcess, Holding, Linking, OkOK, RoleOK, LatePcs, PreparedPcs, ReservedPcs
<1>14. ASSUME NEW r \in Requests, StartFails(r) PROVE ReplaceInv'
  <2>1. pc[r] = "starting" /\ pc'[r] = "aborting" /\ UNCHANGED ok
    BY <1>14, GotoFacts DEF StartFails
  <2>2. \A x \in Requests : x # r => pc'[x] = pc[x] /\ (x \in ok' <=> x \in ok)
    BY <1>14, GotoFacts DEF StartFails
  <2>3. /\ MapsShrink /\ UNCHANGED ownerStopped
    BY <1>14, MapsStill DEF StartFails, MapsShrink
  <2> QED
    BY <1>14, <2>1, <2>2, <2>3, Places, AdvanceKeeps
    DEF StartFails, Holding, Linking, OkOK, RoleOK, LatePcs, PreparedPcs, ReservedPcs
<1>15. ASSUME NEW r \in Requests, Abort(r) PROVE ReplaceInv'
  <2>1. pc[r] = "aborting" /\ pc'[r] = "finishing" /\ UNCHANGED ok
    BY <1>15, GotoFacts DEF Abort
  <2>2. \A x \in Requests : x # r => pc'[x] = pc[x] /\ (x \in ok' <=> x \in ok)
    BY <1>15, GotoFacts DEF Abort
  <2>3. /\ MapsShrink /\ UNCHANGED ownerStopped
        /\ \A g \in Requests : replacements'[g] # r
    BY <1>15, MapsStill, ReleaseMaps DEF Abort, MapsShrink
  <2> QED
    BY <1>15, <2>1, <2>2, <2>3, Places, AdvanceKeeps
    DEF Abort, Holding, Linking, OkOK, RoleOK, LatePcs, PreparedPcs, ReservedPcs
<1>16. ASSUME NEW r \in Requests, Admit(r) PROVE ReplaceInv'
  <2>1. \A x \in Requests : x # r => pc'[x] = pc[x] /\ (x \in ok' <=> x \in ok)
    BY <1>16, GotoFacts DEF Admit
  <2>2. \A x \in Requests : x # r => genOf'[x] = genOf[x]
    BY <1>16 DEF Admit, TypeOK
  <2>3. /\ \A g \in Requests : replacements'[g] \in {None, replacements[g]}
        /\ req[r].op # "handoff" => \A g \in Requests : replacements'[g] # r
    BY <1>16, ReleaseFacts DEF Admit, CreditAfterAdmission
  <2>4. r \notin ok /\ pc'[r] \in {"waiting", "manifest"}
    BY <1>16, GotoFacts, ReplaceParts DEF Admit, OkOK, LatePcs
  <2> QED
    BY <1>16, <2>1, <2>2, <2>3, <2>4, AdmissionKeeps DEF Admit
<1>17. ASSUME NEW r \in Requests, AdmitRefused(r) PROVE ReplaceInv'
  <2>1. pc[r] = "started" /\ pc'[r] = "discarding" /\ UNCHANGED ok
    BY <1>17, GotoFacts DEF AdmitRefused, CreditAfterAdmission
  <2>2. \A x \in Requests : x # r => pc'[x] = pc[x] /\ (x \in ok' <=> x \in ok)
    BY <1>17, GotoFacts DEF AdmitRefused, CreditAfterAdmission
  <2>3. /\ MapsShrink /\ UNCHANGED ownerStopped
        /\ \A g \in Requests : replacements'[g] # r
    BY <1>17, MapsStill, ReleaseMaps DEF AdmitRefused, CreditAfterAdmission, MapsShrink
  <2> QED
    BY <1>17, <2>1, <2>2, <2>3, Places, AdvanceKeeps
    DEF AdmitRefused, CreditAfterAdmission, Holding, Linking, OkOK, RoleOK, LatePcs, PreparedPcs,
         ReservedPcs
<1>18. ASSUME NEW r \in Requests, Discard(r) PROVE ReplaceInv'
  <2>1. pc[r] = "discarding" /\ pc'[r] = "retiring" /\ UNCHANGED ok
    BY <1>18, GotoFacts DEF Discard
  <2>2. \A x \in Requests : x # r => pc'[x] = pc[x] /\ (x \in ok' <=> x \in ok)
    BY <1>18, GotoFacts DEF Discard
  <2>3. /\ MapsShrink /\ UNCHANGED ownerStopped
    BY <1>18, MapsStill DEF Discard, MapsShrink
  <2> QED
    BY <1>18, <2>1, <2>2, <2>3, Places, AdvanceKeeps
    DEF Discard, Holding, Linking, OkOK, RoleOK, LatePcs, PreparedPcs, ReservedPcs
<1>19. ASSUME NEW r \in Requests, Discarded(r) PROVE ReplaceInv'
  <2>1. pc[r] = "retiring" /\ pc'[r] = "finishing" /\ UNCHANGED ok
    BY <1>19, GotoFacts DEF Discarded
  <2>2. \A x \in Requests : x # r => pc'[x] = pc[x] /\ (x \in ok' <=> x \in ok)
    BY <1>19, GotoFacts DEF Discarded
  <2>3. /\ MapsShrink /\ UNCHANGED ownerStopped
    BY <1>19, MapsStill DEF Discarded, MapsShrink
  <2> QED
    BY <1>19, <2>1, <2>2, <2>3, Places, AdvanceKeeps
    DEF Discarded, Holding, Linking, OkOK, RoleOK, LatePcs, PreparedPcs, ReservedPcs
<1>20. ASSUME NEW r \in Requests, ManifestWritten(r) PROVE ReplaceInv'
  <2>1. pc[r] = "waiting" /\ pc'[r] = "manifest" /\ UNCHANGED ok
    BY <1>20, GotoFacts DEF ManifestWritten
  <2>2. \A x \in Requests : x # r => pc'[x] = pc[x] /\ (x \in ok' <=> x \in ok)
    BY <1>20, GotoFacts DEF ManifestWritten
  <2>3. /\ MapsShrink /\ UNCHANGED ownerStopped
    BY <1>20, MapsStill DEF ManifestWritten, MapsShrink
  <2> QED
    BY <1>20, <2>1, <2>2, <2>3, Places, AdvanceKeeps
    DEF ManifestWritten, Holding, Linking, OkOK, RoleOK, LatePcs, PreparedPcs, ReservedPcs
<1>21. ASSUME NEW r \in Requests, ManifestFails(r) PROVE ReplaceInv'
  <2>1. pc[r] = "waiting" /\ pc'[r] = "abandoned" /\ UNCHANGED ok
    BY <1>21, GotoFacts DEF ManifestFails
  <2>2. \A x \in Requests : x # r => pc'[x] = pc[x] /\ (x \in ok' <=> x \in ok)
    BY <1>21, GotoFacts DEF ManifestFails
  <2>3. /\ MapsShrink /\ UNCHANGED ownerStopped
        /\ r \notin sessions'
    BY <1>21, MapsStill, ViewerStopMaps, StopForViewerShrinks DEF ManifestFails, MapsShrink
  <2> QED
    BY <1>21, <2>1, <2>2, <2>3, Places, AdvanceKeeps
    DEF ManifestFails, Holding, Linking, OkOK, RoleOK, LatePcs, PreparedPcs, ReservedPcs
<1>22. ASSUME NEW r \in Requests, Abandon(r) PROVE ReplaceInv'
  <2>1. pc[r] = "abandoned" /\ pc'[r] = "finishing" /\ UNCHANGED ok
    BY <1>22, GotoFacts DEF Abandon
  <2>2. \A x \in Requests : x # r => pc'[x] = pc[x] /\ (x \in ok' <=> x \in ok)
    BY <1>22, GotoFacts DEF Abandon
  <2>3. /\ MapsShrink /\ UNCHANGED ownerStopped
        /\ \A g \in Requests : replacements'[g] # r
        /\ \A s \in Requests : preparingReplacements'[s] # r
    BY <1>22, MapsStill, ReleaseMaps, ClearMaps DEF Abandon, MapsShrink
  <2> QED
    BY <1>22, <2>1, <2>2, <2>3, Places, AdvanceKeeps
    DEF Abandon, Holding, Linking, OkOK, RoleOK, LatePcs, PreparedPcs, ReservedPcs
<1>23. ASSUME NEW r \in Requests, ConfirmAdmission(r) PROVE ReplaceInv'
  <2>1. pc[r] = "manifest" /\ pc'[r] \in {"finishing", "rejected"}
           /\ (pc'[r] = "finishing" <=> r \in ok')
    BY <1>23, GotoFacts, ReplaceParts DEF ConfirmAdmission, OkOK, LatePcs
  <2>2. \A x \in Requests : x # r => pc'[x] = pc[x] /\ (x \in ok' <=> x \in ok)
    BY <1>23, GotoFacts DEF ConfirmAdmission
  <2>3. /\ MapsShrink /\ UNCHANGED ownerStopped
    BY <1>23, MapsStill DEF ConfirmAdmission, MapsShrink
  <2> QED
    BY <1>23, <2>1, <2>2, <2>3, Places, AdvanceKeeps
    DEF ConfirmAdmission, Holding, Linking, OkOK, RoleOK, LatePcs, PreparedPcs, ReservedPcs
<1>24. ASSUME NEW r \in Requests, Reject(r) PROVE ReplaceInv'
  <2>1. pc[r] = "rejected" /\ pc'[r] = "unlinking" /\ UNCHANGED ok
    BY <1>24, GotoFacts DEF Reject
  <2>2. \A x \in Requests : x # r => pc'[x] = pc[x] /\ (x \in ok' <=> x \in ok)
    BY <1>24, GotoFacts DEF Reject
  <2>3. /\ MapsShrink /\ UNCHANGED ownerStopped
        /\ r \notin sessions'
    BY <1>24, MapsStill, ViewerStopMaps, StopForViewerShrinks DEF Reject, MapsShrink
  <2> QED
    BY <1>24, <2>1, <2>2, <2>3, Places, AdvanceKeeps
    DEF Reject, Holding, Linking, OkOK, RoleOK, LatePcs, PreparedPcs, ReservedPcs
<1>25. ASSUME NEW r \in Requests, Unlink(r) PROVE ReplaceInv'
  <2>1. pc[r] = "unlinking" /\ pc'[r] = "finishing" /\ UNCHANGED ok
    BY <1>25, GotoFacts DEF Unlink
  <2>2. \A x \in Requests : x # r => pc'[x] = pc[x] /\ (x \in ok' <=> x \in ok)
    BY <1>25, GotoFacts DEF Unlink
  <2>3. /\ MapsShrink /\ UNCHANGED ownerStopped
        /\ \A g \in Requests : replacements'[g] # r
        /\ \A s \in Requests : preparingReplacements'[s] # r
    BY <1>25, MapsStill, ReleaseMaps, ClearMaps DEF Unlink, MapsShrink
  <2> QED
    BY <1>25, <2>1, <2>2, <2>3, Places, AdvanceKeeps
    DEF Unlink, Holding, Linking, OkOK, RoleOK, LatePcs, PreparedPcs, ReservedPcs
<1>26. ASSUME NEW r \in Requests, FinishViewerCreate(r) PROVE ReplaceInv'
  <2>1. pc[r] = "finishing" /\ pc'[r] = (IF r \in ok THEN "created" ELSE FailedLabel(r))
           /\ UNCHANGED ok
    BY <1>26, GotoFacts DEF FinishViewerCreate, FailedLabel
  <2>2. \A x \in Requests : x # r => pc'[x] = pc[x] /\ (x \in ok' <=> x \in ok)
    BY <1>26, GotoFacts DEF FinishViewerCreate, FailedLabel
  <2>3. /\ MapsShrink /\ UNCHANGED ownerStopped
    BY <1>26, MapsStill DEF FinishViewerCreate, FailedLabel, MapsShrink
  <2> QED
    BY <1>26, <2>1, <2>2, <2>3, Places, AdvanceKeeps
    DEF FinishViewerCreate, FailedLabel, Holding, Linking, OkOK, RoleOK, LatePcs, PreparedPcs,
         ReservedPcs
<1>27. ASSUME NEW r \in Requests, BeginPlayback(r) PROVE ReplaceInv'
  <2>1. pc[r] = "created" /\ pc'[r] = "accepted" /\ UNCHANGED ok
    BY <1>27, GotoFacts DEF BeginPlayback
  <2>2. \A x \in Requests : x # r => pc'[x] = pc[x] /\ (x \in ok' <=> x \in ok)
    BY <1>27, GotoFacts DEF BeginPlayback
  <2>3. /\ MapsShrink /\ UNCHANGED ownerStopped
    BY <1>27, MapsStill DEF BeginPlayback, MapsShrink
  <2> QED
    BY <1>27, <2>1, <2>2, <2>3, Places, AdvanceKeeps
    DEF BeginPlayback, Holding, Linking, OkOK, RoleOK, LatePcs, PreparedPcs, ReservedPcs
<1>28. ASSUME NEW r \in Requests, PlanDropped(r) PROVE ReplaceInv'
  <2>1. pc[r] \in {"created", "accepted"} /\ pc'[r] = "done" /\ r \notin ok'
    BY <1>28, GotoFacts DEF PlanDropped
  <2>2. \A x \in Requests : x # r => pc'[x] = pc[x] /\ (x \in ok' <=> x \in ok)
    BY <1>28, GotoFacts DEF PlanDropped
  <2>3. /\ MapsShrink /\ UNCHANGED ownerStopped
        /\ r \notin sessions'
    BY <1>28, MapsStill, ViewerStopMaps, StopForViewerShrinks DEF PlanDropped, MapsShrink
  <2> QED
    BY <1>28, <2>1, <2>2, <2>3, Places, AdvanceKeeps
    DEF PlanDropped, Holding, Linking, OkOK, RoleOK, LatePcs, PreparedPcs, ReservedPcs
<1>29. ASSUME NEW r \in Requests, StopSupersededPlans(r) PROVE ReplaceInv'
  <2>1. pc[r] = "accepted" /\ pc'[r] = "superseding" /\ UNCHANGED ok /\ req[r].op = "plan"
    BY <1>29, GotoFacts, ReplaceParts DEF StopSupersededPlans, OldOK, RoleOK
  <2>2. \A x \in Requests : x # r => pc'[x] = pc[x] /\ (x \in ok' <=> x \in ok)
    BY <1>29, GotoFacts DEF StopSupersededPlans
  <2>3. /\ MapsShrink /\ UNCHANGED ownerStopped
    BY <1>29, MapsStill DEF StopSupersededPlans, MapsShrink
  <2> QED
    BY <1>29, <2>1, <2>2, <2>3, Places, AdvanceKeeps
    DEF StopSupersededPlans, Holding, Linking, OkOK, RoleOK, LatePcs, PreparedPcs, ReservedPcs
<1>30. ASSUME NEW r \in Requests, PlanAnswered(r) PROVE ReplaceInv'
  <2>1. pc[r] = "superseding" /\ pc'[r] = "done" /\ UNCHANGED ok /\ req[r].op = "plan"
    BY <1>30, GotoFacts, ReplaceParts DEF PlanAnswered, OldOK, RoleOK
  <2>2. \A x \in Requests : x # r => pc'[x] = pc[x] /\ (x \in ok' <=> x \in ok)
    BY <1>30, GotoFacts DEF PlanAnswered
  <2>3. /\ MapsShrink /\ UNCHANGED ownerStopped
    BY <1>30, MapsStill DEF PlanAnswered, MapsShrink
  <2> QED
    BY <1>30, <2>1, <2>2, <2>3, Places, AdvanceKeeps
    DEF PlanAnswered, Holding, Linking, OkOK, RoleOK, LatePcs, PreparedPcs, ReservedPcs
<1>31. ASSUME NEW r \in Requests, SeekPromoted(r) PROVE ReplaceInv'
  <2>1. pc[r] = "created" /\ pc'[r] = "done" /\ UNCHANGED ok
    BY <1>31, GotoFacts DEF SeekPromoted
  <2>2. \A x \in Requests : x # r => pc'[x] = pc[x] /\ (x \in ok' <=> x \in ok)
    BY <1>31, GotoFacts DEF SeekPromoted
  <2>3. /\ MapsShrink /\ UNCHANGED ownerStopped
        /\ \A s \in Requests : preparingReplacements'[s] # r
    BY <1>31, MapsStill, ClearMaps DEF SeekPromoted, MapsShrink
  <2> QED
    BY <1>31, <2>1, <2>2, <2>3, Places, AdvanceKeeps
    DEF SeekPromoted, Holding, Linking, OkOK, RoleOK, LatePcs, PreparedPcs, ReservedPcs
<1>32. ASSUME NEW r \in Requests, SeekSwapped(r) PROVE ReplaceInv'
  <2>1. pc[r] = "created" /\ pc'[r] = "done" /\ UNCHANGED ok
    BY <1>32, GotoFacts DEF SeekSwapped
  <2>2. \A x \in Requests : x # r => pc'[x] = pc[x] /\ (x \in ok' <=> x \in ok)
    BY <1>32, GotoFacts DEF SeekSwapped
  <2>3. /\ MapsShrink /\ UNCHANGED ownerStopped
        /\ \A s \in Requests : preparingReplacements'[s] # r
    BY <1>32, MapsStill, ClearMaps, StopMaps DEF SeekSwapped, MapsShrink
  <2> QED
    BY <1>32, <2>1, <2>2, <2>3, Places, AdvanceKeeps
    DEF SeekSwapped, Holding, Linking, OkOK, RoleOK, LatePcs, PreparedPcs, ReservedPcs
<1>33. ASSUME NEW r \in Requests, SeekDropped(r) PROVE ReplaceInv'
  <2>1. pc[r] = "created" /\ pc'[r] = "dropping" /\ UNCHANGED ok
    BY <1>33, GotoFacts DEF SeekDropped
  <2>2. \A x \in Requests : x # r => pc'[x] = pc[x] /\ (x \in ok' <=> x \in ok)
    BY <1>33, GotoFacts DEF SeekDropped
  <2>3. /\ MapsShrink /\ UNCHANGED ownerStopped
        /\ \A s \in Requests : preparingReplacements'[s] # r
    BY <1>33, MapsStill, ClearMaps DEF SeekDropped, MapsShrink
  <2> QED
    BY <1>33, <2>1, <2>2, <2>3, Places, AdvanceKeeps
    DEF SeekDropped, Holding, Linking, OkOK, RoleOK, LatePcs, PreparedPcs, ReservedPcs
<1>34. ASSUME NEW r \in Requests, DropCandidate(r) PROVE ReplaceInv'
  <2>1. /\ pc[r] = "dropping" /\ r \in ok /\ req[r].op \in {"seek", "replace", "handoff"}
        /\ \/ pc'[r] = "done" /\ r \notin ok' /\ req[r].op = "seek"
           \/ pc'[r] = "cleanupFailed" /\ r \in ok' /\ req[r].op # "seek"
        /\ UNCHANGED req
    BY <1>34, GotoFacts, ReplaceParts DEF DropCandidate, OldOK, RoleOK, OkOK
  <2>2. \A x \in Requests : x # r => pc'[x] = pc[x] /\ (x \in ok' <=> x \in ok)
    BY <1>34, GotoFacts DEF DropCandidate
  <2>3. MapsShrink /\ UNCHANGED ownerStopped /\ r \notin sessions'
    BY <1>34, MapsStill, ViewerStopMaps, StopForViewerShrinks DEF DropCandidate, MapsShrink
  <2>4. /\ Holding(r) => Holding(r)'
        /\ Linking(r) => Linking(r)'
    BY <2>1 DEF Holding, Linking, PreparedPcs, ReservedPcs
  <2>5. RoleOK(r)' /\ OkOK(r)'
    BY <2>1, <2>3 DEF RoleOK, OkOK, LatePcs
  <2> QED
    BY <2>1, <2>2, <2>3, <2>4, <2>5, Places, AdvanceKeeps DEF LatePcs
<1>35. ASSUME NEW r \in Requests, ReplaceSwapped(r) PROVE ReplaceInv'
  <2>1. pc[r] = "created" /\ pc'[r] = "cleanupAccepted" /\ UNCHANGED ok
    BY <1>35, GotoFacts DEF ReplaceSwapped
  <2>2. \A x \in Requests : x # r => pc'[x] = pc[x] /\ (x \in ok' <=> x \in ok)
    BY <1>35, GotoFacts DEF ReplaceSwapped
  <2>3. /\ MapsShrink /\ UNCHANGED ownerStopped
        /\ \A s \in Requests : preparingReplacements'[s] # r
    BY <1>35, MapsStill, ClearMaps, StopMaps DEF ReplaceSwapped, MapsShrink
  <2> QED
    BY <1>35, <2>1, <2>2, <2>3, Places, AdvanceKeeps
    DEF ReplaceSwapped, Holding, Linking, OkOK, RoleOK, LatePcs, PreparedPcs, ReservedPcs
<1>36. ASSUME NEW r \in Requests, HandoffActivated(r) PROVE ReplaceInv'
  BY <1>36, ActivationKeeps
<1>37. ASSUME NEW r \in Requests, HandoffPromoted(r) PROVE ReplaceInv'
  <2>1. pc[r] = "created" /\ pc'[r] = "cleanupAccepted" /\ UNCHANGED ok
    BY <1>37, GotoFacts DEF HandoffPromoted
  <2>2. \A x \in Requests : x # r => pc'[x] = pc[x] /\ (x \in ok' <=> x \in ok)
    BY <1>37, GotoFacts DEF HandoffPromoted
  <2>3. /\ MapsShrink /\ UNCHANGED ownerStopped
        /\ \A s \in Requests : preparingReplacements'[s] # r
    BY <1>37, MapsStill, ClearMaps DEF HandoffPromoted, MapsShrink
  <2>4. \A g \in Requests : replacements'[g] # r
    <3>1. preparingReplacements[r] = r /\ ownerStopped[r] = req[r].old
      BY <1>37, <2>1, OldsDone, ReplaceParts DEF HandoffPromoted, OwnerStoppedOld, LinkOK, Pair
    <3>2. req[r].old # None
      BY <1>37, ReplaceParts DEF HandoffPromoted, OldOK
    <3> QED
      BY <1>37, <3>1, <3>2, ReplaceParts DEF HandoffPromoted, StoppedOK
  <2> QED
    BY <1>37, <2>1, <2>2, <2>3, Places, AdvanceKeeps, <2>4
    DEF HandoffPromoted, Holding, Linking, OkOK, RoleOK, LatePcs, PreparedPcs, ReservedPcs
<1>38. ASSUME NEW r \in Requests, ReplacementDropped(r) PROVE ReplaceInv'
  <2>1. pc[r] = "created" /\ pc'[r] = "dropping" /\ UNCHANGED ok
    BY <1>38, GotoFacts DEF ReplacementDropped
  <2>2. \A x \in Requests : x # r => pc'[x] = pc[x] /\ (x \in ok' <=> x \in ok)
    BY <1>38, GotoFacts DEF ReplacementDropped
  <2>3. /\ MapsShrink /\ UNCHANGED ownerStopped
    BY <1>38, MapsStill DEF ReplacementDropped, MapsShrink
  <2> QED
    BY <1>38, <2>1, <2>2, <2>3, Places, AdvanceKeeps
    DEF ReplacementDropped, Holding, Linking, OkOK, RoleOK, LatePcs, PreparedPcs, ReservedPcs
<1>39. ASSUME NEW r \in Requests, Cleanup(r) PROVE ReplaceInv'
  BY <1>39, CleanupReplaces
<1>40. ASSUME NEW s \in Requests, SeekRetained(s) PROVE ReplaceInv'
  <2>1. MapsShrink
    BY <1>40, MapsStill DEF SeekRetained, MapsShrink
  <2> QED
    BY <1>40, <2>1, BystanderKeeps DEF SeekRetained
<1>41. ASSUME NEW h \in Requests, NEW isAttached \in BOOLEAN, ResolveHandoff(h, isAttached)
      PROVE  ReplaceInv'
  <2>1. MapsShrink
    BY <1>41, MapsStill, ResolveMaps DEF ResolveHandoff, MapsShrink
  <2> QED
    BY <1>41, <2>1, BystanderKeeps DEF ResolveHandoff
<1>42. ASSUME NEW s \in Requests, ExpireHandoff(s) PROVE ReplaceInv'
  <2>1. MapsShrink
    BY <1>42, MapsStill, ResolveMaps DEF ExpireHandoff, HandoffExpired, MapsShrink
  <2> QED
    BY <1>42, <2>1, BystanderKeeps DEF ExpireHandoff, HandoffExpired
<1>43. ASSUME NEW s \in Requests, Lookup(s) PROVE ReplaceInv'
  <2>1. MapsShrink
    BY <1>43, MapsStill DEF Lookup, Renew, MapsShrink
  <2> QED
    BY <1>43, <2>1, BystanderKeeps DEF Lookup, Renew
<1>44. ASSUME NEW s \in Requests, LookupExpired(s) PROVE ReplaceInv'
  <2>1. MapsShrink
    BY <1>44, MapsStill, ViewerStopMaps DEF LookupExpired, MapsShrink
  <2> QED
    BY <1>44, <2>1, BystanderKeeps DEF LookupExpired
<1>45. ASSUME NEW s \in Requests, Heartbeat(s) PROVE ReplaceInv'
  <2>1. MapsShrink
    BY <1>45, MapsStill DEF Heartbeat, Renew, MapsShrink
  <2> QED
    BY <1>45, <2>1, BystanderKeeps DEF Heartbeat, Renew
<1>46. ASSUME NEW g \in Requests, InputFile(g) PROVE ReplaceInv'
  <2>1. MapsShrink
    BY <1>46, MapsStill DEF InputFile, MapsShrink
  <2> QED
    BY <1>46, <2>1, BystanderKeeps DEF InputFile
<1>47. ASSUME NEW s \in Requests, SubtitleStart(s) PROVE ReplaceInv'
  <2>1. MapsShrink
    BY <1>47, MapsStill DEF SubtitleStart, MapsShrink
  <2> QED
    BY <1>47, <2>1, BystanderKeeps DEF SubtitleStart
<1>48. ASSUME NEW s \in Requests, SubtitleRelease(s) PROVE ReplaceInv'
  <2>1. MapsShrink
    BY <1>48, MapsStill DEF SubtitleRelease, MapsShrink
  <2> QED
    BY <1>48, <2>1, BystanderKeeps DEF SubtitleRelease
<1>49. ASSUME NEW s \in Requests, Stop(s) PROVE ReplaceInv'
  <2>1. MapsShrink
    BY <1>49, MapsStill, ViewerStopMaps DEF Stop, MapsShrink
  <2> QED
    BY <1>49, <2>1, BystanderKeeps DEF Stop
<1>50. ASSUME NEW k \in Requests \cup Viewers, NEW s \in Requests, StopQueued(k, s)
      PROVE  ReplaceInv'
  <2>1. MapsShrink
    BY <1>50, MapsStill, ViewerStopMaps DEF StopQueued, MapsShrink
  <2> QED
    BY <1>50, <2>1, BystanderKeeps DEF StopQueued
<1>51. ASSUME NEW s \in Requests, StopOwnerSession(s) PROVE ReplaceInv'
  BY <1>51, OwnerStopReplaces
<1>52. ASSUME NEW g \in Requests, ProcessExit(g) PROVE ReplaceInv'
  <2>1. MapsShrink
    BY <1>52, MapsStill DEF ProcessExit, MapsShrink
  <2> QED
    BY <1>52, <2>1, BystanderKeeps DEF ProcessExit
<1>53. ASSUME NEW g \in Requests, Retire(g) PROVE ReplaceInv'
  <2>1. MapsShrink
    BY <1>53, MapsStill DEF Retire, MapsShrink
  <2> QED
    BY <1>53, <2>1, BystanderKeeps DEF Retire
<1>54. ASSUME NEW v \in Viewers, StopViewer(v) PROVE ReplaceInv'
  <2>1. MapsShrink
    BY <1>54, MapsStill DEF StopViewer, MapsShrink
  <2> QED
    BY <1>54, <2>1, BystanderKeeps DEF StopViewer
<1>55. ASSUME NEW c \in Catalogs, StopCatalog(c) PROVE ReplaceInv'
  <2>1. MapsShrink
    BY <1>55, MapsStill, StopMaps DEF StopCatalog, MapsShrink
  <2> QED
    BY <1>55, <2>1, BystanderKeeps DEF StopCatalog
<1>56. ASSUME NEW key \in Viewers \X Catalogs, SetWatched(key) PROVE ReplaceInv'
  <2>1. MapsShrink
    BY <1>56, MapsStill DEF SetWatched, MapsShrink
  <2> QED
    BY <1>56, <2>1, BystanderKeeps DEF SetWatched
<1>57. ASSUME SweepExpire PROVE ReplaceInv'
  <2> DEFINE gone == Emptied(Overdue)
  <2>1. Overdue \in SUBSET handoffs
    BY DEF Overdue
  <2>2. /\ HandoffsShrink /\ handoffs \ handoffs' = Overdue
        /\ \A g \in Requests : CreditsWithout(Overdue)[g] \in {None, replacements[g]}
        /\ \A h \in Overdue, g \in Requests :
             replacements[g] = h /\ handoffGen[h] = g => CreditsWithout(Overdue)[g] = None
    BY <1>57, <2>1, DropMaps DEF SweepExpire
  <2>3. /\ generations' = generations \ gone /\ sessions' \subseteq sessions
        /\ \A g \in Requests : replacements'[g] =
             IF g \in gone THEN None ELSE CreditsWithout(Overdue)[g]
    BY <1>57 DEF SweepExpire
  <2>4. CreditsShrink
    <3> HIDE DEF gone
    <3>1. \A g \in Requests : replacements'[g] \in {None, replacements[g]}
      BY <2>2, <2>3
    <3>2. \A g \in generations \ generations' : replacements'[g] = None
      BY <2>3 DEF TypeOK
    <3>3. \A h \in handoffs \ handoffs', g \in Requests :
            replacements[g] = h /\ handoffGen[h] = g => replacements'[g] = None
      BY <2>2, <2>3
    <3> QED
      BY <3>1, <3>2, <3>3 DEF CreditsShrink
  <2>5. MapsShrink
    BY <1>57, <2>2, <2>3, <2>4, MapsStill DEF SweepExpire, MapsShrink
  <2> QED
    BY <1>57, <2>5, BystanderKeeps DEF SweepExpire
<1>58. ASSUME NEW bad \in SUBSET snapshot, SweepReclaim(bad) PROVE ReplaceInv'
  <2>1. CreditsShrink /\ sessions' \subseteq sessions
    BY <1>58 DEF SweepReclaim, Detach, CreditsShrink, TypeOK
  <2>2. MapsShrink
    BY <1>58, <2>1, MapsStill DEF SweepReclaim, MapsShrink
  <2> QED
    BY <1>58, <2>2, BystanderKeeps DEF SweepReclaim
<1>59. ASSUME SweepDone PROVE ReplaceInv'
  <2>1. MapsShrink
    BY <1>59, MapsStill DEF SweepDone, MapsShrink
  <2> QED
    BY <1>59, <2>1, BystanderKeeps DEF SweepDone
<1>60. ASSUME JanitorStops PROVE ReplaceInv'
  <2>1. MapsShrink
    BY <1>60, MapsStill DEF JanitorStops, MapsShrink
  <2> QED
    BY <1>60, <2>1, BystanderKeeps DEF JanitorStops
<1>61. ASSUME Shutdown PROVE ReplaceInv'
  <2>1. CreditsShrink /\ sessions' \subseteq sessions
    BY <1>61 DEF Shutdown, CreditsShrink, TypeOK
  <2>2. MapsShrink
    BY <1>61, <2>1, MapsStill DEF Shutdown, MapsShrink
  <2> QED
    BY <1>61, <2>2, BystanderKeeps DEF Shutdown
<1>62. ASSUME ShutdownStep PROVE ReplaceInv'
  <2>1. MapsShrink
    BY <1>62, MapsStill DEF ShutdownStep, ShutdownStartsDone, ShutdownStartsTimeout,
         ShutdownJanitorDone,
       ShutdownJanitorTimeout, ShutdownDone, ShutdownMoves, MapsShrink
  <2> QED
    BY <1>62, <2>1, BystanderKeeps DEF ShutdownStep, ShutdownStartsDone, ShutdownStartsTimeout,
         ShutdownJanitorDone,
       ShutdownJanitorTimeout, ShutdownDone, ShutdownMoves
<1>63. ASSUME Tick PROVE ReplaceInv'
  <2>1. MapsShrink
    BY <1>63, MapsStill DEF Tick, MapsShrink
  <2> QED
    BY <1>63, <2>1, BystanderKeeps DEF Tick
<1>64. CASE UNCHANGED vars
  <2>1. MapsShrink
    BY <1>64, MapsStill DEF vars, MapsShrink
  <2> QED
    BY <1>64, <2>1, BystanderKeeps DEF vars
<1> QED
  BY <1>1, <1>2, <1>3, <1>4, <1>5, <1>6, <1>7, <1>8, <1>9, <1>10, <1>11, <1>12, <1>13,
     <1>14, <1>15, <1>16, <1>17, <1>18, <1>19, <1>20, <1>21, <1>22, <1>23, <1>24, <1>25,
     <1>26, <1>27, <1>28, <1>29, <1>30, <1>31, <1>32, <1>33, <1>34, <1>35, <1>36, <1>37,
     <1>38, <1>39, <1>40, <1>41, <1>42, <1>43, <1>44, <1>45, <1>46, <1>47, <1>48, <1>49,
     <1>50, <1>51, <1>52, <1>53, <1>54, <1>55, <1>56, <1>57, <1>58, <1>59, <1>60, <1>61,
     <1>62, <1>63, <1>64 DEF Next, Issue, CreateStep, OperationStep, SessionStep,
     JanitorStep

\* An idle manager has nothing to give back.
LEMMA ReplaceInit == Init => ReplaceInv
<1> SUFFICES ASSUME Init PROVE ReplaceInv
  OBVIOUS
<1>1. \A r \in Requests : OldOK(r) /\ OkOK(r) /\ CreditOK(r) /\ HandoffOK(r)
  BY NoneAssumption DEF Init, OldOK, RoleOK, OkOK, CreditOK, HandoffOK
<1>2. \A r \in Requests : SourceOK(r) /\ LinkOK(r) /\ StoppedOK(r)
  BY NoneAssumption DEF Init, SourceOK, LinkOK, StoppedOK
<1>3. HandoffsPaired
  BY DEF Init, HandoffsPaired
<1> QED
  BY <1>1, <1>2, <1>3 DEF ReplaceInv

\* The invariant holds in every reachable state.
LEMMA ReplacementsHold == Spec => [](TypeOK /\ ReplaceInv)
<1>1. Init => TypeOK /\ AccountInv /\ ReplaceInv
  BY TypeInit, AccountInit, ReplaceInit
<1>2. (TypeOK /\ AccountInv /\ ReplaceInv) /\ [Next]_vars => (TypeOK /\ AccountInv /\ ReplaceInv)'
  BY TypeStep, AccountStep, ReplaceStep
<1> QED
  BY <1>1, <1>2, PTL DEF Spec

\* Every replacement credit has a running operation or an active handoff that gives it
\* back, and both sessions of a handoff know it, whatever is stopped, swept or
\* cancelled while a replacement is prepared.
THEOREM ReplacementsBalance == Spec => []ReplacementsAccounted
<1>1. TypeOK /\ ReplaceInv => ReplacementsAccounted
  <2> SUFFICES ASSUME TypeOK, ReplaceInv PROVE CreditsOwned
    BY DEF ReplacementsAccounted, ReplaceInv
  <2> SUFFICES ASSUME NEW g \in Requests, replacements[g] # None
               PROVE  LET r == replacements[g] IN
                      /\ g \in generations /\ OldGen(r) = g
                      /\ InFlight(r) \/ (r \in handoffs /\ handoffGen[r] = g)
    BY DEF CreditsOwned
  <2>1. CreditOK(g)
    BY ReplaceParts
  <2>2. g \in generations /\ OldGen(replacements[g]) = g /\ MayHold(replacements[g], g)
    BY <2>1 DEF CreditOK
  <2>3. \/ InFlight(replacements[g])
        \/ replacements[g] \in handoffs /\ handoffGen[replacements[g]] = g
    BY <2>2 DEF MayHold, InFlight, ReservedPcs, PreparedPcs
  <2> QED
    BY <2>2, <2>3
<1> QED
  BY ReplacementsHold, <1>1, PTL

\* A live session is never refused its controls for good: what blocks them is an
\* unresolved handoff or an operation on it that is still running.
THEOREM ControlsAreReturned == Spec => []ControlsReturn
<1>1. TypeOK /\ ReplaceInv => ControlsReturn
  <2> SUFFICES ASSUME TypeOK, ReplaceInv, NEW s \in sessions, ControlBlocked(s),
                      sessionHandoffs[s] \notin handoffs
               PROVE  \E r \in Requests : InFlight(r) /\ s \in Pair(r)
    BY DEF ControlsReturn
  <2>1. s \in Requests
    BY DEF TypeOK
  <2>2. CASE s \in preparingHandoffs
    <3>1. SourceOK(s)
      BY <2>1, ReplaceParts
    <3> QED
      BY <2>2, <3>1 DEF SourceOK, Pair
  <2>3. CASE preparingReplacements[s] # None
    <3>1. PICK y \in Requests : y = preparingReplacements[s]
      BY <2>1, <2>3, ReplaceParts
    <3>2. s \in Pair(y) /\ MayLink(y) /\ (pc[y] = "done" => s = y)
      BY <2>1, <2>3, <3>1, ReplaceParts DEF LinkOK
    <3>3. pc[y] # "done"
      BY <3>2 DEF MayLink, PreparedPcs
    <3> QED
      BY <3>2, <3>3 DEF MayLink, InFlight, PreparedPcs
  <2>4. sessionHandoffs[s] = None
    BY <2>1, ReplaceParts DEF HandoffsPaired
  <2> QED
    BY <2>2, <2>3, <2>4 DEF ControlBlocked
<1> QED
  BY ReplacementsHold, <1>1, PTL

-----------------------------------------------------------------------------
(* Plans: the newest plan of a title is the one that plays.                *)

\* Of one viewer and title.
SameTitle(r, s) == req[r].viewer = req[s].viewer /\ req[r].catalog = req[s].catalog
\* Of the same plan, as far as the progress generation can tell.
Kin(r, s) == SameTitle(r, s) /\ req[r].progress = req[s].progress

\* A plan that won the compare and swap, one that has listed what it supersedes, and a
\* session that is not accepted by the household any more once a newer plan is.
Taken(r) == req[r].op = "plan" /\ (pc[r] \in {"accepted", "superseding"} \/ Known(r))
Ruling(r) == req[r].op = "plan" /\ (pc[r] = "superseding" \/ Known(r))
Current(s) == Taken(s) \/ (req[s].op = "seek" /\ Known(s))

\* Where an operation without success has lost its session.
SettledPcs == {"abandoned", "unlinking", "finishing", "cleanupFailed", "done"}

TitlesKnown ==
  \A r \in Requests : pc[r] # "idle" =>
    req[r].op # "none" /\ req[r].viewer \in Viewers /\ req[r].catalog \in Catalogs

\* A progress generation is taken by one plan at most and never taken back.
TakenOnce ==
  /\ \A r \in Requests : Taken(r) =>
       req[r].progress <= progressGen[<<req[r].viewer, req[r].catalog>>]
  /\ \A r, s \in Requests : Taken(r) /\ Taken(s) /\ Kin(r, s) => r = s

\* An operation on a session belongs to an answered plan.
Descent ==
  \A r \in Requests : req[r].old # None =>
    /\ Kin(req[r].old, r)
    /\ \E p \in Requests : req[p].op = "plan" /\ Known(p) /\ Kin(p, r)

\* What a plan still has to stop is older, or of its own generation.
Listed(r, s) ==
  pc[r] = "superseding" /\ s # r /\ pc[s] # "idle" /\ SameTitle(r, s) /\ req[s].progress <= req[r].progress
ListsOlder == \A r \in Requests : \A s \in stopQueue[r] : Listed(r, s)

OnlySuccessStays == \A x \in sessions : pc[x] \in SettledPcs => x \in ok

\* A plan that has listed what it supersedes still has it on its list.
ListsAll ==
  \A r, s \in sessions :
    Ruling(r) /\ Current(s) /\ SameTitle(r, s) /\ req[s].progress < req[r].progress => s \in stopQueue[r]

\* Operations on a session of another; only those are ever resolved as handoffs.
Descendants == {h \in Requests : pc[h] # "idle" /\ req[h].old # None}
ResolvedDescend == resolvedHandoffs \subseteq Descendants

\* The inductive invariant behind the order of plans.
PlanInv ==
  /\ TitlesKnown /\ TakenOnce /\ Descent /\ ResolvedDescend
  /\ ListsOlder /\ OnlySuccessStays /\ ListsAll

\* A step after which nobody has taken a title, rules or plays that had not before, but
\* for one plan that takes a newer generation or an operation whose commit was accepted.
LEMMA OrderKeeps ==
  ASSUME TypeOK, TypeOK', PlanInv, NEW r \in Requests, UNCHANGED req,
         \A x \in Requests : pc[x] = "idle" <=> pc'[x] = "idle",
         resolvedHandoffs' \subseteq resolvedHandoffs \cup Descendants,
         \A x \in Requests : Known(x) => Known(x)',
         \A x \in Requests : Taken(x)' => \/ Taken(x)
            \/ /\ x = r /\ progressGen[<<req[x].viewer, req[x].catalog>>] < req[x].progress
               /\ req[x].progress <= progressGen'[<<req[x].viewer, req[x].catalog>>],
         \A x \in sessions' : Ruling(x)' => Ruling(x) /\ x \in sessions,
         \A x \in sessions' : Current(x)' => x \in sessions /\
            (Current(x) \/ progressGen[<<req[x].viewer, req[x].catalog>>] <= req[x].progress),
         \A k \in Viewers \X Catalogs : progressGen[k] <= progressGen'[k],
         \A x \in Requests : \A s \in stopQueue'[x] : s \in stopQueue[x] /\ pc'[x] = "superseding",
         \A x \in Requests : Ruling(x)' => \A s \in stopQueue[x] : s \in sessions' => s \in stopQueue'[x],
         OnlySuccessStays'
  PROVE  PlanInv'
<1>1. \A x \in Requests : pc[x] # "idle" => <<req[x].viewer, req[x].catalog>> \in Viewers \X Catalogs
  BY DEF PlanInv, TitlesKnown
<1>2. TitlesKnown'
  BY DEF PlanInv, TitlesKnown
<1>3. /\ \A x \in Requests : req[x].progress \in Nat
      /\ \A x \in Requests : pc[x] # "idle" => /\ progressGen[<<req[x].viewer, req[x].catalog>>] \in Nat
                                               /\ progressGen'[<<req[x].viewer, req[x].catalog>>] \in Nat
                                               /\ progressGen[<<req[x].viewer, req[x].catalog>>]
                                                    <= progressGen'[<<req[x].viewer, req[x].catalog>>]
  BY <1>1 DEF TypeOK
<1>4. \A x \in Requests : /\ Taken(x) \/ Ruling(x) \/ Current(x) => pc[x] # "idle"
                          /\ Ruling(x) => Taken(x)
                          /\ (Taken(x) \/ Ruling(x) \/ Current(x))' => pc[x] # "idle"
  BY DEF Taken, Ruling, Current, Known
<1>5. TakenOnce'
  <2>1. \A x \in Requests : Taken(x)' =>
          req[x].progress <= progressGen'[<<req[x].viewer, req[x].catalog>>]
    BY <1>3, <1>4 DEF PlanInv, TakenOnce
  <2>2. ASSUME NEW x \in Requests, NEW y \in Requests, Taken(x)', Taken(y)', Kin(x, y), x # y PROVE FALSE
    <3>1. CASE Taken(x) /\ Taken(y)
      BY <2>2, <3>1 DEF PlanInv, TakenOnce
    <3>2. ASSUME NEW a \in Requests, NEW b \in Requests, Taken(a), Kin(a, b), pc[b] # "idle",
                 progressGen[<<req[b].viewer, req[b].catalog>>] < req[b].progress
          PROVE  FALSE
      BY <1>3, <1>4, <3>2 DEF PlanInv, TakenOnce, Kin, SameTitle
    <3>3. Kin(y, x)
      BY <2>2 DEF Kin, SameTitle
    <3> QED
      BY <1>4, <2>2, <3>1, <3>2, <3>3
  <2> QED
    BY <2>1, <2>2 DEF TakenOnce, Kin, SameTitle
<1>6. Descent' /\ ResolvedDescend'
  BY DEF PlanInv, Descent, Kin, SameTitle, ResolvedDescend, Descendants
<1>7. ListsOlder'
  <2>1. \A x \in Requests : stopQueue[x] \in SUBSET Requests
    BY DEF TypeOK
  <2> QED
    BY <2>1 DEF PlanInv, ListsOlder, Listed, SameTitle
<1>8. ListsAll'
  <2> SUFFICES ASSUME NEW x \in sessions', NEW y \in sessions', Ruling(x)', Current(y)', SameTitle(x, y),
                      req[y].progress < req[x].progress
               PROVE  y \in stopQueue'[x]
    BY DEF ListsAll, SameTitle
  <2>1. x \in Requests /\ y \in Requests
    BY DEF TypeOK
  <2>2. Ruling(x) /\ x \in sessions /\ y \in sessions
    OBVIOUS
  <2>3. req[x].progress <= progressGen[<<req[x].viewer, req[x].catalog>>]
    BY <1>4, <2>1, <2>2 DEF PlanInv, TakenOnce
  <2>4. Current(y)
    BY <1>3, <1>4, <2>1, <2>2, <2>3 DEF SameTitle
  <2>5. y \in stopQueue[x]
    BY <2>2, <2>4 DEF PlanInv, ListsAll
  <2> QED
    BY <2>1, <2>5
<1> QED
  BY <1>2, <1>5, <1>6, <1>7, <1>8 DEF PlanInv

\* A step of nobody's control that stops sessions at most.
LEMMA BystanderOrder ==
  ASSUME TypeOK, TypeOK', PlanInv, UNCHANGED clientVars, sessions' \subseteq sessions,
         resolvedHandoffs' \subseteq resolvedHandoffs \cup Descendants,
         \A k \in Viewers \X Catalogs : progressGen[k] <= progressGen'[k],
         \A x \in Requests : /\ stopQueue'[x] \subseteq stopQueue[x]
                             /\ \A s \in stopQueue[x] : s \in sessions' => s \in stopQueue'[x]
  PROVE  PlanInv'
<1>1. UNCHANGED req /\ UNCHANGED pc /\ UNCHANGED ok
  BY DEF clientVars
<1>2. \A x \in Requests : /\ Known(x)' <=> Known(x)
                          /\ Taken(x)' <=> Taken(x)
                          /\ Ruling(x)' <=> Ruling(x)
                          /\ Current(x)' <=> Current(x)
  BY <1>1 DEF Known, Taken, Ruling, Current
<1>3. OnlySuccessStays'
  BY <1>1 DEF PlanInv, OnlySuccessStays
<1>4. \A x \in Requests : \A s \in stopQueue'[x] : s \in stopQueue[x] /\ pc'[x] = "superseding"
  BY <1>1 DEF PlanInv, ListsOlder, Listed
<1>5. sessions' \subseteq Requests
  BY DEF TypeOK
<1>6. CASE Requests = {}
  BY <1>1, <1>2, <1>5, <1>6 DEF PlanInv, TitlesKnown, TakenOnce, Descent, ListsOlder,
     OnlySuccessStays, ListsAll, ResolvedDescend, Descendants
<1>7. ASSUME NEW r \in Requests PROVE PlanInv'
  BY <1>1, <1>2, <1>3, <1>4, <1>5, OrderKeeps
<1> QED
  BY <1>6, <1>7

\* One operation moves, neither takes a title nor lists anything, and is answered with
\* success only if its commit was accepted or it is a replace or handoff.
LEMMA MoveOrder ==
  ASSUME TypeOK, TypeOK', PlanInv, NEW r \in Requests, NEW b, Goto(r, b),
         UNCHANGED <<req, stopQueue, progressGen>>, sessions' \ {r} \subseteq sessions,
         resolvedHandoffs' \subseteq resolvedHandoffs \cup Descendants,
         \A x \in Requests : x # r => (x \in ok' <=> x \in ok),
         pc[r] \notin {"idle", "done", "superseding"}, b \notin {"idle", "accepted", "superseding"},
         b = "done" => /\ r \in sessions' => r \in sessions
                       /\ r \in ok' => \/ req[r].op \in {"replace", "handoff"}
                                       \/ req[r].op = "seek" /\ CommitAccepted(r),
         b \in SettledPcs /\ r \in sessions' => r \in ok'
  PROVE  PlanInv'
<1>1. pc'[r] = b /\ \A x \in Requests : x # r => pc'[x] = pc[x]
  BY GotoFacts
<1>2. \A x \in Requests : Known(x) => Known(x)'
  BY <1>1 DEF Known
<1>3. \A x \in Requests : x # r => /\ Taken(x)' <=> Taken(x)
                                   /\ Ruling(x)' <=> Ruling(x)
                                   /\ Current(x)' <=> Current(x)
  BY <1>1 DEF Known, Taken, Ruling, Current
<1>4. ~Taken(r)' /\ ~Ruling(r)'
  BY <1>1 DEF Known, Taken, Ruling
<1>5. Current(r)' => b = "done" /\ CommitAccepted(r) /\ r \in ok'
  BY <1>1, <1>4 DEF Known, Current
<1>6. sessions' \subseteq Requests /\ \A x \in sessions' : x # r => x \in sessions
  BY DEF TypeOK
<1>7. OnlySuccessStays'
  BY <1>1, <1>6 DEF PlanInv, OnlySuccessStays
<1>8. \A x \in Requests : \A s \in stopQueue'[x] : s \in stopQueue[x] /\ pc'[x] = "superseding"
  BY <1>1 DEF PlanInv, ListsOlder, Listed
<1>9. \A k \in Viewers \X Catalogs : progressGen[k] <= progressGen'[k]
  BY DEF TypeOK
<1>10. Current(r)' => progressGen[<<req[r].viewer, req[r].catalog>>] <= req[r].progress
  BY <1>5 DEF CommitAccepted, TypeOK
<1>11. \A x \in sessions' : Current(x)' => x \in sessions /\
         (Current(x) \/ progressGen[<<req[x].viewer, req[x].catalog>>] <= req[x].progress)
  BY <1>3, <1>5, <1>6, <1>10
<1>12. \A x \in sessions' : Ruling(x)' => Ruling(x) /\ x \in sessions
  BY <1>3, <1>4, <1>6
<1>13. \A x \in Requests : Taken(x)' => Taken(x)
  BY <1>3, <1>4
<1>14. \A x \in Requests : pc[x] = "idle" <=> pc'[x] = "idle"
  BY <1>1
<1> QED
  BY <1>2, <1>7, <1>8, <1>9, <1>11, <1>12, <1>13, <1>14, OrderKeeps

\* An operation is issued: for a title, or on the session of an answered operation.
LEMMA IssueOrder ==
  ASSUME TypeOK, TypeOK', PlanInv, ReplaceInv, NEW r \in Requests, pc[r] = "idle", Goto(r, "issued"),
         \A x \in Requests : x # r => req'[x] = req[x],
         UNCHANGED <<ok, sessions, stopQueue, progressGen, resolvedHandoffs>>,
         req'[r].op # "none",
         \/ req'[r].old = None /\ req'[r].viewer \in Viewers /\ req'[r].catalog \in Catalogs
         \/ \E s \in Requests : /\ Known(s) /\ req[s].op \in {"plan", "seek", "replace", "handoff"}
                               /\ req'[r].old = s /\ req'[r].viewer = req[s].viewer
                               /\ req'[r].catalog = req[s].catalog /\ req'[r].progress = req[s].progress
  PROVE  PlanInv'
<1>1. pc'[r] = "issued" /\ \A x \in Requests : x # r => pc'[x] = pc[x]
  BY GotoFacts
<1>2. \A x \in Requests : x # r => /\ Taken(x)' <=> Taken(x)
                                   /\ Ruling(x)' <=> Ruling(x)
                                   /\ Current(x)' <=> Current(x)
                                   /\ Known(x)' <=> Known(x)
  BY <1>1 DEF Known, Taken, Ruling, Current
<1>3. ~Taken(r)' /\ ~Ruling(r)' /\ ~Current(r)' /\ ~Known(r)
  BY <1>1 DEF Known, Taken, Ruling, Current
<1>4. sessions \subseteq Requests /\ \A x \in Requests : stopQueue[x] \subseteq Requests
  BY DEF TypeOK
<1>5. TitlesKnown'
  BY <1>1 DEF PlanInv, TitlesKnown, Known
<1>6. TakenOnce'
  BY <1>2, <1>3 DEF PlanInv, TakenOnce, Kin, SameTitle
<1>7. Descent'
  <2>1. ASSUME NEW x \in Requests, x # r, req'[x].old # None
        PROVE  /\ Kin(req[x].old, x)'
               /\ \E p \in Requests : req'[p].op = "plan" /\ Known(p)' /\ Kin(p, x)'
    <3>1. req[x].old # None /\ req[x].old \in Requests
      BY <2>1 DEF TypeOK
    <3>2. req[x].old # r
      BY <3>1, ReplaceParts DEF OldOK
    <3>3. PICK p \in Requests : req[p].op = "plan" /\ Known(p) /\ Kin(p, x)
      BY <3>1 DEF PlanInv, Descent
    <3>4. p # r /\ Known(p)'
      BY <1>2, <1>3, <3>3
    <3>5. Kin(p, x)' /\ req'[p].op = "plan"
      BY <2>1, <3>3, <3>4 DEF Kin, SameTitle
    <3>6. Kin(req[x].old, x)
      BY <3>1 DEF PlanInv, Descent
    <3>7. Kin(req[x].old, x)'
      BY <2>1, <3>1, <3>2, <3>6 DEF Kin, SameTitle
    <3> QED
      BY <3>4, <3>5, <3>7
  <2>2. ASSUME req'[r].old # None
        PROVE  /\ Kin(req[r].old, r)'
               /\ \E p \in Requests : req'[p].op = "plan" /\ Known(p)' /\ Kin(p, r)'
    <3>1. PICK s \in Requests : /\ Known(s) /\ req[s].op \in {"plan", "seek", "replace", "handoff"}
                               /\ req'[r].old = s /\ req'[r].viewer = req[s].viewer
                               /\ req'[r].catalog = req[s].catalog /\ req'[r].progress = req[s].progress
      BY <2>2
    <3>2. s # r /\ req'[s] = req[s]
      BY <1>3, <3>1
    <3>3. PICK p \in Requests : req[p].op = "plan" /\ Known(p) /\ Kin(p, s)
      <4>1. CASE req[s].op = "plan"
        BY <3>1, <4>1 DEF Kin, SameTitle
      <4>2. CASE req[s].op # "plan"
        <5>1. req[s].old # None
          BY <3>1, <4>2, ReplaceParts DEF OldOK
        <5> QED
          BY <5>1 DEF PlanInv, Descent
      <4> QED
        BY <4>1, <4>2
    <3>4. p # r /\ Known(p)' /\ req'[p] = req[p]
      BY <1>2, <1>3, <3>3
    <3>5. Kin(p, r)'
      BY <3>1, <3>3, <3>4 DEF Kin, SameTitle
    <3>6. Kin(req[r].old, r)'
      BY <3>1, <3>2 DEF Kin, SameTitle
    <3> QED
      BY <3>3, <3>4, <3>5, <3>6
  <2> QED
    BY <2>1, <2>2 DEF Descent
<1>11. ResolvedDescend'
  BY <1>1 DEF PlanInv, ResolvedDescend, Descendants
<1>8. ListsOlder'
  BY <1>1, <1>4 DEF PlanInv, ListsOlder, Listed, SameTitle
<1>9. OnlySuccessStays'
  BY <1>1, <1>4 DEF PlanInv, OnlySuccessStays, SettledPcs
<1>10. ListsAll'
  BY <1>2, <1>3, <1>4 DEF PlanInv, ListsAll, SameTitle
<1> QED
  BY <1>5, <1>6, <1>7, <1>8, <1>9, <1>10, <1>11 DEF PlanInv

\* A plan wins the compare and swap.
LEMMA BeginOrder ==
  ASSUME TypeOK, TypeOK', PlanInv, NEW r \in Requests, BeginPlayback(r)
  PROVE  PlanInv'
<1>1. /\ pc[r] = "created" /\ pc'[r] = "accepted" /\ \A x \in Requests : x # r => pc'[x] = pc[x]
      /\ UNCHANGED <<req, ok, sessions, stopQueue, resolvedHandoffs>>
  BY GotoFacts DEF BeginPlayback, lifeVars, resolveVars
<1>2. \A x \in Requests : x # r => /\ Taken(x)' <=> Taken(x)
                                   /\ Ruling(x)' <=> Ruling(x)
                                   /\ Current(x)' <=> Current(x)
                                   /\ Known(x)' <=> Known(x)
  BY <1>1 DEF Known, Taken, Ruling, Current
<1>3. ~Ruling(r)' /\ ~Known(r)
  BY <1>1 DEF Known, Ruling
<1>4. <<req[r].viewer, req[r].catalog>> \in Viewers \X Catalogs
  BY <1>1 DEF PlanInv, TitlesKnown
<1>5. /\ progressGen[<<req[r].viewer, req[r].catalog>>] \in Nat
      /\ progressGen[<<req[r].viewer, req[r].catalog>>] + 1 = req[r].progress
      /\ progressGen'[<<req[r].viewer, req[r].catalog>>] = req[r].progress
      /\ \A k \in Viewers \X Catalogs : progressGen[k] <= progressGen'[k]
  <2>1. PICK key : key = <<req[r].viewer, req[r].catalog>>
    OBVIOUS
  <2>2. /\ key \in Viewers \X Catalogs /\ progressGen[key] + 1 = req[r].progress
        /\ progressGen' = [progressGen EXCEPT ![key] = req[r].progress]
    BY <1>4, <2>1 DEF BeginPlayback
  <2>3. progressGen \in [Viewers \X Catalogs -> Nat] /\ req[r].progress \in Nat
    BY DEF TypeOK
  <2>4. progressGen'[key] = req[r].progress /\ progressGen[key] \in Nat
    BY <2>2, <2>3
  <2>5. \A k \in Viewers \X Catalogs : k # key => progressGen'[k] = progressGen[k]
    BY <2>2, <2>3
  <2>6. \A k \in Viewers \X Catalogs : progressGen[k] <= progressGen'[k]
    BY <2>2, <2>3, <2>4, <2>5
  <2> QED
    BY <2>1, <2>2, <2>4, <2>6
<1>6. sessions \subseteq Requests
  BY DEF TypeOK
<1>7. OnlySuccessStays'
  BY <1>1, <1>6 DEF PlanInv, OnlySuccessStays, SettledPcs
<1>8. \A x \in Requests : \A s \in stopQueue'[x] : s \in stopQueue[x] /\ pc'[x] = "superseding"
  BY <1>1 DEF PlanInv, ListsOlder, Listed
<1>9. /\ progressGen[<<req[r].viewer, req[r].catalog>>] < req[r].progress
      /\ progressGen[<<req[r].viewer, req[r].catalog>>] <= req[r].progress
      /\ req[r].progress <= progressGen'[<<req[r].viewer, req[r].catalog>>]
  BY <1>5
<1>10. \A x \in Requests : pc[x] = "idle" <=> pc'[x] = "idle"
  BY <1>1
<1> QED
  BY <1>1, <1>2, <1>3, <1>5, <1>6, <1>7, <1>8, <1>9, <1>10, OrderKeeps

\* A plan lists the older sessions of its title.
LEMMA ListOrder ==
  ASSUME TypeOK, TypeOK', PlanInv, ReplaceInv, LeaseInv, NEW r \in Requests, StopSupersededPlans(r)
  PROVE  PlanInv'
<1>1. /\ pc[r] = "accepted" /\ pc'[r] = "superseding" /\ \A x \in Requests : x # r => pc'[x] = pc[x]
      /\ UNCHANGED <<req, ok, sessions, progressGen, resolvedHandoffs>>
  BY GotoFacts DEF StopSupersededPlans, lifeVars, resolveVars
<1>2. /\ stopQueue'[r] = IF r \in sessions THEN Superseded(r) ELSE {}
      /\ \A x \in Requests : x # r => stopQueue'[x] = stopQueue[x]
  BY DEF StopSupersededPlans, TypeOK
<1>3. \A x \in Requests : /\ Taken(x)' <=> Taken(x)
                          /\ Current(x)' <=> Current(x)
                          /\ Known(x)' <=> Known(x)
                          /\ x # r => (Ruling(x)' <=> Ruling(x))
  BY <1>1 DEF Known, Taken, Ruling, Current
<1>4. sessions \subseteq Requests /\ \A x \in Requests : stopQueue[x] \subseteq Requests
  BY DEF TypeOK
<1>5. TitlesKnown' /\ Descent' /\ TakenOnce' /\ ResolvedDescend'
  BY <1>1, <1>3 DEF PlanInv, TitlesKnown, Descent, TakenOnce, Kin, SameTitle, ResolvedDescend,
     Descendants
<1>6. ListsOlder'
  <2>1. ASSUME NEW s \in stopQueue'[r] PROVE Listed(r, s)'
    <3>1. s \in Superseded(r) /\ s \in sessions
      BY <1>2 DEF Superseded
    <3>2. pc[s] # "idle"
      BY <3>1, Places DEF LeaseInv
    <3> QED
      BY <1>1, <1>4, <3>1, <3>2 DEF Superseded, Listed, SameTitle
  <2>2. ASSUME NEW x \in Requests, x # r, NEW s \in stopQueue'[x] PROVE Listed(x, s)'
    BY <1>1, <1>2, <1>4, <2>2 DEF PlanInv, ListsOlder, Listed, SameTitle
  <2> QED
    BY <2>1, <2>2 DEF ListsOlder
<1>7. OnlySuccessStays'
  BY <1>1, <1>4 DEF PlanInv, OnlySuccessStays, SettledPcs
<1>8. ListsAll'
  <2> SUFFICES ASSUME NEW x \in sessions, NEW y \in sessions, Ruling(x)', Current(y), SameTitle(x, y),
                      req[y].progress < req[x].progress
               PROVE  y \in stopQueue'[x]
    BY <1>1, <1>3, <1>4 DEF ListsAll, SameTitle
  <2>1. CASE x = r
    <3>1. req[x].progress \in Nat /\ req[y].progress \in Nat
      BY <1>4 DEF TypeOK
    <3> QED
      BY <1>2, <2>1, <3>1 DEF Superseded, SameTitle
  <2>2. CASE x # r
    BY <1>2, <1>3, <1>4, <2>2 DEF PlanInv, ListsAll
  <2> QED
    BY <2>1, <2>2
<1> QED
  BY <1>5, <1>6, <1>7, <1>8 DEF PlanInv

\* A plan that has stopped everything it listed is answered.
LEMMA AnswerOrder ==
  ASSUME TypeOK, TypeOK', PlanInv, ReplaceInv, NEW r \in Requests, PlanAnswered(r)
  PROVE  PlanInv'
<1>1. /\ pc[r] = "superseding" /\ pc'[r] = "done" /\ \A x \in Requests : x # r => pc'[x] = pc[x]
      /\ UNCHANGED <<req, ok, sessions, stopQueue, progressGen, resolvedHandoffs>>
      /\ stopQueue[r] = {}
  BY GotoFacts DEF PlanAnswered, lifeVars, otherVars, resolveVars
<1>2. req[r].op = "plan" /\ r \in ok
  BY <1>1, ReplaceParts DEF OldOK, RoleOK, OkOK
<1>3. \A x \in Requests : /\ Known(x) => Known(x)'
                          /\ Taken(x)' <=> Taken(x)
                          /\ Ruling(x)' <=> Ruling(x)
                          /\ Current(x)' <=> Current(x)
  BY <1>1, <1>2 DEF Known, Taken, Ruling, Current
<1>4. sessions \subseteq Requests
  BY DEF TypeOK
<1>5. OnlySuccessStays'
  BY <1>1, <1>2, <1>4 DEF PlanInv, OnlySuccessStays
<1>6. \A x \in Requests : \A s \in stopQueue'[x] : s \in stopQueue[x] /\ pc'[x] = "superseding"
  BY <1>1 DEF PlanInv, ListsOlder, Listed
<1>7. \A k \in Viewers \X Catalogs : progressGen[k] <= progressGen'[k]
  BY <1>1 DEF TypeOK
<1>8. \A x \in Requests : pc[x] = "idle" <=> pc'[x] = "idle"
  BY <1>1
<1> QED
  BY <1>1, <1>3, <1>4, <1>5, <1>6, <1>7, <1>8, OrderKeeps

\* A move that leaves the sessions and the successes alone.
LEMMA MoveStill ==
  ASSUME TypeOK, TypeOK', PlanInv, LeaseInv, NEW r \in Requests, NEW b, Goto(r, b),
         UNCHANGED <<req, ok, sessions, stopQueue, progressGen, resolvedHandoffs>>,
         pc[r] \notin {"idle", "done", "superseding"}, b \notin {"idle", "accepted", "superseding"},
         b = "done" /\ r \in ok =>
           (req[r].op \in {"replace", "handoff"} \/ (req[r].op = "seek" /\ CommitAccepted(r))),
         b \in SettledPcs => (pc[r] \in SettledPcs \/ pc[r] \notin AdmittedPcs \/ r \in ok)
  PROVE  PlanInv'
<1>1. b \in SettledPcs /\ r \in sessions => r \in ok
  BY DEF PlanInv, OnlySuccessStays, LeaseInv
<1> QED
  BY <1>1, MoveOrder

\* What is pruned from a set of resolved handoffs leaves a part of it.
LEMMA PrunedWithin ==
  ASSUME NEW R, NEW expiry, NEW K \in Pruned(R, expiry)
  PROVE  K \subseteq R
BY DEF Pruned, Latest

LEMMA StopForViewerPrunes ==
  ASSUME NEW id, StopForViewer(id)
  PROVE  resolvedHandoffs' \subseteq resolvedHandoffs
BY PrunedWithin DEF StopForViewer

\* A move of an operation that ends sessions, its own at least.
LEMMA MoveStops ==
  ASSUME TypeOK, TypeOK', PlanInv, AccountInv, NEW r \in Requests, NEW b, Goto(r, b), StopForViewer(r),
         UNCHANGED <<req, stopQueue, progressGen>>,
         \A x \in Requests : x # r => (x \in ok' <=> x \in ok),
         pc[r] \notin {"idle", "done", "superseding"}, b \notin {"idle", "accepted", "superseding"},
         b = "done" => r \notin ok'
  PROVE  PlanInv'
<1>1. sessions' \subseteq sessions /\ r \notin sessions'
  BY StopForViewerShrinks DEF LifeShrinks
<1> QED
  BY <1>1, StopForViewerPrunes, MoveOrder

\* An answered operation is one of the four the manager has.
LEMMA RequestsHaveOps ==
  ASSUME TypeOK, PlanInv, NEW s \in Requests, Known(s)
  PROVE  req[s].op \in {"plan", "seek", "replace", "handoff"}
BY DEF TypeOK, PlanInv, TitlesKnown, Known, OpNames

\* A step of nobody's control that leaves lists and generations alone.
LEMMA BystanderStill ==
  ASSUME TypeOK, TypeOK', PlanInv, UNCHANGED <<clientVars, stopQueue, progressGen>>,
         sessions' \subseteq sessions,
         resolvedHandoffs' \subseteq resolvedHandoffs \cup Descendants
  PROVE  PlanInv'
<1>1. \A k \in Viewers \X Catalogs : progressGen[k] <= progressGen'[k]
  BY DEF TypeOK
<1> QED
  BY <1>1, BystanderOrder

\* Every step keeps the order of plans.
LEMMA PlanStep ==
  TypeOK /\ LeaseInv /\ AccountInv /\ ReplaceInv /\ PlanInv /\ [Next]_vars => PlanInv'
<1> SUFFICES ASSUME TypeOK, LeaseInv, AccountInv, ReplaceInv, PlanInv, [Next]_vars PROVE PlanInv'
  OBVIOUS
<1> TypeOK'
  BY TypeStep
<1>0. handoffs \subseteq Descendants
  BY ReplaceParts DEF HandoffOK, OldOK, Descendants, TypeOK
<1>1. ASSUME NEW r \in Requests, NEW v \in Viewers, NEW c \in Catalogs,
             NEW p \in Plans \cup {Direct}, Plan(r, v, c, p)
      PROVE PlanInv'
  <2>1. /\ \A x \in Requests : x # r => req'[x] = req[x]
        /\ req'[r].op # "none" /\ req'[r].old = None /\ req'[r].viewer \in Viewers /\ req'[r].catalog \in Catalogs
    BY <1>1 DEF Plan, TypeOK
  <2>2. pc[r] = "idle" /\ Goto(r, "issued") /\ UNCHANGED <<ok, sessions, stopQueue, progressGen, resolvedHandoffs>>
    BY <1>1 DEF Plan, lifeVars, otherVars, resolveVars
  <2> QED
    BY <2>1, <2>2, IssueOrder
<1>2. ASSUME NEW r \in Requests, NEW s \in Requests, Seek(r, s)
      PROVE PlanInv'
  <2>1. Known(s) /\ pc[r] = "idle" /\ Goto(r, "issued") /\ UNCHANGED <<ok, sessions, stopQueue, progressGen, resolvedHandoffs>>
    BY <1>2 DEF Seek, lifeVars, otherVars, resolveVars
  <2>2. req[s].op \in {"plan", "seek", "replace", "handoff"}
    BY <2>1, RequestsHaveOps
  <2>3. /\ \A x \in Requests : x # r => req'[x] = req[x]
        /\ req'[r].op # "none" /\ req'[r].old = s /\ req'[r].viewer = req[s].viewer
        /\ req'[r].catalog = req[s].catalog /\ req'[r].progress = req[s].progress
    BY <1>2 DEF Seek, Replacing, TypeOK
  <2> QED
    BY <2>1, <2>2, <2>3, IssueOrder
<1>3. ASSUME NEW r \in Requests, NEW s \in Requests, NEW p \in Plans \cup {Direct}, Replace(r, s, p)
      PROVE PlanInv'
  <2>1. Known(s) /\ pc[r] = "idle" /\ Goto(r, "issued") /\ UNCHANGED <<ok, sessions, stopQueue, progressGen, resolvedHandoffs>>
    BY <1>3 DEF Replace, ReserveSource, lifeVars, otherVars, resolveVars
  <2>2. req[s].op \in {"plan", "seek", "replace", "handoff"}
    BY <2>1, RequestsHaveOps
  <2>3. /\ \A x \in Requests : x # r => req'[x] = req[x]
        /\ req'[r].op # "none" /\ req'[r].old = s /\ req'[r].viewer = req[s].viewer
        /\ req'[r].catalog = req[s].catalog /\ req'[r].progress = req[s].progress
    BY <1>3 DEF Replace, ReserveSource, Replacing, TypeOK
  <2> QED
    BY <2>1, <2>2, <2>3, IssueOrder
<1>4. ASSUME NEW r \in Requests, NEW s \in Requests, NEW p \in Plans \cup {Direct}, PrepareHandoff(r, s, p)
      PROVE PlanInv'
  <2>1. Known(s) /\ pc[r] = "idle" /\ Goto(r, "issued") /\ UNCHANGED <<ok, sessions, stopQueue, progressGen, resolvedHandoffs>>
    BY <1>4 DEF PrepareHandoff, ReserveSource, lifeVars, otherVars, resolveVars
  <2>2. req[s].op \in {"plan", "seek", "replace", "handoff"}
    BY <2>1, RequestsHaveOps
  <2>3. /\ \A x \in Requests : x # r => req'[x] = req[x]
        /\ req'[r].op # "none" /\ req'[r].old = s /\ req'[r].viewer = req[s].viewer
        /\ req'[r].catalog = req[s].catalog /\ req'[r].progress = req[s].progress
    BY <1>4 DEF PrepareHandoff, ReserveSource, Replacing, TypeOK
  <2> QED
    BY <2>1, <2>2, <2>3, IssueOrder
<1>5. ASSUME NEW r \in Requests, Enter(r) PROVE PlanInv'
  <2>1. pc[r] = "issued" /\ Goto(r, "entered") /\ UNCHANGED <<req, ok, sessions, stopQueue, progressGen, resolvedHandoffs>>
    BY <1>5 DEF Enter, lifeVars, otherVars, resolveVars
  <2> QED
    BY <2>1, Places, MoveStill DEF SettledPcs
<1>6. ASSUME NEW r \in Requests, EnterRefused(r) PROVE PlanInv'
  <2>1. pc[r] = "issued" /\ r \notin ok /\ Goto(r, FailedLabel(r)) /\ UNCHANGED <<req, ok, sessions, stopQueue, progressGen, resolvedHandoffs>>
    BY <1>6, ReplaceParts DEF EnterRefused, lifeVars, otherVars, resolveVars, OkOK, LatePcs
  <2> QED
    BY <2>1, Places, MoveStill DEF SettledPcs, FailedLabel
<1>7. ASSUME NEW r \in Requests, CreateDirect(r) PROVE PlanInv'
  <2>1. /\ pc[r] = "entered" /\ Goto(r, "finishing") /\ UNCHANGED <<req, stopQueue, progressGen, resolvedHandoffs>>
        /\ sessions' = sessions \cup {r} /\ ok' = ok \cup {r}
    BY <1>7 DEF CreateDirect, otherVars, resolveVars
  <2> QED
    BY <2>1, MoveOrder
<1>8. ASSUME NEW r \in Requests, NEW g \in Requests, ShareGeneration(r, g) PROVE PlanInv'
  <2>1. /\ pc[r] = "entered" /\ Goto(r, "finishing") /\ UNCHANGED <<req, stopQueue, progressGen, resolvedHandoffs>>
        /\ sessions' = sessions \cup {r} /\ ok' = ok \cup {r}
    BY <1>8 DEF ShareGeneration, otherVars, resolveVars
  <2> QED
    BY <2>1, MoveOrder
<1>9. ASSUME NEW r \in Requests, Reserve(r) PROVE PlanInv'
  <2>1. pc[r] = "entered" /\ Goto(r, "reserved") /\ UNCHANGED <<req, ok, sessions, stopQueue, progressGen, resolvedHandoffs>>
    BY <1>9 DEF Reserve, lifeVars, otherVars, resolveVars
  <2> QED
    BY <2>1, Places, MoveStill DEF SettledPcs
<1>10. ASSUME NEW r \in Requests, CreateRefused(r) PROVE PlanInv'
  <2>1. pc[r] = "entered" /\ Goto(r, "finishing") /\ UNCHANGED <<req, ok, sessions, stopQueue, progressGen, resolvedHandoffs>>
    BY <1>10 DEF CreateRefused, lifeVars, otherVars, resolveVars
  <2> QED
    BY <2>1, Places, MoveStill DEF SettledPcs
<1>11. ASSUME NEW r \in Requests, InstallInputs(r) PROVE PlanInv'
  <2>1. pc[r] = "reserved" /\ Goto(r, "starting") /\ UNCHANGED <<req, ok, sessions, stopQueue, progressGen, resolvedHandoffs>>
    BY <1>11 DEF InstallInputs, lifeVars, otherVars, resolveVars
  <2> QED
    BY <2>1, Places, MoveStill DEF SettledPcs
<1>12. ASSUME NEW r \in Requests, InstallFails(r) PROVE PlanInv'
  <2>1. pc[r] = "reserved" /\ Goto(r, "aborting") /\ UNCHANGED <<req, ok, sessions, stopQueue, progressGen, resolvedHandoffs>>
    BY <1>12 DEF InstallFails, lifeVars, otherVars, resolveVars
  <2> QED
    BY <2>1, Places, MoveStill DEF SettledPcs
<1>13. ASSUME NEW r \in Requests, StartProcess(r) PROVE PlanInv'
  <2>1. pc[r] = "starting" /\ Goto(r, "started") /\ UNCHANGED <<req, ok, sessions, stopQueue, progressGen, resolvedHandoffs>>
    BY <1>13 DEF StartProcess, lifeVars, otherVars, resolveVars
  <2> QED
    BY <2>1, Places, MoveStill DEF SettledPcs
<1>14. ASSUME NEW r \in Requests, StartFails(r) PROVE PlanInv'
  <2>1. pc[r] = "starting" /\ Goto(r, "aborting") /\ UNCHANGED <<req, ok, sessions, stopQueue, progressGen, resolvedHandoffs>>
    BY <1>14 DEF StartFails, lifeVars, otherVars, resolveVars
  <2> QED
    BY <2>1, Places, MoveStill DEF SettledPcs
<1>15. ASSUME NEW r \in Requests, Abort(r) PROVE PlanInv'
  <2>1. pc[r] = "aborting" /\ Goto(r, "finishing") /\ UNCHANGED <<req, ok, sessions, stopQueue, progressGen, resolvedHandoffs>>
    BY <1>15 DEF Abort, lifeVars, otherVars, resolveVars
  <2> QED
    BY <2>1, Places, MoveStill DEF SettledPcs
<1>16. ASSUME NEW r \in Requests, Admit(r) PROVE PlanInv'
  <2>1. /\ pc[r] = "started" /\ UNCHANGED <<req, ok, stopQueue, progressGen, resolvedHandoffs>> /\ sessions' = sessions \cup {r}
        /\ Goto(r, IF ManifestWait = 0 THEN "manifest" ELSE "waiting")
    BY <1>16 DEF Admit, otherVars, resolveVars
  <2> QED
    BY <2>1, MoveOrder DEF SettledPcs
<1>17. ASSUME NEW r \in Requests, AdmitRefused(r) PROVE PlanInv'
  <2>1. pc[r] = "started" /\ Goto(r, "discarding") /\ UNCHANGED <<req, ok, sessions, stopQueue, progressGen, resolvedHandoffs>>
    BY <1>17 DEF AdmitRefused, lifeVars, otherVars, resolveVars
  <2> QED
    BY <2>1, Places, MoveStill DEF SettledPcs
<1>18. ASSUME NEW r \in Requests, Discard(r) PROVE PlanInv'
  <2>1. pc[r] = "discarding" /\ Goto(r, "retiring") /\ UNCHANGED <<req, ok, sessions, stopQueue, progressGen, resolvedHandoffs>>
    BY <1>18 DEF Discard, lifeVars, otherVars, resolveVars
  <2> QED
    BY <2>1, Places, MoveStill DEF SettledPcs
<1>19. ASSUME NEW r \in Requests, Discarded(r) PROVE PlanInv'
  <2>1. pc[r] = "retiring" /\ Goto(r, "finishing") /\ UNCHANGED <<req, ok, sessions, stopQueue, progressGen, resolvedHandoffs>>
    BY <1>19 DEF Discarded, lifeVars, otherVars, resolveVars
  <2> QED
    BY <2>1, Places, MoveStill DEF SettledPcs
<1>20. ASSUME NEW r \in Requests, ManifestWritten(r) PROVE PlanInv'
  <2>1. pc[r] = "waiting" /\ Goto(r, "manifest") /\ UNCHANGED <<req, ok, sessions, stopQueue, progressGen, resolvedHandoffs>>
    BY <1>20 DEF ManifestWritten, lifeVars, otherVars, resolveVars
  <2> QED
    BY <2>1, Places, MoveStill DEF SettledPcs
<1>21. ASSUME NEW r \in Requests, ManifestFails(r) PROVE PlanInv'
  <2>1. /\ pc[r] = "waiting" /\ Goto(r, "abandoned") /\ StopForViewer(r)
        /\ UNCHANGED <<req, stopQueue, progressGen>> /\ UNCHANGED ok
    BY <1>21 DEF ManifestFails, otherVars
  <2> QED
    BY <2>1, MoveStops
<1>22. ASSUME NEW r \in Requests, Abandon(r) PROVE PlanInv'
  <2>1. pc[r] = "abandoned" /\ Goto(r, "finishing") /\ UNCHANGED <<req, ok, sessions, stopQueue, progressGen, resolvedHandoffs>>
    BY <1>22 DEF Abandon, lifeVars, otherVars, resolveVars
  <2> QED
    BY <2>1, Places, MoveStill DEF SettledPcs
<1>23. ASSUME NEW r \in Requests, ConfirmAdmission(r) PROVE PlanInv'
  <2>1. /\ pc[r] = "manifest" /\ UNCHANGED <<req, sessions, stopQueue, progressGen, resolvedHandoffs>>
        /\ \/ Goto(r, "finishing") /\ ok' = ok \cup {r}
           \/ Goto(r, "rejected") /\ UNCHANGED ok
    BY <1>23 DEF ConfirmAdmission, lifeVars, otherVars, resolveVars
  <2> QED
    BY <2>1, MoveOrder DEF SettledPcs
<1>24. ASSUME NEW r \in Requests, Reject(r) PROVE PlanInv'
  <2>1. /\ pc[r] = "rejected" /\ Goto(r, "unlinking") /\ StopForViewer(r)
        /\ UNCHANGED <<req, stopQueue, progressGen>> /\ UNCHANGED ok
    BY <1>24 DEF Reject, otherVars
  <2> QED
    BY <2>1, MoveStops
<1>25. ASSUME NEW r \in Requests, Unlink(r) PROVE PlanInv'
  <2>1. pc[r] = "unlinking" /\ Goto(r, "finishing") /\ UNCHANGED <<req, ok, sessions, stopQueue, progressGen, resolvedHandoffs>>
    BY <1>25 DEF Unlink, lifeVars, otherVars, resolveVars
  <2> QED
    BY <2>1, Places, MoveStill DEF SettledPcs
<1>26. ASSUME NEW r \in Requests, FinishViewerCreate(r) PROVE PlanInv'
  <2>1. pc[r] = "finishing" /\ Goto(r, IF r \in ok THEN "created" ELSE FailedLabel(r)) /\ UNCHANGED <<req, ok, sessions, stopQueue, progressGen, resolvedHandoffs>>
    BY <1>26 DEF FinishViewerCreate, lifeVars, otherVars, resolveVars
  <2>2. CASE r \in ok
    BY <2>1, <2>2, MoveStill DEF SettledPcs
  <2>3. CASE r \notin ok
    BY <2>1, <2>3, MoveStill DEF SettledPcs, FailedLabel
  <2> QED
    BY <2>2, <2>3
<1>27. ASSUME NEW r \in Requests, BeginPlayback(r) PROVE PlanInv'
  BY <1>27, BeginOrder
<1>28. ASSUME NEW r \in Requests, PlanDropped(r) PROVE PlanInv'
  <2>1. /\ pc[r] \in {"created", "accepted"} /\ Goto(r, "done") /\ StopForViewer(r)
        /\ UNCHANGED <<req, stopQueue, progressGen>> /\ ok' = ok \ {r}
    BY <1>28 DEF PlanDropped, otherVars
  <2> QED
    BY <2>1, MoveStops
<1>29. ASSUME NEW r \in Requests, StopSupersededPlans(r) PROVE PlanInv'
  BY <1>29, ListOrder
<1>30. ASSUME NEW r \in Requests, PlanAnswered(r) PROVE PlanInv'
  BY <1>30, AnswerOrder
<1>31. ASSUME NEW r \in Requests, SeekPromoted(r) PROVE PlanInv'
  <2>1. /\ pc[r] = "created" /\ req[r].op = "seek" /\ CommitAccepted(r) /\ Goto(r, "done")
        /\ UNCHANGED <<req, ok, sessions, stopQueue, progressGen, resolvedHandoffs>>
    BY <1>31 DEF SeekPromoted, lifeVars, otherVars, resolveVars
  <2>2. r \in ok
    BY <2>1, ReplaceParts DEF OkOK
  <2> QED
    BY <2>1, <2>2, MoveStill
<1>32. ASSUME NEW r \in Requests, SeekSwapped(r) PROVE PlanInv'
  <2>1. /\ pc[r] = "created" /\ req[r].op = "seek" /\ CommitAccepted(r) /\ Goto(r, "done")
        /\ UNCHANGED <<req, ok, stopQueue, progressGen, resolvedHandoffs>> /\ sessions' \subseteq sessions
    BY <1>32 DEF SeekSwapped, StopSessions, otherVars, resolveVars
  <2>2. r \in ok
    BY <2>1, ReplaceParts DEF OkOK
  <2> QED
    BY <2>1, <2>2, MoveOrder
<1>33. ASSUME NEW r \in Requests, SeekDropped(r) PROVE PlanInv'
  <2>1. pc[r] = "created" /\ Goto(r, "dropping") /\ UNCHANGED <<req, ok, sessions, stopQueue, progressGen, resolvedHandoffs>>
    BY <1>33 DEF SeekDropped, lifeVars, otherVars, resolveVars
  <2> QED
    BY <2>1, Places, MoveStill DEF SettledPcs
<1>34. ASSUME NEW r \in Requests, DropCandidate(r) PROVE PlanInv'
  <2>1. /\ pc[r] = "dropping" /\ StopForViewer(r) /\ UNCHANGED <<req, stopQueue, progressGen>>
        /\ \/ Goto(r, "done") /\ ok' = ok \ {r}
           \/ Goto(r, "cleanupFailed") /\ UNCHANGED ok
    BY <1>34 DEF DropCandidate, otherVars
  <2> QED
    BY <2>1, MoveStops
<1>35. ASSUME NEW r \in Requests, ReplaceSwapped(r) PROVE PlanInv'
  <2>1. /\ pc[r] = "created" /\ Goto(r, "cleanupAccepted")
        /\ UNCHANGED <<req, ok, stopQueue, progressGen, resolvedHandoffs>> /\ sessions' \subseteq sessions
    BY <1>35 DEF ReplaceSwapped, StopSessions, lifeVars, otherVars, resolveVars
  <2> QED
    BY <2>1, MoveOrder DEF SettledPcs
<1>36. ASSUME NEW r \in Requests, HandoffActivated(r) PROVE PlanInv'
  <2>1. pc[r] = "created" /\ Goto(r, "cleanupAccepted") /\ UNCHANGED <<req, ok, sessions, stopQueue, progressGen, resolvedHandoffs>>
    BY <1>36 DEF HandoffActivated, lifeVars, otherVars, resolveVars
  <2> QED
    BY <2>1, Places, MoveStill DEF SettledPcs
<1>37. ASSUME NEW r \in Requests, HandoffPromoted(r) PROVE PlanInv'
  <2>1. /\ pc[r] = "created" /\ req[r].op = "handoff" /\ Goto(r, "cleanupAccepted")
        /\ UNCHANGED <<req, ok, sessions, stopQueue, progressGen>>
        /\ resolvedHandoffs' = resolvedHandoffs \cup {r}
    BY <1>37 DEF HandoffPromoted, lifeVars, otherVars
  <2>2. r \in Descendants
    BY <2>1, ReplaceParts DEF OldOK, Descendants
  <2> QED
    BY <2>1, <2>2, MoveOrder DEF SettledPcs
<1>38. ASSUME NEW r \in Requests, ReplacementDropped(r) PROVE PlanInv'
  <2>1. pc[r] = "created" /\ Goto(r, "dropping") /\ UNCHANGED <<req, ok, sessions, stopQueue, progressGen, resolvedHandoffs>>
    BY <1>38 DEF ReplacementDropped, lifeVars, otherVars, resolveVars
  <2> QED
    BY <2>1, Places, MoveStill DEF SettledPcs
<1>39. ASSUME NEW r \in Requests, Cleanup(r) PROVE PlanInv'
  <2>1. /\ pc[r] \in {"cleanupAccepted", "cleanupFailed"} /\ Goto(r, "done")
        /\ UNCHANGED <<req, sessions, stopQueue, progressGen, resolvedHandoffs>>
        /\ ok' = IF pc[r] = "cleanupFailed" THEN ok \ {r} ELSE ok
    BY <1>39 DEF Cleanup, lifeVars, otherVars, resolveVars
  <2>2. req[r].op \in {"replace", "handoff"}
    BY <2>1, ReplaceParts DEF OldOK, RoleOK
  <2>3. CASE pc[r] = "cleanupAccepted"
    <3>1. r \in ok
      BY <2>3, ReplaceParts DEF OkOK
    <3> QED
      BY <2>1, <2>2, <2>3, <3>1, MoveOrder
  <2>4. CASE pc[r] = "cleanupFailed"
    <3>1. r \notin sessions
      BY <2>4, ReplaceParts DEF OkOK, PlanInv, OnlySuccessStays, SettledPcs
    <3> QED
      BY <2>1, <2>2, <2>4, <3>1, MoveOrder
  <2> QED
    BY <2>1, <2>3, <2>4
<1>40. ASSUME NEW s \in Requests, SeekRetained(s) PROVE PlanInv'
  <2>1. UNCHANGED <<clientVars, stopQueue, progressGen, sessions, resolvedHandoffs>>
    BY <1>40 DEF SeekRetained, lifeVars, otherVars, resolveVars
  <2> QED
    BY <2>1, BystanderStill
<1>41. ASSUME NEW h \in Requests, NEW isAttached \in BOOLEAN, ResolveHandoff(h, isAttached)
      PROVE PlanInv'
  <2>1. PICK expiry : /\ UNCHANGED <<clientVars, stopQueue, progressGen>> /\ sessions' \subseteq sessions
                      /\ resolvedHandoffs' \in Pruned(resolvedHandoffs \cup {h}, expiry)
    BY <1>41 DEF ResolveHandoff, Resolve, StopSessions, lifeVars, otherVars
  <2>2. {h} \subseteq handoffs
    BY <1>41 DEF ResolveHandoff
  <2> QED
    BY <1>0, <2>1, <2>2, PrunedWithin, BystanderStill
<1>42. ASSUME NEW s \in Requests, ExpireHandoff(s) PROVE PlanInv'
  <2>1. PICK expiry : /\ UNCHANGED <<clientVars, stopQueue, progressGen>> /\ sessions' \subseteq sessions
                      /\ resolvedHandoffs' \in Pruned(resolvedHandoffs \cup {sessionHandoffs[s]}, expiry)
    BY <1>42 DEF ExpireHandoff, Resolve, StopSessions, lifeVars, otherVars
  <2>2. {sessionHandoffs[s]} \subseteq handoffs
    BY <1>42 DEF ExpireHandoff, HandoffExpired
  <2> QED
    BY <1>0, <2>1, <2>2, PrunedWithin, BystanderStill
<1>43. ASSUME NEW s \in Requests, Lookup(s) PROVE PlanInv'
  <2>1. UNCHANGED <<clientVars, stopQueue, progressGen, sessions, resolvedHandoffs>>
    BY <1>43 DEF Lookup, Renew, lifeVars, otherVars, resolveVars
  <2> QED
    BY <2>1, BystanderStill
<1>44. ASSUME NEW s \in Requests, LookupExpired(s) PROVE PlanInv'
  <2>1. UNCHANGED <<clientVars, stopQueue, progressGen>> /\ StopForViewer(s)
    BY <1>44 DEF LookupExpired, otherVars, resolveVars
  <2> QED
    BY <2>1, StopForViewerShrinks, StopForViewerPrunes, BystanderStill DEF LifeShrinks
<1>45. ASSUME NEW s \in Requests, Heartbeat(s) PROVE PlanInv'
  <2>1. UNCHANGED <<clientVars, stopQueue, progressGen, sessions, resolvedHandoffs>>
    BY <1>45 DEF Heartbeat, Renew, lifeVars, otherVars, resolveVars
  <2> QED
    BY <2>1, BystanderStill
<1>46. ASSUME NEW g \in Requests, InputFile(g) PROVE PlanInv'
  <2>1. UNCHANGED <<clientVars, stopQueue, progressGen, sessions, resolvedHandoffs>>
    BY <1>46 DEF InputFile, lifeVars, otherVars, resolveVars
  <2> QED
    BY <2>1, BystanderStill
<1>47. ASSUME NEW s \in Requests, SubtitleStart(s) PROVE PlanInv'
  <2>1. UNCHANGED <<clientVars, stopQueue, progressGen, sessions, resolvedHandoffs>>
    BY <1>47 DEF SubtitleStart, lifeVars, otherVars, resolveVars
  <2> QED
    BY <2>1, BystanderStill
<1>48. ASSUME NEW s \in Requests, SubtitleRelease(s) PROVE PlanInv'
  <2>1. UNCHANGED <<clientVars, stopQueue, progressGen, sessions, resolvedHandoffs>>
    BY <1>48 DEF SubtitleRelease, lifeVars, otherVars, resolveVars
  <2> QED
    BY <2>1, BystanderStill
<1>49. ASSUME NEW s \in Requests, Stop(s) PROVE PlanInv'
  <2>1. UNCHANGED <<clientVars, stopQueue, progressGen>> /\ StopForViewer(s)
    BY <1>49 DEF Stop, otherVars, resolveVars
  <2> QED
    BY <2>1, StopForViewerShrinks, StopForViewerPrunes, BystanderStill DEF LifeShrinks
<1>50. ASSUME NEW k \in Requests \cup Viewers, NEW s \in Requests, StopQueued(k, s)
      PROVE PlanInv'
  <2>1. StopForViewer(s) /\ UNCHANGED <<clientVars, progressGen>> /\ stopQueue' = [stopQueue EXCEPT ![k] = stopQueue[k] \ {s}]
    BY <1>50 DEF StopQueued
  <2>2. sessions' \subseteq sessions /\ s \notin sessions'
    BY <2>1, StopForViewerShrinks DEF LifeShrinks
  <2>3. \A x \in Requests : /\ stopQueue'[x] \subseteq stopQueue[x]
                            /\ \A y \in stopQueue[x] : y \in sessions' => y \in stopQueue'[x]
    BY <2>1, <2>2 DEF TypeOK
  <2>4. \A x \in Viewers \X Catalogs : progressGen[x] <= progressGen'[x]
    BY <2>1 DEF TypeOK
  <2> QED
    BY <2>1, <2>2, <2>3, <2>4, StopForViewerPrunes, BystanderOrder
<1>51. ASSUME NEW s \in Requests, StopOwnerSession(s) PROVE PlanInv'
  <2>1. UNCHANGED <<clientVars, stopQueue, progressGen>> /\ sessions' \subseteq sessions /\ resolvedHandoffs' \subseteq resolvedHandoffs
    BY <1>51 DEF StopOwnerSession, StopSessions, lifeVars, otherVars
  <2> QED
    BY <2>1, BystanderStill
<1>52. ASSUME NEW g \in Requests, ProcessExit(g) PROVE PlanInv'
  <2>1. UNCHANGED <<clientVars, stopQueue, progressGen, sessions, resolvedHandoffs>>
    BY <1>52 DEF ProcessExit, lifeVars, otherVars, resolveVars
  <2> QED
    BY <2>1, BystanderStill
<1>53. ASSUME NEW g \in Requests, Retire(g) PROVE PlanInv'
  <2>1. UNCHANGED <<clientVars, stopQueue, progressGen, sessions, resolvedHandoffs>>
    BY <1>53 DEF Retire, lifeVars, otherVars, resolveVars
  <2> QED
    BY <2>1, BystanderStill
<1>54. ASSUME NEW v \in Viewers, StopViewer(v) PROVE PlanInv'
  <2>1. UNCHANGED <<clientVars, sessions, progressGen, resolvedHandoffs>>
    BY <1>54 DEF StopViewer, resolveVars
  <2>2. \A x \in Requests : stopQueue'[x] = stopQueue[x]
    BY <1>54, NoneAssumption DEF StopViewer, TypeOK
  <2>3. \A x \in Viewers \X Catalogs : progressGen[x] <= progressGen'[x]
    BY <2>1 DEF TypeOK
  <2> QED
    BY <2>1, <2>2, <2>3, BystanderOrder
<1>55. ASSUME NEW c \in Catalogs, StopCatalog(c) PROVE PlanInv'
  <2>1. UNCHANGED <<clientVars, stopQueue, progressGen, resolvedHandoffs>> /\ sessions' \subseteq sessions
    BY <1>55 DEF StopCatalog, StopSessions, lifeVars, otherVars, resolveVars
  <2> QED
    BY <2>1, BystanderStill
<1>56. ASSUME NEW key \in Viewers \X Catalogs, SetWatched(key) PROVE PlanInv'
  <2>1. UNCHANGED <<clientVars, sessions, stopQueue, resolvedHandoffs>>
        /\ progressGen' = [progressGen EXCEPT ![key] = progressGen[key] + 1]
    BY <1>56 DEF SetWatched, lifeVars, resolveVars
  <2>2. \A x \in Viewers \X Catalogs : progressGen[x] <= progressGen'[x]
    BY <2>1 DEF TypeOK
  <2> QED
    BY <2>1, <2>2, BystanderOrder
<1>57. ASSUME SweepExpire PROVE PlanInv'
  <2>1. PICK expiry : /\ UNCHANGED <<clientVars, stopQueue, progressGen>> /\ sessions' \subseteq sessions
                      /\ resolvedHandoffs' \in Pruned(resolvedHandoffs \cup Overdue, expiry)
    BY <1>57 DEF SweepExpire, lifeVars, otherVars
  <2>2. Overdue \subseteq handoffs
    BY <1>57 DEF SweepExpire, Overdue
  <2> QED
    BY <1>0, <2>1, <2>2, PrunedWithin, BystanderStill
<1>58. ASSUME NEW bad \in SUBSET snapshot, SweepReclaim(bad) PROVE PlanInv'
  <2>1. UNCHANGED <<clientVars, stopQueue, progressGen, resolvedHandoffs>> /\ sessions' \subseteq sessions
    BY <1>58 DEF SweepReclaim, Detach, lifeVars, otherVars, resolveVars
  <2> QED
    BY <2>1, BystanderStill
<1>59. ASSUME SweepDone PROVE PlanInv'
  <2>1. UNCHANGED <<clientVars, stopQueue, progressGen, sessions, resolvedHandoffs>>
    BY <1>59 DEF SweepDone, lifeVars, otherVars, resolveVars
  <2> QED
    BY <2>1, BystanderStill
<1>60. ASSUME JanitorStops PROVE PlanInv'
  <2>1. UNCHANGED <<clientVars, stopQueue, progressGen, sessions, resolvedHandoffs>>
    BY <1>60 DEF JanitorStops, lifeVars, otherVars, resolveVars
  <2> QED
    BY <2>1, BystanderStill
<1>61. ASSUME Shutdown PROVE PlanInv'
  <2>1. UNCHANGED <<clientVars, stopQueue, progressGen, resolvedHandoffs>> /\ sessions' \subseteq sessions
    BY <1>61 DEF Shutdown, lifeVars, otherVars, resolveVars
  <2> QED
    BY <2>1, BystanderStill
<1>62. ASSUME ShutdownStep PROVE PlanInv'
  <2>1. UNCHANGED <<clientVars, stopQueue, progressGen, sessions, resolvedHandoffs>>
    BY <1>62 DEF ShutdownStep, ShutdownStartsDone, ShutdownStartsTimeout, ShutdownJanitorDone,
           ShutdownJanitorTimeout, ShutdownDone, ShutdownMoves, lifeVars, otherVars, resolveVars
  <2> QED
    BY <2>1, BystanderStill
<1>63. ASSUME Tick PROVE PlanInv'
  <2>1. UNCHANGED <<clientVars, stopQueue, progressGen, sessions, resolvedHandoffs>>
    BY <1>63 DEF Tick, lifeVars, otherVars, resolveVars
  <2> QED
    BY <2>1, BystanderStill
<1>64. CASE UNCHANGED vars
  <2>1. UNCHANGED <<clientVars, stopQueue, progressGen, sessions, resolvedHandoffs>>
    BY <1>64 DEF vars, lifeVars, otherVars, resolveVars
  <2> QED
    BY <2>1, BystanderStill
<1> QED
  BY <1>1, <1>2, <1>3, <1>4, <1>5, <1>6, <1>7, <1>8, <1>9, <1>10, <1>11, <1>12, <1>13, <1>14,
     <1>15, <1>16, <1>17, <1>18, <1>19, <1>20, <1>21, <1>22, <1>23, <1>24, <1>25, <1>26, <1>27,
     <1>28, <1>29, <1>30, <1>31, <1>32, <1>33, <1>34, <1>35, <1>36, <1>37, <1>38, <1>39, <1>40,
     <1>41, <1>42, <1>43, <1>44, <1>45, <1>46, <1>47, <1>48, <1>49, <1>50, <1>51, <1>52, <1>53,
     <1>54, <1>55, <1>56, <1>57, <1>58, <1>59, <1>60, <1>61, <1>62, <1>63, <1>64
  DEF Next, Issue, CreateStep, OperationStep, SessionStep, JanitorStep

LEMMA PlanInit == Init => PlanInv
<1> SUFFICES ASSUME Init PROVE PlanInv
  OBVIOUS
<1>1. \A r \in Requests : ~Taken(r) /\ ~Ruling(r) /\ ~Current(r) /\ req[r].old = None /\ pc[r] = "idle"
  BY DEF Init, Taken, Ruling, Current, Known
<1> QED
  BY <1>1 DEF Init, PlanInv, TitlesKnown, TakenOnce, Descent, ListsOlder,
     OnlySuccessStays, ListsAll, ResolvedDescend

\* The invariant holds in every reachable state.
LEMMA PlansHold == Spec => [](TypeOK /\ ReplaceInv /\ PlanInv)
<1> DEFINE I == TypeOK /\ LeaseInv /\ AccountInv /\ ReplaceInv /\ PlanInv
<1>1. Init => I
  BY TypeInit, LeaseInit, AccountInit, ReplaceInit, PlanInit
<1>2. I /\ [Next]_vars => I'
  BY TypeStep, LeaseStep, AccountStep, ReplaceStep, PlanStep
<1> QED
  BY <1>1, <1>2, PTL DEF Spec

\* Stopping a session for its viewer ends sessions of the same plan only, and of these
\* nobody's but its own while a plan is still stopping what it supersedes.
LEMMA StopEndsKin ==
  ASSUME TypeOK, ReplaceInv, PlanInv, NEW s \in Requests, StopForViewer(s),
         NEW x \in sessions \ sessions'
  PROVE  Kin(x, s) /\ (x = s \/ pc[x] # "superseding")
<1>1. PICK R, target :
        /\ R \in Pruned(resolvedHandoffs, resolvedExp) /\ target \in StopTargets(s, R)
        /\ LET H == {h \in handoffs : target \in sessions /\ sessionHandoffs[target] = h}
               S == ({target} \cap sessions) \cup UNION {Pair(h) : h \in H}
           IN  sessions' = sessions \ S
  BY DEF StopForViewer, StopSessions
<1>2. x = target \/ \E h \in handoffs : target \in sessions /\ sessionHandoffs[target] = h /\ x \in Pair(h)
  BY <1>1
<1>3. ASSUME NEW h \in Requests, req[h].old # None
      PROVE  \A y \in Pair(h) : y \in Requests /\ Kin(y, h) /\ pc[y] # "superseding"
  <2>1. req[h].old \in Requests /\ Kin(req[h].old, h)
    BY <1>3 DEF TypeOK, PlanInv, Descent
  <2>2. pc[req[h].old] = "done" /\ req[h].op # "plan"
    BY <1>3, ReplaceParts DEF OldOK
  <2>3. pc[h] # "superseding"
    BY <2>2, ReplaceParts DEF OldOK, RoleOK
  <2> QED
    BY <2>1, <2>2, <2>3 DEF Pair, Kin, SameTitle
<1>4. ASSUME NEW h \in Requests, req[h].old # None, NEW y \in Pair(h), NEW z \in Pair(h)
      PROVE  z \in Requests /\ Kin(y, z) /\ pc[y] # "superseding"
  BY <1>3, <1>4 DEF Kin, SameTitle
<1>5. PICK f : /\ f = s \/ \E h \in R : StoppedOf(h, attached) = s /\ f = KeptOf(h, attached)
              /\ \/ target = f
                 \/ target = preparingReplacements[f] /\ target # None /\ req[target].old = f
  BY <1>1 DEF StopTargets
<1>6. f \in Requests /\ Kin(f, s) /\ (f = s \/ pc[f] # "superseding")
  <2>1. CASE f = s
    BY <2>1 DEF Kin, SameTitle
  <2>2. ASSUME NEW h \in R, StoppedOf(h, attached) = s, f = KeptOf(h, attached)
        PROVE  f \in Requests /\ Kin(f, s) /\ pc[f] # "superseding"
    <3>1. h \in Requests /\ req[h].old # None
      BY <1>1, PrunedWithin DEF PlanInv, ResolvedDescend, Descendants
    <3>2. f \in Pair(h) /\ s \in Pair(h)
      BY <2>2 DEF KeptOf, StoppedOf, Pair
    <3> QED
      BY <1>4, <3>1, <3>2
  <2> QED
    BY <1>5, <2>1, <2>2
<1>7. target \in Requests /\ Kin(target, s) /\ (target = s \/ pc[target] # "superseding")
  <2>1. CASE target = f
    BY <1>6, <2>1
  <2>2. CASE target = preparingReplacements[f] /\ target # None /\ req[target].old = f
    <3>1. target \in Requests
      BY <1>6, <2>2 DEF TypeOK
    <3>2. req[target].old # None /\ target \in Pair(target) /\ f \in Pair(target)
      BY <1>6, <2>2, NoneAssumption DEF Pair
    <3>3. Kin(target, f) /\ pc[target] # "superseding"
      BY <1>4, <3>1, <3>2
    <3> QED
      BY <1>6, <3>1, <3>3 DEF Kin, SameTitle
  <2> QED
    BY <1>5, <2>1, <2>2
<1>8. ASSUME NEW h \in handoffs, sessionHandoffs[target] = h, x \in Pair(h)
      PROVE  Kin(x, s) /\ pc[x] # "superseding"
  <2>1. h \in Requests /\ req[h].old # None
    BY ReplaceParts DEF TypeOK, HandoffOK, OldOK
  <2>2. target \in Pair(h)
    BY <1>7, <1>8, <2>1, ReplaceParts, NoneAssumption DEF HandoffsPaired
  <2>3. Kin(x, target) /\ pc[x] # "superseding"
    BY <1>4, <1>8, <2>1, <2>2
  <2> QED
    BY <1>7, <2>3 DEF Kin, SameTitle
<1> QED
  BY <1>2, <1>7, <1>8

\* The newest plan of a title is the one that plays: once it is answered no session of an
\* older plan or of a seek in one is left, and the superseding of no plan ends the
\* session that owns the progress of the title, for any number of plans, seeks,
\* replacements and stops in any order.
THEOREM PlansAreOrdered == Spec => PlansOrdered
<1>1. TypeOK /\ ReplaceInv /\ PlanInv => NewerPlanSupersedes
  <2> SUFFICES ASSUME TypeOK, ReplaceInv, PlanInv,
                      NEW r \in sessions, req[r].op = "plan", Known(r),
                      NEW s \in sessions, Known(s), req[s].op \notin {"replace", "handoff"},
                      SameTitle(s, r)
               PROVE  req[s].progress >= req[r].progress
    BY DEF NewerPlanSupersedes, SameTitle
  <2>1. r \in Requests /\ s \in Requests
    BY DEF TypeOK
  <2>2. req[r].progress \in Nat /\ req[s].progress \in Nat
    BY <2>1 DEF TypeOK
  <2>3. stopQueue[r] = {}
    BY <2>1 DEF PlanInv, ListsOlder, Listed, Known, TypeOK
  <2>4. Ruling(r) /\ Current(s)
    BY <2>1, RequestsHaveOps DEF Ruling, Current, Taken
  <2> QED
    BY <2>2, <2>3, <2>4 DEF PlanInv, ListsAll, SameTitle
<1>2. TypeOK /\ ReplaceInv /\ PlanInv =>
        [\A r, s \in Requests :
           StopQueued(r, s) => \A x \in sessions \ sessions' :
             ~(CommitAccepted(x) /\ pc[x] \in {"accepted", "superseding", "done"})]_vars
  <2> SUFFICES ASSUME TypeOK, ReplaceInv, PlanInv, NEW r \in Requests, NEW s \in Requests,
                      StopQueued(r, s), NEW x \in sessions \ sessions', CommitAccepted(x),
                      pc[x] \in {"accepted", "superseding", "done"}
               PROVE  FALSE
    OBVIOUS
  <2>1. x \in Requests
    BY DEF TypeOK
  <2>2. Listed(r, s)
    BY DEF StopQueued, PlanInv, ListsOlder
  <2>3. Kin(x, s) /\ (x = s \/ pc[x] # "superseding")
    BY StopEndsKin DEF StopQueued
  <2>4. Taken(r) /\ ~Known(r)
    BY <2>2, ReplaceParts DEF Listed, Taken, Known, OldOK, RoleOK
  <2>5. x # r
    BY <2>2, <2>3 DEF Listed
  <2>6. Kin(x, r)
    <3>1. req[r].progress <= progressGen[<<req[r].viewer, req[r].catalog>>]
      BY <2>4 DEF PlanInv, TakenOnce
    <3>2. SameTitle(x, r) /\ progressGen[<<req[r].viewer, req[r].catalog>>] = req[x].progress
      BY <2>2, <2>3 DEF CommitAccepted, Kin, Listed, SameTitle
    <3>3. req[x].progress <= req[r].progress
      BY <2>2, <2>3 DEF Kin, Listed
    <3>4. req[x].progress \in Nat /\ req[r].progress \in Nat
      BY <2>1 DEF TypeOK
    <3> QED
      BY <3>1, <3>2, <3>3, <3>4 DEF Kin
  <2>7. ASSUME NEW p \in Requests, Taken(p), Kin(p, x) PROVE p = r
    BY <2>4, <2>6, <2>7 DEF PlanInv, TakenOnce, Kin, SameTitle
  <2>8. ~Taken(x)
    BY <2>1, <2>5, <2>7 DEF Kin, SameTitle
  <2>9. pc[x] = "done" /\ Known(x)
    BY <2>1, <2>8, ReplaceParts DEF Taken, OldOK, RoleOK, PlanInv, OnlySuccessStays, SettledPcs, Known
  <2>10. req[x].old # None
    BY <2>1, <2>8, <2>9, RequestsHaveOps, ReplaceParts DEF Taken, OldOK
  <2>11. PICK p \in Requests : req[p].op = "plan" /\ Known(p) /\ Kin(p, x)
    BY <2>1, <2>10 DEF PlanInv, Descent
  <2> QED
    BY <2>4, <2>7, <2>11 DEF Taken
<1> QED
  BY PlansHold, <1>1, <1>2, PTL DEF PlansOrdered, NewestPlanKept
=============================================================================
