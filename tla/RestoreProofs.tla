---------------------------- MODULE RestoreProofs ----------------------------
(***************************************************************************)
(* Proofs about the restore command, for any number of runs, with and      *)
(* without I/O errors: nothing of the prior installation is lost before    *)
(* publication, what is left when no restore is pending is one whole       *)
(* installation, and success is reported only for the archive's.           *)
(***************************************************************************)
EXTENDS RestoreJournal, TLAPS

\* The images and entries are small intervals of integers.
LEMMA EntryFacts ==
  ASSUME MaxRuns \in Nat
  PROVE  /\ Entries = {1, 2, 3}
         /\ {Absent, Original, Fresh} \subseteq Images
         /\ \A n \in 0 .. MaxRuns : Archive(n) \in Images /\ Archive(n) # Absent
         /\ Nothing \in [Entries -> Images]
  <1>1. Entries = {1, 2, 3}
    BY DEF Entries, Database, Sidecar
  <1>2. {Absent, Original, Fresh} \subseteq Images
    BY RestoreAssumption DEF Images, Absent, Original, Fresh, Archive
  <1>3. \A n \in 0 .. MaxRuns : Archive(n) \in Images /\ Archive(n) # Absent
    BY RestoreAssumption DEF Images, Absent, Archive
  <1>4. Nothing \in [Entries -> Images]
    BY <1>2 DEF Nothing
  <1> QED BY <1>1, <1>2, <1>3, <1>4

\* Every step keeps the types: no action invents an image or leaves the list
\* of entries.
LEMMA RestoreTypeStep ==
  RestoreTypeOK /\ [RestoreNext]_restoreVars => RestoreTypeOK'
  <1> SUFFICES ASSUME RestoreTypeOK, [RestoreNext]_restoreVars
               PROVE  RestoreTypeOK'
    OBVIOUS
  <1> USE RestoreAssumption, EntryFacts
  <1> USE DEF RestoreTypeOK, Phases, Steps, Entries, Database, Sidecar,
              diskVars, commandVars, historyVars, restoreVars
  <1>1. CASE Restore
    BY <1>1 DEF Restore, ValidTarget, Recoverable, GoRecover
  <1>2. CASE RestoreRefused
    BY <1>2 DEF RestoreRefused, Report
  <1>3. ASSUME NEW artwork \in BOOLEAN, StageArchive(artwork)
        PROVE  RestoreTypeOK'
    BY <1>3 DEF StageArchive
  <1>4. CASE StageFails
    BY <1>4 DEF StageFails, Report
  <1>5. CASE WritePrepared
    BY <1>5 DEF WritePrepared, Present
  <1>6. CASE WritePreparedFails
    BY <1>6 DEF WritePreparedFails, Report, Present
  <1>7. CASE MoveAside
    BY <1>7 DEF MoveAside
  <1>8. CASE Install
    BY <1>8 DEF Install, Installed
  <1>9. CASE PublishFails
    BY <1>9 DEF PublishFails, GoRecover
  <1>10. ASSUME NEW synced \in BOOLEAN, WritePublished(synced)
        PROVE  RestoreTypeOK'
    BY <1>10 DEF WritePublished, GoRecover
  <1>11. CASE RemoveReplacement
    BY <1>11 DEF RemoveReplacement, NextEntry
  <1>12. CASE Reinstate
    BY <1>12 DEF Reinstate, NextEntry
  <1>13. CASE RemoveAdded
    BY <1>13 DEF RemoveAdded, NextEntry, PublishedHere
  <1>14. CASE RemovePrior
    BY <1>14 DEF RemovePrior, NextEntry
  <1>15. CASE EmptyStage
    BY <1>15 DEF EmptyStage
  <1>16. CASE RemoveStage
    BY <1>16 DEF RemoveStage
  <1>17. ASSUME NEW synced \in BOOLEAN, RemoveJournal(synced)
        PROVE  RestoreTypeOK'
    BY <1>17 DEF RemoveJournal, Report
  <1>18. CASE RecoverFails
    BY <1>18 DEF RecoverFails, Report
  <1>19. CASE Crash
    BY <1>19 DEF Crash
  <1>20. CASE StartServer
    BY <1>20 DEF StartServer
  <1>21. CASE UNCHANGED restoreVars
    BY <1>21
  <1> QED
    BY <1>1, <1>2, <1>3, <1>4, <1>5, <1>6, <1>7, <1>8, <1>9, <1>10, <1>11,
       <1>12, <1>13, <1>14, <1>15, <1>16, <1>17, <1>18, <1>19, <1>20, <1>21 DEF RestoreNext

\* The inductive invariant survives every step: each rename, removal and journal
\* write of publication and recovery, a failure of any of them, a crash, and a
\* server started between two runs.
LEMMA RestoreInvStep ==
  RestoreTypeOK /\ RestoreInv /\ [RestoreNext]_restoreVars => RestoreInv'
  <1> SUFFICES ASSUME RestoreTypeOK, RestoreInv, [RestoreNext]_restoreVars
               PROVE  RestoreInv'
    OBVIOUS
  <1> USE RestoreAssumption, EntryFacts
  <1> USE DEF RestoreTypeOK, RestoreInv, RecoverySteps, AsBefore, PreparedEntry,
              MovedEntry, RecoveredEntry, Entries, Database, Artwork, Sidecar,
              Absent, Fresh, Nothing, diskVars, commandVars, historyVars, restoreVars
  <1>1. CASE Restore
    BY <1>1 DEF Restore, ValidTarget, Recoverable, GoRecover
  <1>2. CASE RestoreRefused
    BY <1>2 DEF RestoreRefused, Report
  <1>3. ASSUME NEW artwork \in BOOLEAN, StageArchive(artwork)
        PROVE  RestoreInv'
    BY <1>3 DEF StageArchive
  <1>4. CASE StageFails
    BY <1>4 DEF StageFails, Report
  <1>5. CASE WritePrepared
    BY <1>5 DEF WritePrepared, Present
  <1>6. CASE WritePreparedFails
    BY <1>6 DEF WritePreparedFails, Report, Present
  <1>7. CASE MoveAside
    BY <1>7 DEF MoveAside
  <1>8. CASE Install
    BY <1>8 DEF Install, Installed
  <1>9. CASE PublishFails
    BY <1>9 DEF PublishFails, GoRecover
  <1>10. ASSUME NEW synced \in BOOLEAN, WritePublished(synced)
        PROVE  RestoreInv'
    BY <1>10 DEF WritePublished, GoRecover
  <1>11. CASE RemoveReplacement
    BY <1>11 DEF RemoveReplacement, NextEntry
  <1>12. CASE Reinstate
    BY <1>12 DEF Reinstate, NextEntry
  <1>13. CASE RemoveAdded
    BY <1>13 DEF RemoveAdded, NextEntry, PublishedHere
  <1>14. CASE RemovePrior
    BY <1>14 DEF RemovePrior, NextEntry
  <1>15. CASE EmptyStage
    BY <1>15 DEF EmptyStage
  <1>16. CASE RemoveStage
    BY <1>16 DEF RemoveStage
  <1>17. ASSUME NEW synced \in BOOLEAN, RemoveJournal(synced)
        PROVE  RestoreInv'
    <2>1. \A i \in Entries : prior[i] = Absent
      BY <1>17 DEF RemoveJournal
    <2>2. prior = Nothing
      BY <2>1
    <2>3. \/ live = target /\ live[Database] # Absent
          \/ \A i \in Entries : AsBefore(i)
      <3>1. CASE journal.phase = "prepared"
        BY <1>17, <3>1 DEF RemoveJournal
      <3>2. CASE journal.phase = "published"
        BY <3>2
      <3>3. CASE journal.phase = "none"
        BY <1>17, <3>3 DEF RemoveJournal
      <3> QED BY <3>1, <3>2, <3>3 DEF Phases
    <2>4. resume = "finish" => live = target /\ live[Database] # Absent
      BY <1>17 DEF RemoveJournal
    <2>5. journal' = [phase |-> "none", had |-> {}]
          /\ UNCHANGED <<live, prior, staged, stage, entry, resume, base, target>>
      BY <1>17 DEF RemoveJournal
    <2>6. \/ step' = "staging" /\ outcome' = outcome /\ step = "unlist"
          \/ /\ step' = "idle" /\ outcome' \in {"restored", "failed"}
             /\ outcome' = "restored" => resume = "finish"
      BY <1>17 DEF RemoveJournal, Report
    <2>7. CASE step' = "staging" /\ outcome' = outcome /\ step = "unlist"
      BY <2>2, <2>3, <2>5, <2>7
    <2>8. CASE step' = "idle" /\ outcome' \in {"restored", "failed"}
               /\ (outcome' = "restored" => resume = "finish")
      BY <2>2, <2>3, <2>4, <2>5, <2>8
    <2> QED BY <2>6, <2>7, <2>8
  <1>18. CASE RecoverFails
    BY <1>18 DEF RecoverFails, Report
  <1>19. CASE Crash
    BY <1>19 DEF Crash
  <1>20. CASE StartServer
    <2>1. step = "idle" /\ live[Database] = Absent
          /\ live' = [live EXCEPT ![Database] = Fresh]
          /\ UNCHANGED <<prior, staged, stage, journal, commandVars, historyVars>>
      BY <1>20 DEF StartServer
    <2>2. live' \in [Entries -> Images] /\ live'[Database] = Fresh
          /\ \A i \in Entries \ {Database} : live'[i] = live[i]
      BY <2>1
    <2>3. outcome # "restored"
      BY <2>1
    <2>4. CASE journal.phase = "none"
      BY <2>1, <2>2, <2>3, <2>4
    <2>5. CASE journal.phase = "prepared"
      BY <2>1, <2>2, <2>3, <2>5
    <2>6. journal.phase # "published"
      BY <2>1
    <2> QED BY <2>4, <2>5, <2>6 DEF Phases
  <1>21. CASE UNCHANGED restoreVars
    BY <1>21
  <1> QED
    BY <1>1, <1>2, <1>3, <1>4, <1>5, <1>6, <1>7, <1>8, <1>9, <1>10, <1>11,
       <1>12, <1>13, <1>14, <1>15, <1>16, <1>17, <1>18, <1>19, <1>20, <1>21 DEF RestoreNext

\* In the initial states there is no journal and nothing is moved aside.
LEMMA RestoreInitial == RestoreInit => RestoreTypeOK /\ RestoreInv
  <1> SUFFICES ASSUME RestoreInit PROVE RestoreTypeOK /\ RestoreInv
    OBVIOUS
  <1> USE RestoreAssumption, EntryFacts
  <1>1. live \in [Entries -> Images]
    BY DEF RestoreInit
  <1>2. RestoreTypeOK
    <2>1. journal \in [phase : Phases, had : SUBSET Entries]
      BY DEF RestoreInit, Phases
    <2>2. runs \in 0 .. MaxRuns /\ entry \in Entries /\ step \in Steps
      BY DEF RestoreInit, Steps, Database
    <2> QED BY <1>1, <2>1, <2>2 DEF RestoreInit, RestoreTypeOK
  <1>3. RestoreInv
    BY DEF RestoreInit, RestoreInv, RecoverySteps, AsBefore
  <1> QED BY <1>2, <1>3

\* Both hold in every reachable state.
THEOREM RestoreInvariant == RestoreSpec => [](RestoreTypeOK /\ RestoreInv)
  <1>1. RestoreTypeOK /\ RestoreInv /\ [RestoreNext]_restoreVars
          => (RestoreTypeOK /\ RestoreInv)'
    BY RestoreTypeStep, RestoreInvStep
  <1> QED BY <1>1, RestoreInitial, PTL DEF RestoreSpec

\* Wherever publication or its rollback fails or is killed, every entry of the
\* prior installation is still on disk.
THEOREM PriorNeverLost == RestoreSpec => []PriorKept
  <1>1. RestoreTypeOK /\ RestoreInv => PriorKept
    BY DEF RestoreTypeOK, RestoreInv, PriorKept, PreparedEntry
  <1> QED BY <1>1, RestoreInvariant, PTL

\* With no journal left the data directory holds one whole installation.
THEOREM SettlesWhole == RestoreSpec => []SettledWhole
  <1>1. RestoreTypeOK /\ RestoreInv => SettledWhole
    BY DEF RestoreTypeOK, RestoreInv, SettledWhole, AsBefore
  <1> QED BY <1>1, RestoreInvariant, PTL

\* Success is reported only when the archive's installation is in place.
THEOREM ReportsTruth == RestoreSpec => []RestoredIsTarget
  <1>1. RestoreTypeOK /\ RestoreInv => RestoredIsTarget
    BY DEF RestoreInv, RestoredIsTarget
  <1> QED BY <1>1, RestoreInvariant, PTL

=============================================================================
