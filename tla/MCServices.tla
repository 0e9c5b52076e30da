----------------------------- MODULE MCServices -----------------------------
(* TLC instance of the backup worker and of the sockets of screens, with the *)
(* fairness of their goroutines, and of the restore command.  They share no  *)
(* state, so a behaviour is one of one part and the others rest in an        *)
(* initial state.                                                            *)
EXTENDS BackupJobs, Screens, RestoreJournal

VARIABLE part

servicesVars == <<part, backupVars, screenVars, restoreVars>>

ServicesInit ==
  /\ part \in {"backups", "screens", "restore"}
  /\ BackupInit /\ ScreensInit /\ RestoreInit
  /\ part # "backups" => destination = IdleWorker.to
  /\ part # "restore" => live = Nothing

ServicesNext ==
  /\ UNCHANGED part
  /\ \/ part = "backups" /\ BackupNext /\ UNCHANGED <<screenVars, restoreVars>>
     \/ part = "screens" /\ ScreensNext /\ UNCHANGED <<backupVars, restoreVars>>
     \/ part = "restore" /\ RestoreNext /\ UNCHANGED <<backupVars, screenVars>>

\* The fairness of each component, in the behaviours of its part.
ServicesFairness ==
  /\ WF_backupVars(part = "backups" /\ WorkerStep) /\ SF_backupVars(part = "backups" /\ ClaimJob(TRUE))
  /\ \A c \in BackupCancellers : WF_backupVars(part = "backups" /\ CallCancel(c))
  /\ \A s \in ScreenIds : /\ WF_screenVars(part = "screens" /\ ReceiverStep(s))
                          /\ WF_screenVars(part = "screens" /\ ReceiverCancelled(s))
  /\ \A k \in Controllers : /\ WF_screenVars(part = "screens" /\ ControllerStep(k))
                            /\ WF_screenVars(part = "screens" /\ ControllerCancelled(k))

ServicesSpec == ServicesInit /\ [][ServicesNext]_servicesVars /\ ServicesFairness
=============================================================================
