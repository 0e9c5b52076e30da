----------------------------- MODULE MCRestore -----------------------------
(* Model checking of the restore command.                                  *)
EXTENDS RestoreJournal
=============================================================================
