----------------------------- MODULE MCPlayback -----------------------------
(* TLC instances of the playback manager. *)
EXTENDS PlaybackProperties, TLC

Symmetry == Permutations(Requests)

=============================================================================
