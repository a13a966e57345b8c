---------------------------- MODULE MCRecordRead ----------------------------
(* RecordRead for TLC.  A reader may always read again, so nothing deadlocks. *)
EXTENDS RecordRead, TLC

Symmetry == Permutations(Calls) \cup Permutations(Roots)
=============================================================================
