--------------------------- MODULE MCRecordBranch ---------------------------
(* RecordBranch for TLC.  Calls never deadlock each other: the system stops
   when every call has returned, so the configurations turn the deadlock check
   off and CallsReturn says what must not be left hanging. *)
EXTENDS RecordBranch, TLC

Symmetry == Permutations(Calls) \cup Permutations(Roots)
=============================================================================
