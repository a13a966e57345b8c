------------------------------- MODULE MCNotes -------------------------------
(* Notes for TLC: the targets t1 and t2 share a shard directory, t3 has one of
   its own. *)
EXTENDS Notes, TLC

CONSTANTS a, b, t1, t2, t3, x, y, s1, s2

MCShardOf == (t1 :> s1) @@ (t2 :> s1) @@ (t3 :> s2)

NoteSymmetry == Permutations({a, b}) \cup Permutations({t1, t2}) \cup Permutations({x, y})
=============================================================================
