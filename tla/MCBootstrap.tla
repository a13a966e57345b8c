---------------------------- MODULE MCBootstrap -----------------------------
(* Bootstrap for TLC: tasks a and b in one process, c in another; for liveness
   a and b only. *)
EXTENDS Bootstrap, TLC

CONSTANTS a, b, c, P, Q

MCProcOf == (a :> P) @@ (b :> P) @@ (c :> Q)
LiveProcOf == (a :> P) @@ (b :> P)
MCPidOf == (P :> 101) @@ (Q :> 102)

Symmetry == Permutations({a, b})
=============================================================================
