----------------------------- MODULE MCFileLock -----------------------------
(* FileLock for TLC: three tasks, each in a process of its own; the process R
   is given the process ID of P once that has gone.  Tasks that share a process
   are in MCBootstrap. *)
EXTENDS FileLock, TLC

CONSTANTS a, b, c, P, Q, R

MCProcOf == (a :> P) @@ (b :> Q) @@ (c :> R)
MCPidOf == (P :> 101) @@ (Q :> 102) @@ (R :> 101)
=============================================================================
