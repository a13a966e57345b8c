------------------------------- MODULE Mutex --------------------------------
(***************************************************************************)
(* What the lock file promises: one holder at a time.  A holder gives the  *)
(* lock up itself, or loses it by dying or by failing to remove its file;  *)
(* a lost lock stays closed to everyone until a person reclaims it.        *)
(***************************************************************************)
CONSTANTS
    Tasks,  \* who may hold the lock
    Free,   \* nobody holds it
    Lost    \* its holder is gone without giving it up

VARIABLE holder

Init == holder = Free

Grab(t) == holder = Free /\ holder' = t
Drop(t) == holder = t /\ holder' = Free
Lose(t) == holder = t /\ holder' = Lost
Reclaim == holder = Lost /\ holder' = Free

Next == Reclaim \/ \E t \in Tasks : Grab(t) \/ Drop(t) \/ Lose(t)

Spec == Init /\ [][Next]_holder
=============================================================================
