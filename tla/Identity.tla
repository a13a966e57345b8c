------------------------------ MODULE Identity ------------------------------
(***************************************************************************)
(* internal/types: save and session IDs are ULIDs, a millisecond and a     *)
(* random part, minted under a mutex that covers reading the wall clock.   *)
(* The random part comes from ulid.Monotonic: within the millisecond of    *)
(* the previous ULID it grows, otherwise it is drawn anew.  The wall clock *)
(* may be set back.                                                        *)
(***************************************************************************)
EXTENDS Naturals, Sequences

CONSTANTS
    MaxClock,   \* bound: the wall clock shows 0..MaxClock milliseconds
    MaxBacks,   \* bound: how often the clock is set back
    Draws       \* the random parts that can be drawn, as numbers

ASSUME ClockAssumption == MaxClock \in Nat /\ MaxBacks \in Nat
ASSUME DrawsAssumption == Draws \subseteq Nat

VARIABLES
    clock,      \* the wall clock
    era,        \* history: how often it was set back
    issued      \* the ULIDs minted, in order; the last one is the entropy's state

identityVars == <<clock, era, issued>>

IdentityInit == clock = 0 /\ era = 0 /\ issued = <<>>

(* A random part is a draw and the increments made to it since. *)
Ulid(ms, draw, inc) == [ms |-> ms, draw |-> draw, inc |-> inc, era |-> era]

(* ulid.Monotonic and crypto/rand: what follows the ULIDs minted so far at ms.
   80 random bits are taken never to repeat a draw of the same millisecond, and
   to leave room for the increments. *)
MonotonicNext(ms) ==
    LET last == issued[Len(issued)]
    IN  IF issued # <<>> /\ last.ms = ms
        THEN {Ulid(ms, last.draw, last.inc + 1)}
        ELSE {Ulid(ms, d, 0) : d \in {d \in Draws :
                \A i \in DOMAIN issued : issued[i].ms = ms => issued[i].draw # d}}

(* Mutant: the clock is read before the lock is taken. *)
NewULIDOfEarlierClock ==
    /\ \E ms \in 0..clock, u \in MonotonicNext(clock) :
            issued' = Append(issued, [u EXCEPT !.ms = ms])
    /\ UNCHANGED <<clock, era>>

(* NewULID, whole, because it holds the mutex from first to last. *)
NewULID ==
    /\ \E u \in MonotonicNext(clock) : issued' = Append(issued, u)
    /\ UNCHANGED <<clock, era>>

(* Time passes, or is set back. *)
Tick ==
    /\ \/ clock < MaxClock /\ clock' = clock + 1 /\ UNCHANGED era
       \/ clock > 0 /\ era < MaxBacks /\ clock' \in 0..(clock - 1) /\ era' = era + 1
    /\ UNCHANGED issued

(* How IDs compare as text. *)
Before(u, v) ==
    \/ u.ms < v.ms
    \/ u.ms = v.ms /\ u.draw < v.draw
    \/ u.ms = v.ms /\ u.draw = v.draw /\ u.inc < v.inc

(* No two IDs are equal, whatever the clock does, and goroutines that mint them
   at the same time still get them in ascending order, as long as the clock is
   not set back in between: an ID of a later call sorts after an earlier one. *)
IdsAreOrdered ==
    \A i, j \in DOMAIN issued : i < j =>
        /\ Before(issued[i], issued[j]) \/ Before(issued[j], issued[i])
        /\ issued[i].era = issued[j].era => Before(issued[i], issued[j])
=============================================================================
