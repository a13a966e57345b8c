----------------------------- MODULE RecordLog ------------------------------
(***************************************************************************)
(* What the record store promises its callers, with no commit, reference,  *)
(* retry or probe in sight: a map from record roots to file sets in which  *)
(* a root is written at most once and never changes or disappears.  A call *)
(* stores its record in one atomic step, or not at all; it may report "ok" *)
(* only if its own files are stored under its root, and "exists" only if   *)
(* the root is taken.                                                      *)
(***************************************************************************)
CONSTANTS
    Calls,      \* the WriteRecord calls ever made
    Roots,      \* record roots (collection/shard/id)
    Payloads,   \* the file sets a record may hold
    NoRequest   \* what a call asks for before it is made

VARIABLES
    store,      \* the records stored: a function from some roots to payloads
    asked,      \* asked[c]: the root and the files call c asks to store
    phase       \* phase[c]: where call c is, or what it returned

vars == <<store, asked, phase>>

Verdicts == {"ok", "exists", "tipChanged", "notFound", "unknown", "failed", "crashed"}

Init ==
    /\ store = [r \in {} |-> NoRequest]
    /\ asked = [c \in Calls |-> NoRequest]
    /\ phase = [c \in Calls |-> "idle"]

Ask(c) ==
    /\ phase[c] = "idle"
    /\ \E r \in Roots, f \in Payloads : asked' = [asked EXCEPT ![c] = [root |-> r, files |-> f]]
    /\ phase' = [phase EXCEPT ![c] = "open"]
    /\ UNCHANGED store

(* What call c may report when s holds the records. *)
Reports(c, s) ==
    {v \in Verdicts :
        /\ v = "ok" => /\ asked[c].root \in DOMAIN s
                       /\ s[asked[c].root] = asked[c].files
        /\ v = "exists" => asked[c].root \in DOMAIN s}

(* The record appears; the call learns of it now, later or (it died) never. *)
Store(c) ==
    /\ phase[c] = "open"
    /\ asked[c].root \notin DOMAIN store
    /\ store' = [r \in DOMAIN store \cup {asked[c].root} |->
                    IF r = asked[c].root THEN asked[c].files ELSE store[r]]
    /\ \E v \in {"open", "ok", "crashed"} : phase' = [phase EXCEPT ![c] = v]
    /\ UNCHANGED asked

Report(c) ==
    /\ phase[c] = "open"
    /\ \E v \in Reports(c, store) : phase' = [phase EXCEPT ![c] = v]
    /\ UNCHANGED <<store, asked>>

Next == \E c \in Calls : Ask(c) \/ Store(c) \/ Report(c)

Spec == Init /\ [][Next]_vars
=============================================================================
