---------------------------- MODULE RecordBranch ----------------------------
(***************************************************************************)
(* Concurrent WriteRecord calls on refs/heads/opax/v1: internal/git's      *)
(* write_records.go and ref_publish.go over updateRefCAS.                  *)
(*                                                                         *)
(* A call validates the branch once, then reads the reference, builds a    *)
(* commit on it and publishes the commit by compare-and-swap.  A call that *)
(* loses the race starts again from the reference (at most MaxAttempts     *)
(* times), or gives up at once if its caller named the tip it expects.     *)
(* Calls run in goroutines and processes that share nothing but the        *)
(* repository; every git command is a step of its own.                     *)
(***************************************************************************)
EXTENDS GitRef

CONSTANTS
    Calls,        \* the WriteRecord calls ever made
    Roots,        \* record roots (collection/shard/id)
    Payloads,     \* the file sets a record may hold
    Stamps,       \* the wall-clock seconds a commit may be stamped with
    Sentinel,     \* what the commit that initialises the branch holds
    NoRequest,    \* what a call asks for before it is made
    MaxAttempts,  \* maxRefPublishAttempts
    LostAck       \* may update-ref move the reference and still exit non-zero?

ASSUME MaxAttemptsAssumption == MaxAttempts \in Nat \ {0}
ASSUME SentinelAssumption == Sentinel \notin Roots \cup Payloads
ASSUME LostAckAssumption == LostAck \in BOOLEAN

VARIABLES
    branch,   \* the hash the reference points to, NoRef if it does not exist
    phase,    \* phase[c]: the step call c is about to take, or what it returned
    req,      \* req[c]: the normalised request
    seen,     \* seen[c]: currentRef, the reference as this attempt read it
    next,     \* next[c]: nextRef, the commit this attempt built
    exit,     \* exit[c]: how the last failed update-ref of c exited
    attempt,  \* attempt[c]: the attempts made, this one included
    moves,    \* history: how many times c moved the reference
    height    \* history: the length of the branch when c began

vars == <<branch, phase, req, seen, next, exit, attempt, moves, height>>

Commit == [root : Roots, files : Payloads, time : Stamps]
            \cup [root : {Sentinel}, files : {Sentinel}, time : Stamps]
Hash == Seq(Commit)
Request == [root : Roots, files : Payloads, tip : Hash]

Steps == {"validate", "read", "build", "update", "probe"}
Verdicts == {"ok", "exists", "tipChanged", "notFound", "unknown", "failed", "crashed"}

TypeOK ==
    /\ branch \in Hash
    /\ phase \in [Calls -> {"idle"} \cup Steps \cup Verdicts]
    /\ req \in [Calls -> Request \cup {NoRequest}]
    /\ \A c \in Calls : phase[c] # "idle" => req[c] \in Request
    /\ seen \in [Calls -> Hash]
    /\ next \in [Calls -> Hash]
    /\ exit \in [Calls -> {"ok", "conflict", "error", "lost"}]
    /\ attempt \in [Calls -> 1..MaxAttempts]
    /\ moves \in [Calls -> Nat]
    /\ height \in [Calls -> Nat]

-----------------------------------------------------------------------------
(* The records in the tree of a commit: every commit of the branch adds its
   record to its parent's tree. *)
RootsIn(hash) == {hash[i].root : i \in 1..Len(hash)} \ {Sentinel}

RecordIn(hash, root) == hash[CHOOSE i \in 1..Len(hash) : hash[i].root = root]

Init ==
    /\ branch = NoRef
    /\ phase = [c \in Calls |-> "idle"]
    /\ req = [c \in Calls |-> NoRequest]
    /\ seen = [c \in Calls |-> NoRef]
    /\ next = [c \in Calls |-> NoRef]
    /\ exit = [c \in Calls |-> "ok"]
    /\ attempt = [c \in Calls |-> 1]
    /\ moves = [c \in Calls |-> 0]
    /\ height = [c \in Calls |-> 0]

(* EnsureOpaxBranch, run by someone, creates the branch. *)
CreateBranch ==
    /\ branch = NoRef
    /\ \E t \in Stamps : branch' = <<[root |-> Sentinel, files |-> Sentinel, time |-> t]>>
    /\ UNCHANGED <<phase, req, seen, next, exit, attempt, moves, height>>

Goto(c, p) == phase' = [phase EXCEPT ![c] = p]

(* A call arrives.  A caller that names an expected tip learned it from the
   branch (GetOpaxBranchTip, an earlier WriteResult); one that does not leaves
   ExpectedTip nil. *)
Begin(c) ==
    /\ phase[c] = "idle"
    /\ \E r \in Roots, f \in Payloads, n \in 0..Len(branch) :
            req' = [req EXCEPT ![c] =
                        [root |-> r, files |-> f, tip |-> SubSeq(branch, 1, n)]]
    /\ height' = [height EXCEPT ![c] = Len(branch)]
    /\ Goto(c, "validate")
    /\ UNCHANGED <<branch, seen, next, exit, attempt, moves>>

ExpectsTip(c) == req[c].tip # NoRef

(* ValidateOpaxBranch, once per call and never again by a retry. *)
Validate(c) ==
    /\ phase[c] = "validate"
    /\ Goto(c, IF branch = NoRef THEN "notFound" ELSE "read")
    /\ UNCHANGED <<branch, req, seen, next, exit, attempt, moves, height>>

ReadRef(c) ==
    /\ phase[c] = "read"
    /\ seen' = [seen EXCEPT ![c] = branch]
    /\ Goto(c, IF branch = NoRef THEN "notFound"
               ELSE IF ExpectsTip(c) /\ branch # req[c].tip THEN "tipChanged"
               ELSE "build")
    /\ UNCHANGED <<branch, req, next, exit, attempt, moves, height>>

(* Mutant: a retry trusts the existence check of the first attempt. *)
BuildCheckedOnce(c) ==
    /\ phase[c] = "build"
    /\ attempt[c] = 1 => req[c].root \notin RootsIn(seen[c])
    /\ \E t \in Stamps :
            next' = [next EXCEPT ![c] =
                        Append(seen[c], [root |-> req[c].root, files |-> req[c].files,
                                         time |-> t])]
    /\ Goto(c, "update")
    /\ UNCHANGED <<branch, req, seen, exit, attempt, moves, height>>

(* buildRecordWriteReference: everything it reads is immutable. *)
Build(c) ==
    /\ phase[c] = "build"
    /\ \/ /\ req[c].root \in RootsIn(seen[c])
          /\ Goto(c, "exists")
          /\ UNCHANGED next
       \/ /\ req[c].root \notin RootsIn(seen[c])
          /\ \E t \in Stamps :
                next' = [next EXCEPT ![c] =
                            Append(seen[c], [root |-> req[c].root, files |-> req[c].files,
                                             time |-> t])]
          /\ Goto(c, "update")
    /\ UNCHANGED <<branch, req, seen, exit, attempt, moves, height>>

(* Mutant: a successful update is doubted and probed as well. *)
UpdateRefThenProbe(c) ==
    /\ phase[c] = "update"
    /\ \E end \in UpdateRefEnds(branch, next[c], seen[c], LostAck) :
            /\ branch' = end.ref
            /\ exit' = [exit EXCEPT ![c] = end.exit]
            /\ moves' = [moves EXCEPT ![c] = IF end.ref # branch THEN @ + 1 ELSE @]
            /\ Goto(c, "probe")
    /\ UNCHANGED <<req, seen, next, attempt, height>>

(* git update-ref *)
UpdateRef(c) ==
    /\ phase[c] = "update"
    /\ \E end \in UpdateRefEnds(branch, next[c], seen[c], LostAck) :
            /\ branch' = end.ref
            /\ exit' = [exit EXCEPT ![c] = end.exit]
            /\ moves' = [moves EXCEPT ![c] = IF end.ref # branch THEN @ + 1 ELSE @]
            /\ Goto(c, IF end.exit = "ok" THEN "ok" ELSE "probe")
    /\ UNCHANGED <<req, seen, next, attempt, height>>

(* Mutant: one attempt too many. *)
LoseRaceLate(c) ==
    IF ExpectsTip(c) \/ attempt[c] > MaxAttempts
    THEN Goto(c, "tipChanged") /\ UNCHANGED attempt
    ELSE Goto(c, "read") /\ attempt' = [attempt EXCEPT ![c] = @ + 1]

(* errReferenceChanged: the retry path goes round again until the attempts
   are used up; a call that expects a tip does not. *)
LoseRace(c) ==
    IF ExpectsTip(c) \/ attempt[c] = MaxAttempts
    THEN Goto(c, "tipChanged") /\ UNCHANGED attempt
    ELSE Goto(c, "read") /\ attempt' = [attempt EXCEPT ![c] = @ + 1]

(* Mutant: an inconclusive probe is retried, and the retry is not counted. *)
ProbeForever(c) ==
    /\ phase[c] = "probe"
    /\ \E verdict \in ProbeVerdicts(branch, next[c], seen[c], exit[c]) :
            \/ verdict = "applied" /\ Goto(c, "ok") /\ UNCHANGED attempt
            \/ verdict = "conflict" /\ LoseRace(c)
            \/ verdict = "unknown" /\ Goto(c, "read") /\ UNCHANGED attempt
    /\ UNCHANGED <<branch, req, seen, next, exit, moves, height>>

(* update-ref exited non-zero: read the reference again and judge by it. *)
Probe(c) ==
    /\ phase[c] = "probe"
    /\ \E verdict \in ProbeVerdicts(branch, next[c], seen[c], exit[c]) :
            \/ verdict = "applied" /\ Goto(c, "ok") /\ UNCHANGED attempt
            \/ verdict = "conflict" /\ LoseRace(c)
            \/ verdict = "unknown" /\ Goto(c, "unknown") /\ UNCHANGED attempt
    /\ UNCHANGED <<branch, req, seen, next, exit, moves, height>>

(* Any git command before the update may fail; nothing has been published. *)
GitFails(c) ==
    /\ phase[c] \in {"validate", "read", "build"}
    /\ Goto(c, "failed")
    /\ UNCHANGED <<branch, req, seen, next, exit, attempt, moves, height>>

(* The process dies.  A git update-ref it has started may still run to its
   end, with nobody left to hear of it. *)
Crash(c) ==
    /\ phase[c] \in Steps
    /\ Goto(c, "crashed")
    /\ \/ UNCHANGED <<branch, moves>>
       \/ /\ phase[c] = "update"
          /\ branch = seen[c]
          /\ branch' = next[c]
          /\ moves' = [moves EXCEPT ![c] = @ + 1]
    /\ UNCHANGED <<req, seen, next, exit, attempt, height>>

Advance(c) ==
    Validate(c) \/ ReadRef(c) \/ Build(c) \/ UpdateRef(c) \/ Probe(c)

Next ==
    \/ CreateBranch
    \/ \E c \in Calls : Begin(c) \/ Advance(c) \/ GitFails(c) \/ Crash(c)

Spec == Init /\ [][Next]_vars

(* A goroutine that is inside WriteRecord keeps running. *)
FairSpec == Spec /\ \A c \in Calls : WF_vars(Advance(c))

-----------------------------------------------------------------------------
(* Correctness. *)

(* No two commits of the branch hold the same record root: the existence
   check, made on a tip that may be stale by the time the reference moves, is
   made good by the compare-and-swap, whatever races, retries, lost answers
   and crashes there were. *)
OneCommitPerRecord ==
    \A i, j \in 1..Len(branch) : branch[i].root = branch[j].root => i = j

(* A call that returned success named a commit that is on the branch for good,
   holds that caller's files, and, if a tip was expected, is its child. *)
SuccessIsDurable ==
    \A c \in Calls : phase[c] = "ok" =>
        LET own == next[c][Len(next[c])]
        IN  /\ IsAncestor(next[c], branch)
            /\ own.root = req[c].root /\ own.files = req[c].files
            /\ ExpectsTip(c) => Len(next[c]) = Len(req[c].tip) + 1
                                /\ IsAncestor(req[c].tip, next[c])

(* Retrying never publishes the record of one call twice, not even when the
   first update took effect and its answer was lost. *)
MovesAtMostOnce == \A c \in Calls : moves[c] <= 1

(* A retrying call reports ErrTipChanged only when that many others moved the
   reference while it ran: an update that merely failed is never counted as a
   lost race.  A call that expects a tip gives up only if its tip is gone. *)
GivingUpNeedsContention ==
    \A c \in Calls : phase[c] = "tipChanged" =>
        IF ExpectsTip(c) THEN branch # req[c].tip
        ELSE Len(branch) >= height[c] + MaxAttempts

(* A call that returns an error has left nothing on the branch, unless git moved
   the reference for it and failed to say so. *)
ErrorsLeaveNoTrace ==
    \A c \in Calls :
        phase[c] \in Verdicts \ {"ok", "crashed"} /\ moves[c] > 0 => exit[c] = "lost"

(* The branch only grows: no step drops, reorders or rewrites a commit that
   was once reachable, and no step adds more than one. *)
AppendOnly ==
    [][IsAncestor(branch, branch') /\ Len(branch') <= Len(branch) + 1]_branch

(* What the attempt of a running call rests on; with the invariants above it is
   inductive.  An attempt builds on a tip that is still an ancestor of the
   branch and does not hold its record, every lost race is a commit of
   somebody's, and a call that ever moved the branch finds its record there. *)
NewCommit(c, t) == [root |-> req[c].root, files |-> req[c].files, time |-> t]

AttemptOf(c) ==
    /\ phase[c] # "idle" => IsAncestor(req[c].tip, branch)
    /\ phase[c] = "idle" => moves[c] = 0 /\ attempt[c] = 1
    /\ moves[c] > 0 => req[c].root \in RootsIn(branch)
    /\ moves[c] > 0 =>
            /\ phase[c] # "update"
            /\ phase[c] = "build" => req[c].root \in RootsIn(seen[c])
            /\ phase[c] \in Steps => exit[c] = "lost"
    /\ phase[c] \in Steps => Len(branch) >= height[c] + attempt[c] - 1
    /\ phase[c] \in {"build", "update", "probe"} =>
            /\ seen[c] # NoRef
            /\ IsAncestor(seen[c], branch)
            /\ Len(seen[c]) >= height[c] + attempt[c] - 1
            /\ ExpectsTip(c) => seen[c] = req[c].tip
    /\ phase[c] \in {"update", "probe"} =>
            /\ req[c].root \notin RootsIn(seen[c])
            /\ \E t \in Stamps : next[c] = Append(seen[c], NewCommit(c, t))
    /\ phase[c] = "probe" /\ exit[c] = "conflict" => branch # seen[c]

AttemptInv == \A c \in Calls : AttemptOf(c)

(* A call that is not killed returns: retries are bounded, and no call waits
   for another. *)
CallsReturn ==
    \A c \in Calls : phase[c] = "validate" ~> phase[c] \in Verdicts

(* The branch implements the write-once record store. *)
LogStore == [r \in RootsIn(branch) |-> RecordIn(branch, r).files]
LogAsked == [c \in Calls |-> IF phase[c] = "idle" THEN NoRequest
                             ELSE [root |-> req[c].root, files |-> req[c].files]]
LogPhase == [c \in Calls |-> IF phase[c] \in Steps THEN "open" ELSE phase[c]]

Log == INSTANCE RecordLog WITH store <- LogStore, asked <- LogAsked, phase <- LogPhase

ImplementsLog == Log!Spec
=============================================================================
