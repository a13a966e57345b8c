------------------------------ MODULE Refspec -------------------------------
(***************************************************************************)
(* Concurrent ApplyRefspecPlan calls for one remote (internal/git's        *)
(* refspec.go) beside a user who edits .git/config.                        *)
(*                                                                         *)
(* A call reads the configuration key by key and refuses what it must not  *)
(* touch, takes the lock file, reads everything again, then adds the fetch *)
(* exclusion if it is missing, clears and rewrites the two keys that Opax  *)
(* owns, reads the result, and gives the lock back.  Each of these is a    *)
(* git command of its own.  The user's commands take no lock.              *)
(***************************************************************************)
EXTENDS Naturals, Sequences, FiniteSets

CONSTANTS
    Calls,     \* the ApplyRefspecPlan calls ever made
    Nobody,    \* the lock is free
    Gone,      \* the lock's holder is gone and its file is not
    MaxEdits   \* bound: how often the user edits

ASSUME RefspecBoundAssumption == MaxEdits \in Nat
ASSUME RefspecHolderAssumption == {Nobody, Gone} \cap Calls = {} /\ Nobody # Gone

VARIABLES
    cfg,     \* cfg[k]: the values of key k, in the order of .git/config
    holder,  \* who holds .git/opax.lock
    phase,   \* phase[c]: what call c is doing, or what it returned
    at,      \* at[c]: the next command of that phase
    got,     \* got[c]: the values read that call c still needs
    out,     \* out[c]: what c will return when it has given the lock back
    edits,   \* history: how many edits the user has made
    base,    \* history: base[c] is edits when c took the lock
    wrote    \* history: the calls that changed the configuration

vars == <<cfg, holder, phase, at, got, out, edits, base, wrote>>

(* remote.<name>.url, .fetch, .push, .mirror and opax.remote.<name>.fetch, .push *)
Keys == {"url", "fetch", "push", "mirror", "ofetch", "opush"}

(* Fetch lines: "branches" maps refs/heads/ and so reaches opax/v1 unless it is
   excluded; "wide" (+refs/ and the like) reaches Opax whatever is excluded,
   and is no branch mapping; "tags" is any other line. *)
FetchLines == {"branches", "wide", "tags", "exclusion"}
PushLines == {"main", "toOpax"}

(* The canonical values of an Opax-owned key, and the values that mean the same
   with the leading plus sign left out. *)
Plan == <<"+branch", "+opax", "+notes">>
Canonical == [branch |-> "+branch", opax |-> "+opax", notes |-> "+notes"]
Recognised == {Plan[i] : i \in 1..Len(Plan)} \cup DOMAIN Canonical

Occurrences(values, line) == Cardinality({i \in 1..Len(values) : values[i] = line})
Holds(values, line) == Occurrences(values, line) > 0

-----------------------------------------------------------------------------
(* What the reads check. *)

(* collectRemoteFetchOpaxRefspecs *)
FetchReachesOpax(values, excluded) ==
    Holds(values, "wide") \/ (Holds(values, "branches") /\ ~excluded)

(* parseManagedRefspecValues *)
Parses(values) == \A i \in 1..Len(values) : values[i] \in Recognised

(* Preflight and the final read read the keys in the same order.  The push
   values are judged only after the mirror flag. *)
Reads == <<"url", "fetch", "push", "mirror", "ofetch", "opush">>

(* Mutant: the second Opax-owned key is not looked at. *)
InvalidButForPush(k, seen) ==
    \/ k = "fetch" /\ Occurrences(seen.fetch, "exclusion") > 1
    \/ k = "mirror" /\ Holds(seen.mirror, "junk")
    \/ k = "ofetch" /\ ~Parses(seen.ofetch)

(* What both of them call ErrInvalidRefspecConfig when key k was read. *)
Invalid(k, seen) ==
    \/ k = "fetch" /\ Occurrences(seen.fetch, "exclusion") > 1
    \/ k = "mirror" /\ Holds(seen.mirror, "junk")
    \/ k \in {"ofetch", "opush"} /\ ~Parses(seen[k])

(* readRefspecStateWithBackend: violations of isolation are reported, not
   refused. *)
StateVerdict(k, seen) ==
    CASE k = "url" /\ seen.url = << >> -> "missing"
      [] Invalid(k, seen)              -> "invalid"
      [] OTHER                         -> "ok"

(* validateRefspecApplyPreflight *)
PreflightVerdict(k, seen) ==
    CASE k = "url" /\ seen.url = << >>                             -> "missing"
      [] k = "fetch" /\ ~Holds(seen.fetch, "branches")             -> "invalid"
      [] Invalid(k, seen)                                          -> "invalid"
      [] k = "fetch" /\ FetchReachesOpax(seen.fetch, TRUE)         -> "isolation"
      [] k = "mirror" /\ (Holds(seen.mirror, "true")
                            \/ Holds(seen.push, "toOpax"))         -> "isolation"
      [] OTHER                                                     -> "ok"

(* DefaultSyncIsolationEnforced *)
Isolated(values) ==
    /\ Occurrences(values.fetch, "exclusion") = 1
    /\ ~FetchReachesOpax(values.fetch, TRUE)
    /\ ~Holds(values.mirror, "true")
    /\ ~Holds(values.push, "toOpax")

-----------------------------------------------------------------------------
(* The calls. *)

(* .git/opax.lock: the promise that FileLock keeps. *)
Lock == INSTANCE Mutex WITH Tasks <- Calls, Free <- Nobody, Lost <- Gone

NoValues == [k \in Keys |-> << >>]
Kept == {"fetch", "push", "mirror"}   \* the keys whose values are used later

Reading == {"check", "recheck", "state"}
Locked == {"recheck", "exclude", "write", "state", "release"}
Verdicts == {"ok", "missing", "invalid", "isolation", "failed", "timeout", "crashed"}
Refusals == {"missing", "invalid", "isolation"}

(* The repository before the first call: as cloned, as an earlier version or a
   crashed call left it, or as a person wrote it. *)
Init ==
    /\ \E init \in {[fetch |-> <<"branches", "tags">>, ofetch |-> << >>],
                   [fetch |-> <<"branches", "exclusion">>, ofetch |-> <<"notes", "+notes", "branch">>]} :
            cfg = [url |-> <<"url">>, fetch |-> init.fetch, push |-> << >>,
                   mirror |-> << >>, ofetch |-> init.ofetch, opush |-> << >>]
    /\ holder = Nobody
    /\ phase = [c \in Calls |-> "idle"]
    /\ at = [c \in Calls |-> 1]
    /\ got = [c \in Calls |-> NoValues]
    /\ out = [c \in Calls |-> "ok"]
    /\ edits = 0
    /\ base = [c \in Calls |-> 0]
    /\ wrote = {}

Goto(c, p) == /\ phase' = [phase EXCEPT ![c] = p]
              /\ at' = [at EXCEPT ![c] = 1]

Forget(c) == got' = [got EXCEPT ![c] = NoValues]

(* An error before the lock is taken returns at once; one under it leaves the
   deferred release to run. *)
Conclude(c, verdict) ==
    /\ Forget(c)
    /\ IF phase[c] \in Locked
       THEN Goto(c, "release") /\ out' = [out EXCEPT ![c] = verdict]
       ELSE Goto(c, verdict) /\ UNCHANGED out

Begin(c) ==
    /\ phase[c] = "idle"
    /\ Goto(c, "check")
    /\ UNCHANGED <<cfg, holder, got, out, edits, base, wrote>>

AfterReading(p) ==
    CASE p = "check" -> "lock" [] p = "recheck" -> "exclude" [] p = "state" -> "release"

(* git remote get-url, git config --get-all, git config --get *)
ReadKey(c) ==
    /\ phase[c] \in Reading
    /\ LET k == Reads[at[c]]
           seen == [got[c] EXCEPT ![k] = cfg[k]]
           verdict == IF phase[c] = "state" THEN StateVerdict(k, seen) ELSE PreflightVerdict(k, seen)
       IN  \/ verdict # "ok" /\ Conclude(c, verdict)
           \/ /\ verdict = "ok"
              /\ IF k \in Kept THEN got' = [got EXCEPT ![c] = seen] ELSE UNCHANGED got
              /\ IF at[c] < Len(Reads)
                 THEN at' = [at EXCEPT ![c] = @ + 1] /\ UNCHANGED phase
                 ELSE Goto(c, AfterReading(phase[c]))
              /\ UNCHANGED out
    /\ UNCHANGED <<cfg, holder, edits, base, wrote>>

(* Mutants: what was checked before the lock is not checked again; two calls of
   one process both go on; a call waits for the lock as long as it takes. *)
LockWithoutRecheck(c) ==
    /\ phase[c] = "lock"
    /\ \/ /\ holder = Nobody
          /\ holder' = c
          /\ base' = [base EXCEPT ![c] = edits]
          /\ Goto(c, "exclude")
       \/ Goto(c, "timeout") /\ UNCHANGED <<holder, base>>
    /\ UNCHANGED <<cfg, got, out, edits, wrote>>

LockTogether(c) ==
    /\ phase[c] = "lock"
    /\ holder # Gone
    /\ holder' = c
    /\ base' = [base EXCEPT ![c] = edits]
    /\ Goto(c, "recheck")
    /\ Forget(c)
    /\ UNCHANGED <<cfg, out, edits, wrote>>

LockForever(c) ==
    /\ phase[c] = "lock"
    /\ holder = Nobody
    /\ holder' = c
    /\ base' = [base EXCEPT ![c] = edits]
    /\ Goto(c, "recheck")
    /\ Forget(c)
    /\ UNCHANGED <<cfg, out, edits, wrote>>

(* acquireRefspecLock, with the lock file as the module Mutex has it: Acquire
   takes a free lock, or the call gives up (stale lock, deadline).  A lock that
   another goroutine of the process holds is waited for like any other. *)
AcquireRefspecLock(c) ==
    /\ phase[c] = "lock"
    /\ \/ /\ Lock!Grab(c)
          /\ base' = [base EXCEPT ![c] = edits]
          /\ Goto(c, "recheck")
       \/ Goto(c, "timeout") /\ UNCHANGED <<holder, base>>
    /\ Forget(c)
    /\ UNCHANGED <<cfg, out, edits, wrote>>

(* One git config command: all of it, or an error and nothing of it (the user
   holds .git/config.lock, the disk is full). *)
Write(c, new, then) ==
    \/ /\ cfg' = new
       /\ wrote' = wrote \cup {c}
       /\ Forget(c)
       /\ then
    \/ UNCHANGED <<cfg, wrote>> /\ Conclude(c, "failed")

(* Mutant: the fetch lines are written back as they were read. *)
ExcludeByRewriting(c) ==
    /\ phase[c] = "exclude"
    /\ Write(c, [cfg EXCEPT !.fetch = Append(SelectSeq(got[c].fetch, LAMBDA l : l # "exclusion"), "exclusion")],
             Goto(c, "write") /\ UNCHANGED out)
    /\ UNCHANGED <<holder, edits, base>>

AddExclusion(c) ==
    /\ phase[c] = "exclude"
    /\ \/ /\ ~Holds(got[c].fetch, "exclusion")
          /\ Write(c, [cfg EXCEPT !.fetch = Append(@, "exclusion")],
                   Goto(c, "write") /\ UNCHANGED out)
       \/ /\ Holds(got[c].fetch, "exclusion")
          /\ Forget(c)
          /\ Goto(c, "write")
          /\ UNCHANGED <<cfg, out, wrote>>
    /\ UNCHANGED <<holder, edits, base>>

(* reconcileManagedMultivar, for one key after the other: --unset-all, then
   --add for each canonical value. *)
CommandsPerKey == Len(Plan) + 1
Commands == 2 * CommandsPerKey
KeyOf(n) == IF n <= CommandsPerKey THEN "ofetch" ELSE "opush"
ValueOf(n) == (n - 1) % CommandsPerKey   \* 0 clears the key

Rewrite(c) ==
    /\ phase[c] = "write"
    /\ LET k == KeyOf(at[c])
           v == ValueOf(at[c])
       IN  Write(c, [cfg EXCEPT ![k] = IF v = 0 THEN << >> ELSE Append(@, Plan[v])],
                 /\ UNCHANGED out
                 /\ IF at[c] < Commands
                    THEN at' = [at EXCEPT ![c] = @ + 1] /\ UNCHANGED phase
                    ELSE Goto(c, "state"))
    /\ UNCHANGED <<holder, edits, base>>

(* A git command that reads fails. *)
ReadFails(c) ==
    /\ phase[c] \in Reading
    /\ Conclude(c, "failed")
    /\ UNCHANGED <<cfg, holder, edits, base, wrote>>

(* What no longer matters once a call is over. *)
Reset(c) ==
    /\ Forget(c)
    /\ out' = [out EXCEPT ![c] = "ok"]
    /\ base' = [base EXCEPT ![c] = 0]
    /\ wrote' = wrote \ {c}

(* The deferred Release.  If the file cannot be removed, the lock stays, and a
   call that has not failed yet fails now. *)
ReleaseLock(c) ==
    /\ phase[c] = "release"
    /\ \/ Lock!Drop(c) /\ Goto(c, out[c])
       \/ Lock!Lose(c) /\ Goto(c, IF out[c] = "ok" THEN "failed" ELSE out[c])
    /\ Reset(c)
    /\ UNCHANGED <<cfg, edits>>

(* The process dies: its lock file stays behind. *)
Crash(c) ==
    /\ phase[c] \in Reading \cup Locked \cup {"lock"}
    /\ Goto(c, "crashed")
    /\ \/ Lock!Lose(c)
       \/ holder # c /\ UNCHANGED holder
    /\ Reset(c)
    /\ UNCHANGED <<cfg, edits>>

-----------------------------------------------------------------------------
(* The user, who takes no lock. *)

(* git config --add, git config --unset-all, git remote remove *)
Edited ==
    \/ \E l \in FetchLines : cfg' = [cfg EXCEPT !.fetch = Append(@, l)]
    \/ \E l \in PushLines : cfg' = [cfg EXCEPT !.push = Append(@, l)]
    \/ \E l \in {"true", "junk"} : cfg' = [cfg EXCEPT !.mirror = <<l>>]
    \/ \E k \in {"ofetch", "opush"}, l \in {"notes", "junk"} : cfg' = [cfg EXCEPT ![k] = Append(@, l)]
    \/ \E k \in {"fetch", "push", "mirror", "ofetch"} : cfg' = [cfg EXCEPT ![k] = << >>]
    \/ cfg' = [cfg EXCEPT !.url = << >>, !.fetch = << >>, !.push = << >>, !.mirror = << >>]

UserEdits ==
    /\ edits < MaxEdits
    /\ Edited
    /\ edits' = edits + 1
    /\ UNCHANGED <<holder, phase, at, got, out, base, wrote>>

(* FEAT-0004: a lock file that was left behind is removed by hand. *)
ManualCleanup ==
    /\ Lock!Reclaim
    /\ UNCHANGED <<cfg, phase, at, got, out, edits, base, wrote>>

Advance(c) ==
    \/ ReadKey(c) \/ ReadFails(c)
    \/ AcquireRefspecLock(c)
    \/ AddExclusion(c) \/ Rewrite(c)
    \/ ReleaseLock(c)

Next ==
    \/ \E c \in Calls : Begin(c) \/ Advance(c) \/ Crash(c)
    \/ UserEdits
    \/ ManualCleanup

Spec == Init /\ [][Next]_vars

(* A goroutine that is inside ApplyRefspecPlan keeps running. *)
FairSpec == Spec /\ \A c \in Calls : WF_vars(Advance(c))

-----------------------------------------------------------------------------
(* Correctness. *)

(* A call has the lock to itself from the second preflight to the release, and
   no call that has returned still has it, whichever command failed. *)
LockCoversWrites ==
    \A c \in Calls : phase[c] \in Locked <=> holder = c

(* Apply converges: a call that is about to return success has put both keys of
   Opax's own into canonical form and left one exclusion and no delivery path
   for plain git, whatever other calls ran, failed or died half way before it,
   unless the user interfered while it held the lock. *)
OkMeansConfigured ==
    \A c \in Calls : phase[c] = "release" /\ out[c] = "ok" /\ edits = base[c] =>
        /\ cfg.ofetch = Plan /\ cfg.opush = Plan
        /\ Isolated(cfg) /\ Isolated(got[c])

(* A call that refuses the configuration has not written to it: only a user
   who edits it under the lock makes a call write first and refuse later. *)
RefusalsWriteNothing ==
    \A c \in Calls : phase[c] = "release" /\ out[c] \in Refusals /\ c \in wrote => edits > base[c]

(* Opax never takes a line from the user: a call's step appends at most one
   exclusion to the fetch lines, and leaves the push lines, the mirror flag and
   the remote alone, even when they change between its reads and its writes. *)
UserLinesStay ==
    [][phase' # phase \/ at' # at =>
        /\ cfg'.fetch \in {cfg.fetch, Append(cfg.fetch, "exclusion")}
        /\ cfg'.push = cfg.push /\ cfg'.mirror = cfg.mirror /\ cfg'.url = cfg.url]_vars

(* A value Opax does not recognise is not cleared away from a key of Opax's
   own, unless it was put there while the call held the lock. *)
UnknownValuesStay ==
    [][\A c \in Calls, k \in {"ofetch", "opush"} :
        phase[c] = "write" /\ edits = base[c] /\ Holds(cfg[k], "junk") => Holds(cfg'[k], "junk")]_cfg

(* Calls never double the exclusion between them: there are two only if the
   user has added one. *)
OneExclusion == edits = 0 => Occurrences(cfg.fetch, "exclusion") <= 1

(* A call that is not killed returns, although a lock left behind is nobody's
   to release. *)
ApplyReturns ==
    \A c \in Calls : phase[c] = "check" ~> phase[c] \in Verdicts
=============================================================================
