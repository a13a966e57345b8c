----------------------------- MODULE Bootstrap ------------------------------
(***************************************************************************)
(* EnsureOpaxBranch (internal/git/opax_branch.go): goroutines of several   *)
(* processes create refs/heads/opax/v1 at the same time.  The call looks   *)
(* for the branch without the lock, takes the lock file of FileLock, looks *)
(* again, creates the branch by compare-and-swap from "no such reference", *)
(* validates it and releases the lock on every path.  Writers extend the   *)
(* branch, and a user may fetch it, without taking any lock.               *)
(***************************************************************************)
EXTENDS FileLock, GitRef

CONSTANTS
    Stamps,     \* the wall-clock seconds an initial commit may be stamped with
    Fetched,    \* the initial commit of the branch somebody else published
    Foreign,    \* the commit of a branch of that name that is not Opax's
    Record,     \* any later commit
    MaxHeight,  \* bound: the longest branch considered
    LostAck     \* may update-ref move the reference and still exit non-zero?

ASSUME DistinctCommits ==
    /\ Fetched \notin Stamps /\ Foreign \notin Stamps /\ Fetched # Foreign
    /\ Record \notin Stamps \cup {Fetched, Foreign}

VARIABLES
    branch,     \* the hash the reference points to
    step,       \* step[t]: the step of EnsureOpaxBranch t is about to take
    tip,        \* tip[t]: the commit t resolved or built, and will return
    exit,       \* exit[t]: how the failed update-ref of t exited
    err         \* err[t]: has the part under the lock failed?

ensureVars == <<branch, step, tip, exit, err>>
bootVars == <<lockVars, ensureVars>>

Inside == {"resolve", "validate", "locking", "recheck", "create", "publish", "probe",
           "validateLocked", "releasing"}
Answers == {"ok", "timedOut", "failed"}

(* The hashes of the branch: sequences of commits, as in GitRef. *)
Hash == Seq(Stamps \cup {Fetched, Foreign, Record})

BootTypeOK ==
    /\ LockTypeOK
    /\ branch \in Hash
    /\ step \in [Tasks -> {"none"} \cup Inside \cup Answers]
    /\ tip \in [Tasks -> Hash]
    /\ exit \in [Tasks -> {"ok", "conflict", "error", "lost"}]
    /\ err \in [Tasks -> BOOLEAN]

BootInit ==
    /\ LockInit
    /\ branch \in {NoRef, <<Foreign>>}
    /\ step = [t \in Tasks |-> "none"]
    /\ tip = [t \in Tasks |-> NoRef]
    /\ exit = [t \in Tasks |-> "ok"]
    /\ err = [t \in Tasks |-> FALSE]

(* Task t is at s, and its process runs. *)
At(t, s) == step[t] = s /\ proc[ProcOf[t]] = "live" /\ pc[t] # "dead"
To(t, s) == step' = [step EXCEPT ![t] = s]

(* validateResolvedOpaxBranchTip: the sentinel at the tip and at the root. *)
Valid(hash) == hash # NoRef /\ hash[1] # Foreign

Call(t) ==
    /\ At(t, "none")
    /\ To(t, "resolve")
    /\ UNCHANGED <<lockVars, branch, tip, exit, err>>

(* The first look, without the lock.  The deadline may pass at any turn of the
   loop, and has passed once t has called Acquire MaxCalls times. *)
Resolve(t) ==
    /\ At(t, "resolve")
    /\ \/ /\ branch # NoRef
          /\ tip' = [tip EXCEPT ![t] = branch]
          /\ To(t, "validate")
          /\ UNCHANGED lockVars
       \/ branch = NoRef /\ To(t, "timedOut") /\ UNCHANGED <<lockVars, tip>>
       \/ branch = NoRef /\ Start(t) /\ To(t, "locking") /\ UNCHANGED tip
    /\ UNCHANGED <<branch, exit, err>>

(* Validation resolves the reference a second time. *)
ValidateFound(t) ==
    /\ At(t, "validate")
    /\ To(t, IF Valid(branch) THEN "ok" ELSE "failed")
    /\ UNCHANGED <<lockVars, branch, tip, exit, err>>

(* Mutants: going on although this process has the lock already; no case for
   the errors of Acquire. *)
LockedByOurselves(t) ==
    /\ At(t, "locking")
    /\ \/ pc[t] \in {"holding", "alreadyHeld"} /\ To(t, "recheck")
       \/ pc[t] = "timeout" /\ To(t, "timedOut")
       \/ pc[t] \in {"stale", "error"} /\ To(t, "failed")
    /\ UNCHANGED <<lockVars, branch, tip, exit, err>>

LockedOrNothing(t) ==
    /\ At(t, "locking")
    /\ \/ pc[t] = "holding" /\ To(t, "recheck")
       \/ pc[t] = "alreadyHeld" /\ To(t, "resolve")
       \/ pc[t] = "timeout" /\ To(t, "timedOut")
    /\ UNCHANGED <<lockVars, branch, tip, exit, err>>

(* lock.Acquire has come back. *)
Locked(t) ==
    /\ At(t, "locking")
    /\ \/ pc[t] = "holding" /\ To(t, "recheck")
       \/ pc[t] = "alreadyHeld" /\ To(t, "resolve")
       \/ pc[t] = "timeout" /\ To(t, "timedOut")
       \/ pc[t] \in {"stale", "error"} /\ To(t, "failed")
    /\ UNCHANGED <<lockVars, branch, tip, exit, err>>

(* ensureOpaxBranchWhileLocked looks again. *)
Recheck(t) ==
    /\ At(t, "recheck")
    /\ \/ branch # NoRef /\ tip' = [tip EXCEPT ![t] = branch] /\ To(t, "validateLocked")
       \/ branch = NoRef /\ To(t, "create") /\ UNCHANGED tip
    /\ UNCHANGED <<lockVars, branch, exit, err>>

Create(t) ==
    /\ At(t, "create")
    /\ \E s \in Stamps : tip' = [tip EXCEPT ![t] = <<s>>]
    /\ To(t, "publish")
    /\ UNCHANGED <<lockVars, branch, exit, err>>

(* git update-ref <ref> <new> 000...0 *)
Publish(t) ==
    /\ At(t, "publish")
    /\ \E end \in UpdateRefEnds(branch, tip[t], NoRef, LostAck) :
            /\ branch' = end.ref
            /\ exit' = [exit EXCEPT ![t] = end.exit]
            /\ To(t, IF end.exit = "ok" THEN "validateLocked" ELSE "probe")
    /\ UNCHANGED <<lockVars, tip, err>>

(* Mutant: an early return on error skips Release. *)
ConcludeEarly(t, failed) ==
    /\ To(t, IF failed THEN "failed" ELSE "releasing")
    /\ err' = [err EXCEPT ![t] = failed]

Conclude(t, failed) ==
    /\ To(t, "releasing")
    /\ err' = [err EXCEPT ![t] = failed]

(* Mutant: a branch that somebody else made is as good as one's own. *)
ProbeAnyCreated(t) ==
    /\ At(t, "probe")
    /\ \E verdict \in ProbeVerdicts(branch, tip[t], NoRef, exit[t]) :
            \/ verdict # "unknown" /\ To(t, "validateLocked") /\ UNCHANGED err
            \/ verdict = "unknown" /\ Conclude(t, TRUE)
    /\ UNCHANGED <<lockVars, branch, tip, exit>>

(* A lost race is an error here: nobody else should be creating the branch. *)
ProbeCreated(t) ==
    /\ At(t, "probe")
    /\ \E verdict \in ProbeVerdicts(branch, tip[t], NoRef, exit[t]) :
            \/ verdict = "applied" /\ To(t, "validateLocked") /\ UNCHANGED err
            \/ verdict # "applied" /\ Conclude(t, TRUE)
    /\ UNCHANGED <<lockVars, branch, tip, exit>>

ValidateLocked(t) ==
    /\ At(t, "validateLocked")
    /\ Conclude(t, ~Valid(branch))
    /\ UNCHANGED <<lockVars, branch, tip, exit>>

(* branchLock.Release() *)
ReleaseLock(t) ==
    /\ At(t, "releasing")
    /\ Release(t)
    /\ UNCHANGED ensureVars

(* The error of the locked part wins over an error of Release. *)
Return(t) ==
    /\ At(t, "releasing")
    /\ pc[t] \in {"released", "releaseError"}
    /\ To(t, IF err[t] \/ pc[t] = "releaseError" THEN "failed" ELSE "ok")
    /\ UNCHANGED <<lockVars, branch, tip, exit, err>>

(* Any git command may fail; under the lock, the lock is still released. *)
GitFails(t) ==
    /\ \/ (At(t, "resolve") \/ At(t, "validate")) /\ To(t, "failed") /\ UNCHANGED err
       \/ /\ At(t, "recheck") \/ At(t, "create") \/ At(t, "validateLocked")
          /\ Conclude(t, TRUE)
    /\ UNCHANGED <<lockVars, branch, tip, exit>>

(* The process has died while its git update-ref was running: the child may
   still move the reference, long after the lock was cleaned up. *)
OrphanPublish(t) ==
    /\ step[t] = "publish" /\ pc[t] = "dead"
    /\ branch = NoRef
    /\ branch' = tip[t]
    /\ To(t, "failed")
    /\ UNCHANGED <<lockVars, tip, exit, err>>

-----------------------------------------------------------------------------
(* A user fetches the branch that another clone created. *)
FetchBranch ==
    /\ branch = NoRef
    /\ branch' = <<Fetched>>
    /\ UNCHANGED <<lockVars, step, tip, exit, err>>

(* WriteRecord needs no lock. *)
Extend ==
    /\ Valid(branch)
    /\ Len(branch) < MaxHeight
    /\ branch' = Append(branch, Record)
    /\ UNCHANGED <<lockVars, step, tip, exit, err>>

Ensure(t) ==
    \/ Resolve(t) \/ ValidateFound(t) \/ Locked(t) \/ Recheck(t) \/ Create(t)
    \/ Publish(t) \/ ProbeCreated(t) \/ ValidateLocked(t) \/ ReleaseLock(t) \/ Return(t)

LockStep(t) == (Acquire(t) \/ AcquireFails(t) \/ Remove(t)) /\ UNCHANGED ensureVars

BootNext ==
    \/ \E t \in Tasks : Call(t) \/ Ensure(t) \/ GitFails(t) \/ OrphanPublish(t) \/ LockStep(t)
    \/ World /\ UNCHANGED ensureVars
    \/ FetchBranch \/ Extend

BootSpec == BootInit /\ [][BootNext]_bootVars

FairBootSpec ==
    /\ BootSpec
    /\ \A t \in Tasks : WF_bootVars(Ensure(t)) /\ WF_bootVars(LockStep(t))

-----------------------------------------------------------------------------
(* Everyone who is told "ok" was given a commit of the one Opax branch there is,
   so concurrent callers agree on its root. *)
OkTipsAreOnTheBranch ==
    \A t \in Tasks : step[t] = "ok" =>
        Valid(tip[t]) /\ IsAncestor(tip[t], branch)

(* EnsureOpaxBranch gives the lock back on every path, errors included: once it
   has returned, its lock file is gone unless removing it failed. *)
NoLeakedLock ==
    \A t \in Tasks : step[t] \in Answers => pc[t] \notin Owning

(* From the second look to the validation, the lock file at the path is the
   caller's own: no other process and no other goroutine is in there, and the
   call never goes on without the lock when Acquire refused it. *)
LockCoversCreation ==
    \A t \in Tasks :
        (\E s \in {"recheck", "create", "publish", "probe", "validateLocked"} : At(t, s))
            => pc[t] = "holding" /\ OwnFile(t, file)

(* A call on a process that lives returns. *)
EnsureReturns ==
    \A t \in Tasks : step[t] = "resolve" ~> (step[t] \in Answers \/ pc[t] = "dead")
=============================================================================
