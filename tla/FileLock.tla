------------------------------ MODULE FileLock ------------------------------
(***************************************************************************)
(* internal/lock: the advisory lock file .git/opax.lock, taken by tasks    *)
(* (goroutines) of processes that start, exit, crash and have process IDs  *)
(* the operating system uses again.                                        *)
(*                                                                         *)
(* The file is created with O_EXCL and filled with the creator's PID in a  *)
(* later step.  A task that finds the file reads it in one step and asks   *)
(* whether that PID is alive in another.  The file is removed by path, not *)
(* by identity, so every file is given one: its creator and the number of  *)
(* the creator's call of Acquire.                                          *)
(*                                                                         *)
(* A file without a PID is given a grace period, measured from the time    *)
(* stamp that was read with it to the moment it is judged.  Time passes in *)
(* steps of its own (Tick), and a task may be held up between two of its   *)
(* steps for MaxPause ticks.                                               *)
(***************************************************************************)
EXTENDS Naturals

CONSTANTS
    Tasks,      \* the goroutines that take the lock
    Procs,      \* the processes they run in
    ProcOf,     \* ProcOf[t]: the process of task t
    PidOf,      \* PidOf[p]: the process ID of p; processes may share one in turn
    NoPid,      \* what a lock file holds before its metadata is written
    NoFile,     \* there is no file at the path
    MaxPolls,   \* polls before the deadline has surely passed (0: timeout zero)
    MaxCalls,   \* calls of Acquire one task makes
    Grace,      \* initializationGrace, in ticks
    MaxPause    \* the longest time, in ticks, between two steps that race with
                \* the grace period; more than Grace: no limit

ASSUME ProcsAssumption == ProcOf \in [Tasks -> Procs]
ASSUME PidAssumption == \A p \in Procs : PidOf[p] # NoPid
ASSUME BoundsAssumption ==
    MaxPolls \in Nat /\ MaxCalls \in Nat /\ Grace \in Nat /\ MaxPause \in Nat

VARIABLES
    file,       \* the file at the lock path
    proc,       \* proc[p]: the life of process p
    pc,         \* pc[t]: where task t is in Acquire or Release
    calls,      \* calls[t]: the calls of Acquire t has made
    polls,      \* polls[t]: how often the current call has slept
    look,       \* look[t]: the file as t read it, NoFile once that is of no use
    age,        \* the ticks since a file without a PID was created or written to
    lookAge,    \* lookAge[t]: the age of look[t] when t read it
    pause,      \* pause[t]: the ticks since the last step of t
    released    \* history: the files that Release removed

timeVars == <<age, lookAge, pause>>
lockVars == <<file, proc, pc, calls, polls, look, timeVars, released>>

Pids == {PidOf[p] : p \in Procs}
File == [owner : Tasks, call : 1..MaxCalls, pid : Pids \cup {NoPid}]

ASSUME FileAssumption == NoFile \notin File

Returned == {"idle", "timeout", "stale", "alreadyHeld", "error", "released", "releaseError"}
Owning == {"write", "cleanup", "holding", "remove"}

(* Times beyond the grace period are all alike. *)
Ticks == 0..(Grace + 1)
Older(n) == IF n > Grace THEN n ELSE n + 1

LockTypeOK ==
    /\ file \in File \cup {NoFile}
    /\ proc \in [Procs -> {"unborn", "live", "exited", "crashed"}]
    /\ pc \in [Tasks -> {"open", "inspect", "judge", "dead"} \cup Returned \cup Owning]
    /\ calls \in [Tasks -> 0..MaxCalls]
    /\ polls \in [Tasks -> 0..MaxPolls]
    /\ look \in [Tasks -> File \cup {NoFile}]
    /\ age \in Ticks
    /\ lookAge \in [Tasks -> Ticks]
    /\ pause \in [Tasks -> Ticks]
    /\ released \subseteq (Tasks \X (1..MaxCalls))

LockInit ==
    /\ file = NoFile
    /\ proc = [p \in Procs |-> "unborn"]
    /\ pc = [t \in Tasks |-> "idle"]
    /\ calls = [t \in Tasks |-> 0]
    /\ polls = [t \in Tasks |-> 0]
    /\ look = [t \in Tasks |-> NoFile]
    /\ age = 0
    /\ lookAge = [t \in Tasks |-> 0]
    /\ pause = [t \in Tasks |-> 0]
    /\ released = {}

Goto(t, s) ==
    /\ pc' = [pc EXCEPT ![t] = s]
    /\ pause' = [pause EXCEPT ![t] = 0]

See(t, f, n) ==
    /\ look' = [look EXCEPT ![t] = f]
    /\ lookAge' = [lookAge EXCEPT ![t] = n]

Blank(f) == f # NoFile /\ f.pid = NoPid
Alive(pid) == \E p \in Procs : PidOf[p] = pid /\ proc[p] = "live"
OwnFile(t, f) == f # NoFile /\ f.owner = t /\ f.call = calls[t]

(* The call that created f is still between creating and removing it. *)
InUse(f) == pc[f.owner] \in Owning /\ calls[f.owner] = f.call

(* Acquire is called. *)
Start(t) ==
    /\ pc[t] \in Returned
    /\ proc[ProcOf[t]] = "live"
    /\ calls[t] < MaxCalls
    /\ calls' = [calls EXCEPT ![t] = @ + 1]
    /\ polls' = [polls EXCEPT ![t] = 0]
    /\ See(t, NoFile, 0)
    /\ Goto(t, "open")
    /\ UNCHANGED <<file, proc, age, released>>

(* Mutant: O_EXCL is missing. *)
OpenAnyway(t) ==
    /\ pc[t] = "open"
    /\ file' = [owner |-> t, call |-> calls[t], pid |-> NoPid]
    /\ age' = 0
    /\ Goto(t, "write")
    /\ UNCHANGED <<proc, calls, polls, look, lookAge, released>>

(* O_CREATE|O_EXCL: the file appears, empty, or the one that exists wins. *)
Open(t) ==
    /\ pc[t] = "open"
    /\ \/ /\ file = NoFile
          /\ file' = [owner |-> t, call |-> calls[t], pid |-> NoPid]
          /\ age' = 0
          /\ Goto(t, "write")
       \/ /\ file # NoFile
          /\ Goto(t, "inspect")
          /\ UNCHANGED <<file, age>>
    /\ UNCHANGED <<proc, calls, polls, look, lookAge, released>>

(* The metadata goes to the open descriptor: it reaches the path only while
   the path still names this task's file.  It may be there in full although
   Sync fails, or in part, which looks like no PID at all. *)
WriteLockInfo(t) ==
    /\ pc[t] = "write"
    /\ \/ /\ file' = IF OwnFile(t, file) THEN [file EXCEPT !.pid = PidOf[ProcOf[t]]] ELSE file
          /\ age' = 0
          /\ Goto(t, "holding") \/ Goto(t, "cleanup")
       \/ /\ Goto(t, "cleanup")
          /\ age' \in {0, age}
          /\ UNCHANGED file
    /\ UNCHANGED <<proc, calls, polls, look, lookAge, released>>

(* The write failed: whatever file is at the path is removed. *)
CleanupPartialLock(t) ==
    /\ pc[t] = "cleanup"
    /\ \/ file' = NoFile /\ age' = 0
       \/ UNCHANGED <<file, age>>
    /\ Goto(t, "error")
    /\ UNCHANGED <<proc, calls, polls, look, lookAge, released>>

(* readLockFile; a file that is gone by now counts as free to retry. *)
ReadLockFile(t) ==
    /\ pc[t] = "inspect"
    /\ See(t, file, age)
    /\ Goto(t, "judge")
    /\ UNCHANGED <<file, proc, calls, polls, age, released>>

(* Mutants: one poll too many; no deadline. *)
PollLate(t) ==
    /\ See(t, NoFile, 0)
    /\ \/ Goto(t, "timeout") /\ UNCHANGED polls
       \/ /\ polls[t] <= MaxPolls
          /\ polls' = [polls EXCEPT ![t] = @ + 1]
          /\ Goto(t, "open")

PollForever(t) ==
    /\ See(t, NoFile, 0)
    /\ Goto(t, "open")
    /\ UNCHANGED polls

(* Neither stale nor ours: time is up, or sleep and try again. *)
PollAgain(t) ==
    /\ See(t, NoFile, 0)
    /\ \/ Goto(t, "timeout") /\ UNCHANGED polls
       \/ /\ polls[t] < MaxPolls
          /\ polls' = [polls EXCEPT ![t] = @ + 1]
          /\ Goto(t, "open")

Refuse(t, verdict) ==
    /\ See(t, look[t], 0)
    /\ Goto(t, verdict)
    /\ UNCHANGED polls

(* Mutants: a stale blank file is removed and taken over; a blank file is stale
   a tick too early. *)
JudgeAndSteal(t) ==
    /\ pc[t] = "judge"
    /\ PollAgain(t)
    /\ IF Blank(look[t]) /\ lookAge[t] + pause[t] > Grace
       THEN file' = NoFile /\ age' = 0
       ELSE UNCHANGED <<file, age>>
    /\ UNCHANGED <<proc, calls, released>>

JudgeEarly(t) ==
    /\ pc[t] = "judge"
    /\ IF Blank(look[t]) /\ lookAge[t] + pause[t] >= Grace
       THEN Refuse(t, "stale")
       ELSE PollAgain(t)
    /\ UNCHANGED <<file, proc, calls, age, released>>

(* inspectLockFile, on what was read: by now the file may be another. *)
Judge(t) ==
    /\ pc[t] = "judge"
    /\ \/ look[t] = NoFile /\ PollAgain(t)
       \/ /\ Blank(look[t])
          /\ IF lookAge[t] + pause[t] > Grace THEN Refuse(t, "stale") ELSE PollAgain(t)
       \/ /\ look[t] # NoFile /\ ~Blank(look[t])
          /\ IF look[t].pid = PidOf[ProcOf[t]] THEN Refuse(t, "alreadyHeld")
             ELSE IF Alive(look[t].pid) THEN PollAgain(t)
             ELSE Refuse(t, "stale")
    /\ UNCHANGED <<file, proc, calls, age, released>>

(* Mutant: giving up tidies the path. *)
AcquireFailsAndRemoves(t) ==
    /\ pc[t] \in {"open", "inspect", "judge"}
    /\ Goto(t, "error")
    /\ file' = NoFile /\ age' = 0
    /\ UNCHANGED <<proc, calls, polls, look, lookAge, released>>

(* Any other failure of open, read, stat or kill. *)
AcquireFails(t) ==
    /\ pc[t] \in {"open", "inspect", "judge"}
    /\ See(t, NoFile, 0)
    /\ Goto(t, "error")
    /\ UNCHANGED <<file, proc, calls, polls, age, released>>

(* Release closes the descriptor and then removes the path. *)
Release(t) ==
    /\ pc[t] = "holding"
    /\ Goto(t, "remove")
    /\ UNCHANGED <<file, proc, calls, polls, look, age, lookAge, released>>

Remove(t) ==
    /\ pc[t] = "remove"
    /\ \/ /\ file' = NoFile /\ age' = 0
          /\ released' = IF file = NoFile THEN released
                         ELSE released \cup {<<file.owner, file.call>>}
          /\ Goto(t, "released")
       \/ Goto(t, "releaseError") /\ UNCHANGED <<file, age, released>>
    /\ UNCHANGED <<proc, calls, polls, look, lookAge>>

-----------------------------------------------------------------------------
(* Processes come and go. A PID is given to one live process at a time. *)
Spawn(p) ==
    /\ proc[p] = "unborn"
    /\ ~Alive(PidOf[p])
    /\ proc' = [proc EXCEPT ![p] = "live"]
    /\ UNCHANGED <<file, pc, calls, polls, look, timeVars, released>>

TasksOf(p) == {t \in Tasks : ProcOf[t] = p}

ProcessEnds(p, how) ==
    /\ proc[p] = "live"
    /\ proc' = [proc EXCEPT ![p] = how]
    /\ pc' = [t \in Tasks |-> IF t \in TasksOf(p) THEN "dead" ELSE pc[t]]
    /\ look' = [t \in Tasks |-> IF t \in TasksOf(p) THEN NoFile ELSE look[t]]
    /\ lookAge' = [t \in Tasks |-> IF t \in TasksOf(p) THEN 0 ELSE lookAge[t]]
    /\ pause' = [t \in Tasks |-> IF t \in TasksOf(p) THEN 0 ELSE pause[t]]
    /\ UNCHANGED <<file, calls, polls, age, released>>

Exit(p) == (\A t \in TasksOf(p) : pc[t] \in Returned) /\ ProcessEnds(p, "exited")

Crash(p) == ProcessEnds(p, "crashed")

(* Manual cleanup, FEAT-0004: a user removes a lock file by hand once they have
   made sure that nobody holds it any more. *)
ManualCleanup ==
    /\ file # NoFile
    /\ IF file.pid = NoPid THEN ~InUse(file) ELSE ~Alive(file.pid)
    /\ file' = NoFile /\ age' = 0
    /\ UNCHANGED <<proc, pc, calls, polls, look, lookAge, pause, released>>

(* Between these steps a delay matters to the grace period: create and write,
   a failed write and the removal, a read that found no PID and its judgement. *)
Timed(t) == pc[t] \in {"write", "cleanup"} \/ (pc[t] = "judge" /\ Blank(look[t]))

(* Time passes, unless a task has been held up for as long as it can be. *)
Tick ==
    /\ \A t \in Tasks : Timed(t) => pause[t] < MaxPause
    /\ pause' = [t \in Tasks |-> IF Timed(t) THEN Older(pause[t]) ELSE 0]
    /\ age' = IF Blank(file) THEN Older(age) ELSE 0
    /\ UNCHANGED <<file, proc, pc, calls, polls, look, lookAge, released>>

Acquire(t) == Open(t) \/ WriteLockInfo(t) \/ CleanupPartialLock(t) \/ ReadLockFile(t) \/ Judge(t)
World == ManualCleanup \/ Tick \/ \E p \in Procs : Spawn(p) \/ Exit(p) \/ Crash(p)

LockNext ==
    \/ \E t \in Tasks : Start(t) \/ Acquire(t) \/ AcquireFails(t) \/ Release(t) \/ Remove(t)
    \/ World

LockSpec == LockInit /\ [][LockNext]_lockVars

(* Go runs every goroutine of a live process, and callers defer Release. *)
FairLockSpec ==
    /\ LockSpec
    /\ \A t \in Tasks : WF_lockVars(Acquire(t)) /\ WF_lockVars(Release(t) \/ Remove(t))

-----------------------------------------------------------------------------
(* Whoever is between creating the lock file and removing it finds its own
   file at the path: no two tasks hold the lock, in whatever processes, and
   removing by path never removes the lock of another. *)
HolderOwnsFile == \A t \in Tasks : pc[t] \in Owning => OwnFile(t, file)

(* Fail closed: no step of the code removes, replaces or fills in the lock file
   of another call, whether that call is still at work, has come back or is
   dead, and so whatever Acquire found out about the file: only a step of the
   call that created the file does, or a person. *)
OthersFilesStay ==
    [][file # NoFile /\ file' # file
         => ManualCleanup \/ (InUse(file) /\ pc'[file.owner] # pc[file.owner])]_lockVars

(* The lock file implements the mutual exclusion that its users count on. *)
Holder ==
    IF file = NoFile THEN "free" ELSE IF InUse(file) THEN file.owner ELSE "lost"

Exclusion == INSTANCE Mutex WITH Free <- "free", Lost <- "lost", holder <- Holder

ImplementsMutex == Exclusion!Spec

(* ErrStaleLock is never returned for a lock that is held at that moment, as
   long as two pauses in a row, one of the holder before its PID is in the file
   and one of the waiter before it judges what it read, fit into the grace
   period (2 * MaxPause <= Grace). *)
StaleIsNotHeld ==
    \A t \in Tasks : pc[t] = "stale" => ~InUse(look[t])

(* Acquire always comes back, with the lock or an error, or dies. *)
AcquireReturns ==
    \A t \in Tasks : pc[t] = "open" ~> pc[t] \in Returned \cup {"holding", "dead"}

(* FEAT-0004, Acceptance Criteria: a process that waits for the lock gets it
   after the holder releases it; ErrStaleLock is for locks left behind. *)
StaleMeansLeftBehind ==
    \A t \in Tasks : pc[t] = "stale" => <<look[t].owner, look[t].call>> \notin released
=============================================================================
