-------------------------- MODULE BootstrapProofs ---------------------------
(***************************************************************************)
(* FileLock, and Bootstrap on top of it: for every set of tasks and        *)
(* processes, every assignment of tasks to processes and of process IDs to *)
(* processes, every set of time stamps, every bound on polls, calls and    *)
(* the height of the branch, and whether or not update-ref may move the    *)
(* reference and fail.                                                     *)
(*                                                                         *)
(* HolderOwnsFile is not inductive by itself.  A person may remove a file  *)
(* whose PID is dead, so the PID in a file has to be its creator's         *)
(* (PidsAreCreators) and a task that holds the lock has to be alive        *)
(* (AtWorkIsAlive).  A verdict on what was read earlier stays true because *)
(* a call creates at most one file (CallsAreSpent).                        *)
(*                                                                         *)
(* EnsureOpaxBranch uses the lock as FileLock lets it (UsesTheLock), so    *)
(* what is proved of the lock holds under it; StepsAndLock ties the step   *)
(* of a call to where it is in Acquire and Release.                        *)
(***************************************************************************)
EXTENDS Bootstrap, GitRefProofs

-----------------------------------------------------------------------------
(* The lock file. *)

Waiting == {"open", "inspect", "judge"}

(* A task that is inside Acquire or Release belongs to a live process. *)
AtWorkIsAlive ==
    \A t \in Tasks : pc[t] \in Waiting \cup Owning => proc[ProcOf[t]] = "live"

(* A task that tries to create the file is in one of its calls. *)
CallsAreCounted == \A t \in Tasks : pc[t] \in Waiting => calls[t] # 0

(* The call that created f was made, and is past its attempt to create. *)
Spent(f) ==
    /\ f.call <= calls[f.owner]
    /\ f.call = calls[f.owner] => pc[f.owner] \notin Waiting

(* What f says about its creator is right. *)
Signed(f) == f.pid # NoPid => f.pid = PidOf[ProcOf[f.owner]]

PidsAreCreators ==
    /\ file # NoFile => Signed(file)
    /\ \A t \in Tasks : look[t] # NoFile => Signed(look[t])

CallsAreSpent ==
    /\ file # NoFile => Spent(file)
    /\ \A t \in Tasks : look[t] # NoFile => Spent(look[t])

LockInv ==
    /\ LockTypeOK
    /\ CallsAreCounted
    /\ HolderOwnsFile
    /\ AtWorkIsAlive
    /\ PidsAreCreators
    /\ CallsAreSpent

(* ErrStaleLock is returned about a file that was there. *)
StaleInv ==
    \A t \in Tasks : pc[t] = "stale" => look[t] # NoFile /\ ~InUse(look[t])

(* Who has created a file and not yet filled it in has done so for this long. *)
MadeBlank == {"write", "cleanup"}
HeldFor(o) == IF pc[o] = "write" THEN pause[o] ELSE MaxPause + pause[o]

(* A file without a PID that is in use is no older than the pauses of its
   creator so far; read by a waiter and filled in since, no older than the one
   pause before that and the waiter's own since the reading. *)
YoungWhileInUse ==
    /\ \A t \in Tasks : Timed(t) => pause[t] <= MaxPause
    /\ Blank(file) /\ InUse(file) =>
            pc[file.owner] \in MadeBlank /\ age <= HeldFor(file.owner)
    /\ \A t \in Tasks : pc[t] = "judge" /\ Blank(look[t]) /\ InUse(look[t]) =>
            lookAge[t] + pause[t] <=
                IF pc[look[t].owner] \in MadeBlank THEN HeldFor(look[t].owner)
                ELSE MaxPause + pause[t]

-----------------------------------------------------------------------------
(* Types. *)

LEMMA LockTypeInit == LockInit => LockTypeOK
BY BoundsAssumption DEF LockInit, LockTypeOK, Returned, Ticks

(* Every process ID that is written into a file is one of Pids. *)
LEMMA PidsOfTasks == \A t \in Tasks : ProcOf[t] \in Procs /\ PidOf[ProcOf[t]] \in Pids
BY ProcsAssumption DEF Pids

LEMMA LockTypeStep ==
    ASSUME LockTypeOK, CallsAreCounted, [LockNext]_lockVars
    PROVE  LockTypeOK'
<1> USE BoundsAssumption DEF LockTypeOK, Goto, See, Ticks, Returned, Owning
<1>1. ASSUME NEW t \in Tasks, Start(t) PROVE LockTypeOK'
    BY <1>1, BoundsAssumption DEF Start
<1>2. ASSUME NEW t \in Tasks, Open(t) PROVE LockTypeOK'
    <2>1. calls[t] \in 1..MaxCalls
        BY <1>2, BoundsAssumption DEF Open, CallsAreCounted, Waiting
    <2>2. [owner |-> t, call |-> calls[t], pid |-> NoPid] \in File
        BY <2>1 DEF File
    <2>3. file' \in File \cup {NoFile}
        BY <1>2, <2>2 DEF Open
    <2> QED  BY <1>2, <2>3 DEF Open
<1>3. ASSUME NEW t \in Tasks, WriteLockInfo(t) PROVE LockTypeOK'
    <2>1. file' \in File \cup {NoFile}
        BY <1>3, PidsOfTasks DEF WriteLockInfo, OwnFile, File
    <2> QED  BY <1>3, <2>1 DEF WriteLockInfo
<1>4. ASSUME NEW t \in Tasks, CleanupPartialLock(t) PROVE LockTypeOK'
    BY <1>4 DEF CleanupPartialLock
<1>5. ASSUME NEW t \in Tasks, ReadLockFile(t) PROVE LockTypeOK'
    BY <1>5 DEF ReadLockFile
<1>6. ASSUME NEW t \in Tasks, Judge(t) PROVE LockTypeOK'
    BY <1>6, BoundsAssumption DEF Judge, PollAgain, Refuse
<1>7. ASSUME NEW t \in Tasks, AcquireFails(t) PROVE LockTypeOK'
    BY <1>7 DEF AcquireFails
<1>8. ASSUME NEW t \in Tasks, Release(t) PROVE LockTypeOK'
    BY <1>8 DEF Release
<1>9. ASSUME NEW t \in Tasks, Remove(t) PROVE LockTypeOK'
    BY <1>9 DEF Remove, File
<1>10. ASSUME NEW p \in Procs, Spawn(p) PROVE LockTypeOK'
    BY <1>10 DEF Spawn, timeVars
<1>11. ASSUME NEW p \in Procs, Exit(p) \/ Crash(p) PROVE LockTypeOK'
    BY <1>11 DEF Exit, Crash, ProcessEnds
<1>12. CASE ManualCleanup
    BY <1>12 DEF ManualCleanup
<1>13. CASE Tick
    BY <1>13 DEF Tick, Older
<1>14. CASE UNCHANGED lockVars
    BY <1>14 DEF lockVars, timeVars
<1> QED
    BY <1>1, <1>2, <1>3, <1>4, <1>5, <1>6, <1>7, <1>8, <1>9, <1>10, <1>11, <1>12, <1>13,
       <1>14 DEF LockNext, Acquire, World

-----------------------------------------------------------------------------
(* The invariant. *)

LEMMA LockInvInit == LockInit => LockInv
BY LockTypeInit
   DEF LockInit, LockInv, CallsAreCounted, HolderOwnsFile, AtWorkIsAlive,
       PidsAreCreators, CallsAreSpent, Waiting, Owning

LEMMA LockInvStep ==
    ASSUME LockInv, [LockNext]_lockVars
    PROVE  LockInv'
<1>0. LockTypeOK'
    BY LockTypeStep DEF LockInv
<1> USE <1>0, FileAssumption, PidAssumption, PidsOfTasks DEF LockInv, LockTypeOK,
        Goto, See, Waiting, Returned, Owning, OwnFile, CallsAreCounted, HolderOwnsFile,
        AtWorkIsAlive, PidsAreCreators, Signed, CallsAreSpent, Spent, File
<1>1. ASSUME NEW t \in Tasks, Start(t) PROVE LockInv'
    BY <1>1 DEF Start
<1>2. ASSUME NEW t \in Tasks, Open(t) PROVE LockInv'
    <2>1. CASE file = NoFile
        BY <1>2, <2>1 DEF Open
    <2>2. CASE file # NoFile
        BY <1>2, <2>2 DEF Open
    <2> QED  BY <2>1, <2>2
<1>3. ASSUME NEW t \in Tasks, WriteLockInfo(t) PROVE LockInv'
    BY <1>3 DEF WriteLockInfo
<1>4. ASSUME NEW t \in Tasks, CleanupPartialLock(t) PROVE LockInv'
    BY <1>4 DEF CleanupPartialLock
<1>5. ASSUME NEW t \in Tasks, ReadLockFile(t) PROVE LockInv'
    BY <1>5 DEF ReadLockFile
<1>6. ASSUME NEW t \in Tasks, Judge(t) PROVE LockInv'
    BY <1>6 DEF Judge, PollAgain, Refuse
<1>7. ASSUME NEW t \in Tasks, AcquireFails(t) PROVE LockInv'
    BY <1>7 DEF AcquireFails
<1>8. ASSUME NEW t \in Tasks, Release(t) PROVE LockInv'
    BY <1>8 DEF Release
<1>9. ASSUME NEW t \in Tasks, Remove(t) PROVE LockInv'
    BY <1>9 DEF Remove
<1>10. ASSUME NEW p \in Procs, Spawn(p) PROVE LockInv'
    BY <1>10 DEF Spawn
<1>11. ASSUME NEW p \in Procs, Exit(p) \/ Crash(p) PROVE LockInv'
    BY <1>11, ProcsAssumption DEF Exit, Crash, ProcessEnds, TasksOf
<1>12. CASE ManualCleanup
    BY <1>12 DEF ManualCleanup, InUse, Alive
<1>13. CASE Tick
    BY <1>13 DEF Tick
<1>14. CASE UNCHANGED lockVars
    BY <1>14 DEF lockVars, timeVars
<1> QED
    BY <1>1, <1>2, <1>3, <1>4, <1>5, <1>6, <1>7, <1>8, <1>9, <1>10, <1>11, <1>12, <1>13,
       <1>14 DEF LockNext, Acquire, World

(* LockInv holds in every reachable state. *)
THEOREM LockInvCorrect == LockSpec => []LockInv
<1>1. LockInit => LockInv
    BY LockInvInit
<1>2. LockInv /\ [LockNext]_lockVars => LockInv'
    BY LockInvStep
<1> QED  BY <1>1, <1>2, PTL DEF LockSpec

(* Types are right in every reachable state. *)
THEOREM LockTypeCorrect == LockSpec => []LockTypeOK
<1>1. LockInv => LockTypeOK
    BY DEF LockInv
<1> QED  BY <1>1, LockInvCorrect, PTL

(* Mutual exclusion of Acquire and Release: whoever holds the lock finds its
   own file at the path. *)
THEOREM HolderOwnsFileHolds == LockSpec => []HolderOwnsFile
<1>1. LockInv => HolderOwnsFile
    BY DEF LockInv
<1> QED  BY <1>1, LockInvCorrect, PTL

-----------------------------------------------------------------------------
(* What no step of Acquire or Release does. *)

(* A lock file is changed by its holder, in a step of its own, or by a person. *)
LEMMA OthersFilesStayStep ==
    ASSUME LockInv, [LockNext]_lockVars, file # NoFile, file' # file, ~ManualCleanup
    PROVE  InUse(file) /\ pc'[file.owner] # pc[file.owner]
<1> USE DEF LockInv, LockTypeOK, HolderOwnsFile, OwnFile, InUse, Owning, Goto
<1>1. ASSUME NEW s \in Tasks, Open(s) PROVE FALSE
    BY <1>1 DEF Open
<1>2. ASSUME NEW s \in Tasks, WriteLockInfo(s)
      PROVE  InUse(file) /\ pc'[file.owner] # pc[file.owner]
    BY <1>2 DEF WriteLockInfo
<1>3. ASSUME NEW s \in Tasks, CleanupPartialLock(s)
      PROVE  InUse(file) /\ pc'[file.owner] # pc[file.owner]
    BY <1>3 DEF CleanupPartialLock
<1>4. ASSUME NEW s \in Tasks, Remove(s)
      PROVE  InUse(file) /\ pc'[file.owner] # pc[file.owner]
    BY <1>4 DEF Remove
<1>5. ASSUME NEW s \in Tasks,
             Start(s) \/ ReadLockFile(s) \/ Judge(s) \/ AcquireFails(s) \/ Release(s)
      PROVE  FALSE
    BY <1>5 DEF Start, ReadLockFile, Judge, AcquireFails, Release
<1>6. ASSUME NEW p \in Procs, Spawn(p) \/ Exit(p) \/ Crash(p) PROVE FALSE
    BY <1>6 DEF Spawn, Exit, Crash, ProcessEnds
<1>7. CASE Tick \/ UNCHANGED lockVars
    BY <1>7 DEF Tick, lockVars
<1> QED
    BY <1>1, <1>2, <1>3, <1>4, <1>5, <1>6, <1>7 DEF LockNext, Acquire, World

(* Acquire and Release fail closed: a lock file is filled in, replaced or removed
   by the call that created it alone, or by a person, whether its creator is at
   work, has come back or is dead. *)
THEOREM OthersFilesStayHolds == LockSpec => OthersFilesStay
<1>1. LockInv /\ [LockNext]_lockVars =>
        [file # NoFile /\ file' # file
            => ManualCleanup \/ (InUse(file) /\ pc'[file.owner] # pc[file.owner])]_lockVars
    BY OthersFilesStayStep
<1> QED  BY <1>1, LockInvCorrect, PTL DEF LockSpec, OthersFilesStay

-----------------------------------------------------------------------------
(* ErrStaleLock. *)

(* A file whose creator is not at work stays so: calls are never repeated. *)
LEMMA IdleFileStaysIdle ==
    ASSUME LockInv, [LockNext]_lockVars, NEW f \in File, Spent(f), ~InUse(f)
    PROVE  ~InUse(f)'
<1> USE DEF LockInv, LockTypeOK, InUse, Spent, Owning, Waiting, Returned, Goto, File
<1>1. ASSUME NEW t \in Tasks, Start(t) PROVE ~InUse(f)'
    BY <1>1 DEF Start
<1>2. ASSUME NEW t \in Tasks, Open(t) PROVE ~InUse(f)'
    BY <1>2 DEF Open
<1>3. ASSUME NEW t \in Tasks, WriteLockInfo(t) \/ CleanupPartialLock(t) PROVE ~InUse(f)'
    BY <1>3 DEF WriteLockInfo, CleanupPartialLock
<1>4. ASSUME NEW t \in Tasks, ReadLockFile(t) PROVE ~InUse(f)'
    BY <1>4 DEF ReadLockFile
<1>5. ASSUME NEW t \in Tasks, Judge(t) PROVE ~InUse(f)'
    BY <1>5 DEF Judge, PollAgain, Refuse
<1>6. ASSUME NEW t \in Tasks, AcquireFails(t) PROVE ~InUse(f)'
    BY <1>6 DEF AcquireFails
<1>7. ASSUME NEW t \in Tasks, Release(t) \/ Remove(t) PROVE ~InUse(f)'
    BY <1>7 DEF Release, Remove
<1>8. ASSUME NEW p \in Procs, Spawn(p) \/ Exit(p) \/ Crash(p) PROVE ~InUse(f)'
    BY <1>8 DEF Spawn, Exit, Crash, ProcessEnds
<1>9. CASE ManualCleanup \/ Tick \/ UNCHANGED lockVars
    BY <1>9 DEF ManualCleanup, Tick, lockVars
<1> QED
    BY <1>1, <1>2, <1>3, <1>4, <1>5, <1>6, <1>7, <1>8, <1>9 DEF LockNext, Acquire, World

(* What the holder, what a waiter and what the clock do keeps files young. *)
LEMMA YoungWhileInUseStep ==
    ASSUME 2 * MaxPause <= Grace, LockInv, YoungWhileInUse, [LockNext]_lockVars
    PROVE  YoungWhileInUse'
<1>0. MaxPause \in Nat /\ Grace \in Nat /\ MaxPause + MaxPause <= Grace
    BY BoundsAssumption
<1>00. /\ age \in Nat /\ \A t \in Tasks : pause[t] \in Nat /\ lookAge[t] \in Nat
       /\ \A t \in Tasks : look[t] # NoFile => look[t] \in File /\ look[t].owner \in Tasks
       /\ file # NoFile => file.owner \in Tasks
    BY BoundsAssumption DEF LockInv, LockTypeOK, Ticks, File
<1> USE <1>0, <1>00, FileAssumption, PidAssumption, ProcsAssumption
    DEF LockInv, LockTypeOK, HolderOwnsFile, OwnFile, CallsAreSpent, Spent, YoungWhileInUse,
        Timed, Blank, InUse, HeldFor, MadeBlank, Owning, Waiting, Returned, Goto, See
<1>1. ASSUME NEW s \in Tasks, Start(s) PROVE YoungWhileInUse'
    BY <1>1 DEF Start
<1>2. ASSUME NEW s \in Tasks, Open(s) PROVE YoungWhileInUse'
    <2>1. CASE file = NoFile
        BY <1>2, <2>1 DEF Open
    <2>2. CASE file # NoFile
        BY <1>2, <2>2 DEF Open
    <2> QED  BY <2>1, <2>2
<1>3. ASSUME NEW s \in Tasks, WriteLockInfo(s) PROVE YoungWhileInUse'
    <2>1. /\ pc[s] = "write" /\ pause[s] <= MaxPause /\ file # NoFile /\ file.owner = s
          /\ pc' \in {[pc EXCEPT ![s] = "holding"], [pc EXCEPT ![s] = "cleanup"]}
          /\ pause' = [pause EXCEPT ![s] = 0]
          /\ look' = look /\ lookAge' = lookAge /\ calls' = calls
        BY <1>3 DEF WriteLockInfo
    <2>2. \/ file' # NoFile /\ file'.pid # NoPid
          \/ file' = file /\ age' \in {0, age} /\ pc'[s] = "cleanup"
        <3>1. PidOf[ProcOf[s]] # NoPid /\ OwnFile(s, file) /\ NoFile # file
            BY <1>3, PidsOfTasks DEF WriteLockInfo
        <3>2. CASE file' = [file EXCEPT !.pid = PidOf[ProcOf[s]]]
            <4>1. file \in File /\ file' \in File
                BY <3>1, <3>2, PidsOfTasks DEF File
            <4> QED  BY <3>1, <3>2, <4>1 DEF File
        <3>3. CASE file' = file /\ age' \in {0, age} /\ Goto(s, "cleanup")
            BY <1>3, <3>3 DEF WriteLockInfo
        <3> QED  BY <1>3, <3>1, <3>2, <3>3 DEF WriteLockInfo
    <2>3. Blank(file') /\ InUse(file)' =>
                pc'[file'.owner] \in MadeBlank /\ age' <= HeldFor(file.owner)'
        BY <2>1, <2>2
    <2>4. ASSUME NEW t \in Tasks, pc'[t] = "judge", Blank(look[t]), InUse(look[t])'
          PROVE  lookAge[t] + pause'[t] <=
                    IF pc'[look[t].owner] \in MadeBlank THEN HeldFor(look[t].owner)'
                    ELSE MaxPause + pause'[t]
        <3>1. t # s /\ pc[t] = "judge" /\ pause'[t] = pause[t] /\ InUse(look[t])
            BY <2>1, <2>4
        <3> QED  BY <2>1, <2>4, <3>1
    <2>5. \A t \in Tasks : Timed(t)' => pause'[t] <= MaxPause
        BY <2>1
    <2> QED  BY <2>1, <2>2, <2>3, <2>4, <2>5
<1>4. ASSUME NEW s \in Tasks, CleanupPartialLock(s) PROVE YoungWhileInUse'
    BY <1>4 DEF CleanupPartialLock
<1>5. ASSUME NEW s \in Tasks, ReadLockFile(s) PROVE YoungWhileInUse'
    BY <1>5 DEF ReadLockFile
<1>6. ASSUME NEW s \in Tasks, Judge(s) PROVE YoungWhileInUse'
    BY <1>6 DEF Judge, PollAgain, Refuse
<1>7. ASSUME NEW s \in Tasks, AcquireFails(s) PROVE YoungWhileInUse'
    BY <1>7 DEF AcquireFails
<1>8. ASSUME NEW s \in Tasks, Release(s) PROVE YoungWhileInUse'
    BY <1>8 DEF Release
<1>9. ASSUME NEW s \in Tasks, Remove(s) PROVE YoungWhileInUse'
    BY <1>9 DEF Remove
<1>10. ASSUME NEW p \in Procs, Spawn(p) PROVE YoungWhileInUse'
    BY <1>10 DEF Spawn, timeVars
<1>11. ASSUME NEW p \in Procs, Exit(p) \/ Crash(p) PROVE YoungWhileInUse'
    BY <1>11 DEF Exit, Crash, ProcessEnds
<1>12. CASE ManualCleanup
    BY <1>12 DEF ManualCleanup
<1>13. CASE Tick
    <2>1. \A t \in Tasks : Timed(t) => pause'[t] = pause[t] + 1 /\ pause'[t] <= MaxPause
        BY <1>13 DEF Tick, Older
    <2>2. age' \in Nat /\ (Blank(file) => age' <= age + 1)
        BY <1>13 DEF Tick, Older
    <2>3. UNCHANGED <<file, pc, calls, look, lookAge>>
        BY <1>13 DEF Tick
    <2>4. Blank(file) /\ InUse(file) => age' <= HeldFor(file.owner)'
        BY <2>1, <2>2, <2>3
    <2>5. ASSUME NEW t \in Tasks, pc[t] = "judge", Blank(look[t]), InUse(look[t])
          PROVE  lookAge[t] + pause'[t] <=
                    IF pc[look[t].owner] \in MadeBlank THEN HeldFor(look[t].owner)'
                    ELSE MaxPause + pause'[t]
        <3>1. Timed(t) /\ pause'[t] = pause[t] + 1
            BY <2>1, <2>5
        <3>2. pc[look[t].owner] \in MadeBlank =>
                pause'[look[t].owner] = pause[look[t].owner] + 1
            BY <2>1, <2>5
        <3> QED  BY <2>3, <2>5, <3>1, <3>2
    <2>6. \A t \in Tasks : Timed(t)' => pause'[t] <= MaxPause
        BY <2>1, <2>3
    <2> QED  BY <2>3, <2>4, <2>5, <2>6
<1>14. CASE UNCHANGED lockVars
    BY <1>14 DEF lockVars, timeVars
<1> QED
    BY <1>1, <1>2, <1>3, <1>4, <1>5, <1>6, <1>7, <1>8, <1>9, <1>10, <1>11, <1>12, <1>13,
       <1>14 DEF LockNext, Acquire, World

(* A file without a PID that is in use is within the grace period. *)
LEMMA InUseIsWithinGrace ==
    ASSUME 2 * MaxPause <= Grace, LockInv, YoungWhileInUse,
           NEW t \in Tasks, pc[t] = "judge", Blank(look[t]), InUse(look[t])
    PROVE  lookAge[t] + pause[t] <= Grace
<1>1. MaxPause \in Nat /\ Grace \in Nat /\ look[t].owner \in Tasks
    BY BoundsAssumption DEF LockInv, LockTypeOK, Blank, File
<1>2. pause[t] \in Nat /\ pause[look[t].owner] \in Nat /\ lookAge[t] \in Nat
    BY <1>1, BoundsAssumption DEF LockInv, LockTypeOK, Ticks
<1> QED  BY <1>1, <1>2 DEF YoungWhileInUse, Timed, HeldFor, MadeBlank

(* What Judge finds stale is not in use: its creator is dead, or the grace
   period has passed. *)
LEMMA StaleInvStep ==
    ASSUME 2 * MaxPause <= Grace, LockInv, YoungWhileInUse, StaleInv, [LockNext]_lockVars
    PROVE  StaleInv'
<1> SUFFICES ASSUME NEW t \in Tasks, pc'[t] = "stale"
             PROVE  look'[t] # NoFile /\ ~InUse(look[t])'
    BY DEF StaleInv
<1> USE DEF LockInv, LockTypeOK
<1>1. CASE pc[t] = "stale"
    <2>1. look'[t] = look[t]
        <3>1. ASSUME NEW s \in Tasks,
                     Start(s) \/ ReadLockFile(s) \/ Judge(s) \/ AcquireFails(s)
              PROVE  look'[t] = look[t]
            BY <1>1, <3>1 DEF Start, ReadLockFile, Judge, AcquireFails, PollAgain, Refuse,
                              Goto, See
        <3>2. ASSUME NEW s \in Tasks,
                     \/ Open(s) \/ WriteLockInfo(s) \/ CleanupPartialLock(s)
                     \/ Release(s) \/ Remove(s)
              PROVE  look' = look
            BY <3>2 DEF Open, WriteLockInfo, CleanupPartialLock, Release, Remove
        <3>3. ASSUME NEW p \in Procs, Exit(p) \/ Crash(p) PROVE look'[t] = look[t]
            BY <3>3 DEF Exit, Crash, ProcessEnds
        <3>4. ASSUME NEW p \in Procs, Spawn(p) PROVE look' = look
            BY <3>4 DEF Spawn
        <3>5. CASE ManualCleanup \/ Tick \/ UNCHANGED lockVars
            BY <3>5 DEF ManualCleanup, Tick, lockVars
        <3> QED  BY <3>1, <3>2, <3>3, <3>4, <3>5 DEF LockNext, Acquire, World
    <2>2. look[t] \in File /\ Spent(look[t]) /\ ~InUse(look[t])
        BY <1>1 DEF StaleInv, CallsAreSpent
    <2>3. ~InUse(look[t])'
        <3>1. ASSUME NEW f \in File, Spent(f), ~InUse(f) PROVE ~InUse(f)'
            BY <3>1, IdleFileStaysIdle
        <3> QED  BY <2>1, <2>2, <3>1 DEF InUse
    <2> QED  BY <2>1, <2>2, <2>3, FileAssumption
<1>2. CASE pc[t] # "stale"
    <2>1. /\ Judge(t) /\ look[t] \in File /\ look' = look
          /\ \/ pc[t] = "judge" /\ Blank(look[t]) /\ ~(lookAge[t] + pause[t] <= Grace)
             \/ look[t].pid # NoPid /\ ~Alive(look[t].pid)
        <3>1. ASSUME NEW s \in Tasks, Start(s) \/ ReadLockFile(s) \/ Open(s)
              PROVE  FALSE
            BY <1>2, <3>1 DEF Start, ReadLockFile, Open, Goto
        <3>2. ASSUME NEW s \in Tasks, WriteLockInfo(s) \/ CleanupPartialLock(s)
              PROVE  FALSE
            BY <1>2, <3>2 DEF WriteLockInfo, CleanupPartialLock, Goto
        <3>3. ASSUME NEW s \in Tasks, AcquireFails(s) \/ Release(s) \/ Remove(s)
              PROVE  FALSE
            BY <1>2, <3>3 DEF AcquireFails, Release, Remove, Goto
        <3>4. CASE World \/ UNCHANGED lockVars
            BY <1>2, <3>4 DEF World, Spawn, Exit, Crash, ProcessEnds, ManualCleanup, Tick,
                              lockVars
        <3>5. PICK s \in Tasks : Judge(s)
            BY <3>1, <3>2, <3>3, <3>4 DEF LockNext, Acquire
        <3>6. s = t
            BY <1>2, <3>5 DEF Judge, PollAgain, Refuse, Goto
        <3>7. lookAge[t] \in Nat /\ pause[t] \in Nat /\ Grace \in Nat
            BY BoundsAssumption DEF Ticks
        <3>8. look[t] # NoFile /\ look' = look
            BY <1>2, <3>5, <3>6 DEF Judge, PollAgain, Refuse, Goto, See, Blank
        <3> QED  BY <1>2, <3>5, <3>6, <3>7, <3>8 DEF Judge, PollAgain, Refuse, Goto, Blank
    <2>2. ~InUse(look[t])
        <3>1. CASE Blank(look[t])
            BY <2>1, <3>1, InUseIsWithinGrace DEF Blank
        <3>2. CASE ~Blank(look[t])
            BY <2>1, <3>2, PidsOfTasks, FileAssumption
               DEF Blank, InUse, AtWorkIsAlive, PidsAreCreators, Signed, Alive, File
        <3> QED  BY <3>1, <3>2
    <2>3. ~InUse(look[t])'
        <3>1. ASSUME NEW f \in File, Spent(f), ~InUse(f) PROVE ~InUse(f)'
            BY <3>1, IdleFileStaysIdle
        <3>2. Spent(look[t])
            BY <2>1, FileAssumption DEF CallsAreSpent
        <3> QED  BY <2>1, <2>2, <3>1, <3>2 DEF InUse
    <2> QED  BY <2>1, <2>3, FileAssumption
<1> QED  BY <1>1, <1>2

(* Nobody is told that a lock is stale while it is held, as long as two pauses
   in a row fit into the grace period. *)
THEOREM StaleIsNotHeldHolds ==
    ASSUME 2 * MaxPause <= Grace
    PROVE  LockSpec => []StaleIsNotHeld
<1>1. LockInit => YoungWhileInUse /\ StaleInv
    BY DEF LockInit, StaleInv, YoungWhileInUse, Timed, Blank
<1>2. /\ LockInv /\ (YoungWhileInUse /\ StaleInv) /\ [LockNext]_lockVars
        => (YoungWhileInUse /\ StaleInv)'
    BY YoungWhileInUseStep, StaleInvStep
<1>3. StaleInv => StaleIsNotHeld
    BY DEF StaleInv, StaleIsNotHeld
<1> QED  BY <1>1, <1>2, <1>3, LockInvCorrect, PTL DEF LockSpec

-----------------------------------------------------------------------------
(* The lock file implements Mutex. *)

(* The holder of the lock, seen from the file. *)
LEMMA HolderOfAFile ==
    ASSUME file # NoFile
    PROVE  Holder = IF InUse(file) THEN file.owner ELSE "lost"
BY DEF Holder

(* Whoever is at work is the holder. *)
LEMMA AtWorkIsHolder ==
    ASSUME LockInv, NEW t \in Tasks, pc[t] \in Owning
    PROVE  Holder = t /\ file # NoFile /\ file.owner = t
BY DEF LockInv, HolderOwnsFile, OwnFile, Holder, InUse

(* Every step maps to a step of Mutex, or changes nothing there. *)
LEMMA MutexStep ==
    ASSUME LockInv, [LockNext]_lockVars
    PROVE  [Exclusion!Next]_Holder
<1> USE DEF LockInv, LockTypeOK, Holder, InUse, Owning, Returned, Goto, File
<1>1. ASSUME NEW t \in Tasks, Start(t) PROVE Holder' = Holder
    BY <1>1 DEF Start
<1>2. ASSUME NEW t \in Tasks, Open(t) PROVE Holder' = Holder \/ Exclusion!Grab(t)
    <2>1. CASE file = NoFile
        BY <1>2, <2>1, LockTypeStep, FileAssumption DEF Open, Exclusion!Grab
    <2>2. CASE file # NoFile
        BY <1>2, <2>2 DEF Open
    <2> QED  BY <2>1, <2>2
<1>3. ASSUME NEW t \in Tasks, WriteLockInfo(t) PROVE Holder' = Holder
    <2>1. OwnFile(t, file)
        BY <1>3 DEF WriteLockInfo, HolderOwnsFile
    <2>2. file' # NoFile /\ file'.owner = t /\ file'.call = calls[t]
        BY <1>3, <2>1, LockInvStep DEF WriteLockInfo, OwnFile, HolderOwnsFile
    <2> QED  BY <1>3, <2>1, <2>2 DEF WriteLockInfo, OwnFile
<1>4. ASSUME NEW t \in Tasks, CleanupPartialLock(t)
      PROVE  Exclusion!Drop(t) \/ Exclusion!Lose(t)
    BY <1>4, AtWorkIsHolder DEF CleanupPartialLock, Exclusion!Drop, Exclusion!Lose
<1>5. ASSUME NEW t \in Tasks, ReadLockFile(t) \/ AcquireFails(t) PROVE Holder' = Holder
    BY <1>5 DEF ReadLockFile, AcquireFails
<1>6. ASSUME NEW t \in Tasks, Judge(t) PROVE Holder' = Holder
    BY <1>6 DEF Judge, PollAgain, Refuse
<1>7. ASSUME NEW t \in Tasks, Release(t) PROVE Holder' = Holder
    BY <1>7 DEF Release
<1>8. ASSUME NEW t \in Tasks, Remove(t) PROVE Exclusion!Drop(t) \/ Exclusion!Lose(t)
    BY <1>8, AtWorkIsHolder DEF Remove, Exclusion!Drop, Exclusion!Lose
<1>9. ASSUME NEW p \in Procs, Spawn(p) PROVE Holder' = Holder
    BY <1>9 DEF Spawn
<1>10. ASSUME NEW p \in Procs, Exit(p) \/ Crash(p)
       PROVE  Holder' = Holder \/ \E t \in Tasks : Exclusion!Lose(t)
    BY <1>10 DEF Exit, Crash, ProcessEnds, Exclusion!Lose
<1>11. CASE ManualCleanup
    <2>1. ~InUse(file)
        BY <1>11, PidsOfTasks
           DEF ManualCleanup, AtWorkIsAlive, PidsAreCreators, Signed, Alive
    <2>2. Holder = "lost" /\ Holder' = "free"
        BY <1>11, <2>1 DEF ManualCleanup
    <2> QED  BY <2>2 DEF Exclusion!Next, Exclusion!Reclaim
<1>12. CASE Tick \/ UNCHANGED lockVars
    BY <1>12 DEF Tick, lockVars
<1> QED
    BY <1>1, <1>2, <1>3, <1>4, <1>5, <1>6, <1>7, <1>8, <1>9, <1>10, <1>11, <1>12
       DEF LockNext, Acquire, World, Exclusion!Next

(* The lock file is a mutual exclusion lock: free, or of one holder, or lost
   until a person reclaims it. *)
THEOREM ImplementsMutexHolds == LockSpec => ImplementsMutex
<1>1. LockInit => Exclusion!Init
    BY DEF LockInit, Exclusion!Init, Holder
<1>2. LockInv /\ [LockNext]_lockVars => [Exclusion!Next]_Holder
    BY MutexStep
<1> QED  BY <1>1, <1>2, LockInvCorrect, PTL DEF LockSpec, ImplementsMutex, Exclusion!Spec

-----------------------------------------------------------------------------
(* The branch under the lock. *)

Unlocked == {"none", "resolve", "validate"} \cup Answers
UnderLock == {"recheck", "create", "publish", "probe", "validateLocked"}

(* Where in Acquire and Release a live call is at each of its steps. *)
StepsAndLock ==
    \A t \in Tasks : pc[t] # "dead" =>
        /\ step[t] \in Unlocked => pc[t] \in Returned
        /\ step[t] \in UnderLock => pc[t] = "holding"
        /\ step[t] = "releasing" =>
                pc[t] \in {"holding", "remove", "released", "releaseError"}

(* What a call that will answer "ok" has found or made. *)
TipsAreFound ==
    \A t \in Tasks :
        /\ step[t] \in {"publish", "probe"} => tip[t] # NoRef
        /\ step[t] \in {"validate", "validateLocked"} =>
                tip[t] # NoRef /\ IsAncestor(tip[t], branch)
        /\ step[t] = "releasing" /\ ~err[t] =>
                Valid(tip[t]) /\ IsAncestor(tip[t], branch)

BootInv ==
    /\ BootTypeOK
    /\ LockInv
    /\ StepsAndLock
    /\ TipsAreFound
    /\ OkTipsAreOnTheBranch

-----------------------------------------------------------------------------
(* The lock under EnsureOpaxBranch. *)

(* A step of EnsureOpaxBranch is a step of the lock, or none of its concern. *)
LEMMA BootStepIsLockStep == [BootNext]_bootVars => [LockNext]_lockVars
<1> SUFFICES ASSUME [BootNext]_bootVars PROVE [LockNext]_lockVars
    OBVIOUS
<1>1. ASSUME NEW t \in Tasks, Ensure(t) PROVE [LockNext]_lockVars
    <2>1. CASE Resolve(t)
        BY <2>1 DEF Resolve, LockNext
    <2>2. CASE ReleaseLock(t)
        BY <2>2 DEF ReleaseLock, LockNext
    <2> QED
        BY <1>1, <2>1, <2>2 DEF Ensure, ValidateFound, Locked, Recheck, Create, Publish,
            ProbeCreated, ValidateLocked, Return
<1>2. ASSUME NEW t \in Tasks, LockStep(t) PROVE [LockNext]_lockVars
    BY <1>2 DEF LockStep, LockNext
<1>3. ASSUME NEW t \in Tasks, Call(t) \/ GitFails(t) \/ OrphanPublish(t)
      PROVE  [LockNext]_lockVars
    BY <1>3 DEF Call, GitFails, OrphanPublish
<1>4. CASE World \/ FetchBranch \/ Extend \/ UNCHANGED bootVars
    BY <1>4 DEF LockNext, FetchBranch, Extend, bootVars
<1> QED  BY <1>1, <1>2, <1>3, <1>4 DEF BootNext

(* EnsureOpaxBranch calls Acquire and Release only as FileLock expects. *)
THEOREM UsesTheLock == BootSpec => LockSpec
<1>1. BootInit => LockInit
    BY DEF BootInit
<1> QED  BY <1>1, BootStepIsLockStep, PTL DEF BootSpec, LockSpec

(* The lock that EnsureOpaxBranch takes is a mutual exclusion lock. *)
THEOREM BootImplementsMutex == BootSpec => ImplementsMutex
BY UsesTheLock, ImplementsMutexHolds, PTL

-----------------------------------------------------------------------------
(* Types. *)

LEMMA HashIs ==
    /\ NoRef \in Hash
    /\ \A s \in Stamps : <<s>> \in Hash /\ <<s>> # NoRef
    /\ <<Fetched>> \in Hash /\ <<Foreign>> \in Hash
BY DEF Hash, NoRef

LEMMA BootTypeStep ==
    ASSUME BootTypeOK, LockTypeOK', [BootNext]_bootVars
    PROVE  BootTypeOK'
<1> USE HashIs DEF BootTypeOK, Inside, Answers, To, At, Conclude
<1>1. ASSUME NEW t \in Tasks, Call(t) PROVE BootTypeOK'
    BY <1>1 DEF Call
<1>2. ASSUME NEW t \in Tasks, Resolve(t) PROVE BootTypeOK'
    BY <1>2 DEF Resolve
<1>3. ASSUME NEW t \in Tasks, ValidateFound(t) PROVE BootTypeOK'
    BY <1>3 DEF ValidateFound
<1>4. ASSUME NEW t \in Tasks, Locked(t) PROVE BootTypeOK'
    BY <1>4 DEF Locked
<1>5. ASSUME NEW t \in Tasks, Recheck(t) PROVE BootTypeOK'
    BY <1>5 DEF Recheck
<1>6. ASSUME NEW t \in Tasks, Create(t) PROVE BootTypeOK'
    BY <1>6 DEF Create
<1>7. ASSUME NEW t \in Tasks, Publish(t) PROVE BootTypeOK'
    <2>1. PICK end \in UpdateRefEnds(branch, tip[t], NoRef, LostAck) :
            /\ branch' = end.ref
            /\ exit' = [exit EXCEPT ![t] = end.exit]
            /\ To(t, IF end.exit = "ok" THEN "validateLocked" ELSE "probe")
        BY <1>7 DEF Publish
    <2>2. branch' \in Hash /\ end.exit \in {"ok", "conflict", "error", "lost"}
        BY <2>1, UpdateRefEndsAre
    <2> QED  BY <1>7, <2>1, <2>2 DEF Publish
<1>8. ASSUME NEW t \in Tasks, ProbeCreated(t) PROVE BootTypeOK'
    BY <1>8 DEF ProbeCreated
<1>9. ASSUME NEW t \in Tasks, ValidateLocked(t) PROVE BootTypeOK'
    BY <1>9 DEF ValidateLocked, Valid
<1>10. ASSUME NEW t \in Tasks, ReleaseLock(t) PROVE BootTypeOK'
    BY <1>10 DEF ReleaseLock, ensureVars
<1>11. ASSUME NEW t \in Tasks, Return(t) PROVE BootTypeOK'
    BY <1>11 DEF Return
<1>12. ASSUME NEW t \in Tasks, GitFails(t) PROVE BootTypeOK'
    BY <1>12 DEF GitFails
<1>13. ASSUME NEW t \in Tasks, OrphanPublish(t) PROVE BootTypeOK'
    BY <1>13 DEF OrphanPublish
<1>14. ASSUME NEW t \in Tasks, LockStep(t) PROVE BootTypeOK'
    BY <1>14 DEF LockStep, ensureVars
<1>15. CASE World /\ UNCHANGED ensureVars
    BY <1>15 DEF ensureVars
<1>16. CASE FetchBranch
    BY <1>16 DEF FetchBranch
<1>17. CASE Extend
    BY <1>17, AncestorAppend DEF Extend, Hash
<1>18. CASE UNCHANGED bootVars
    BY <1>18 DEF bootVars, ensureVars
<1> QED
    BY <1>1, <1>2, <1>3, <1>4, <1>5, <1>6, <1>7, <1>8, <1>9, <1>10, <1>11, <1>12, <1>13,
       <1>14, <1>15, <1>16, <1>17, <1>18 DEF BootNext, Ensure

-----------------------------------------------------------------------------
(* The branch. *)

(* The branch is created once and then only grows, whoever does it. *)
LEMMA BootBranchStep ==
    ASSUME BootTypeOK, [BootNext]_bootVars
    PROVE  branch' \in Hash /\ IsAncestor(branch, branch')
<1> USE HashIs DEF BootTypeOK
<1>1. IsAncestor(branch, branch) /\ IsAncestor(NoRef, branch)
    BY AncestorRefl, AncestorNoRef DEF Hash
<1>2. ASSUME NEW h \in Hash PROVE IsAncestor(NoRef, h)
    BY AncestorNoRef DEF Hash
<1>3. ASSUME NEW t \in Tasks, Publish(t)
      PROVE  branch' \in Hash /\ IsAncestor(branch, branch')
    <2>1. PICK end \in UpdateRefEnds(branch, tip[t], NoRef, LostAck) : branch' = end.ref
        BY <1>3 DEF Publish
    <2> QED  BY <2>1, <1>1, <1>2, UpdateRefEndsAre
<1>4. ASSUME NEW t \in Tasks, OrphanPublish(t)
      PROVE  branch' \in Hash /\ IsAncestor(branch, branch')
    BY <1>2, <1>4 DEF OrphanPublish
<1>5. CASE FetchBranch
    BY <1>2, <1>5 DEF FetchBranch
<1>6. CASE Extend
    BY <1>6, AncestorAppend DEF Extend, Hash
<1>7. ASSUME NEW t \in Tasks,
             \/ Call(t) \/ GitFails(t) \/ LockStep(t) \/ Resolve(t) \/ ValidateFound(t)
             \/ Locked(t) \/ Recheck(t) \/ Create(t)
      PROVE  branch' = branch
    BY <1>7 DEF Call, GitFails, LockStep, ensureVars, Resolve, ValidateFound, Locked, Recheck,
                Create
<1>8. ASSUME NEW t \in Tasks,
             ProbeCreated(t) \/ ValidateLocked(t) \/ ReleaseLock(t) \/ Return(t)
      PROVE  branch' = branch
    BY <1>8 DEF ProbeCreated, ValidateLocked, ReleaseLock, Return, ensureVars
<1>9. CASE (World /\ UNCHANGED ensureVars) \/ UNCHANGED bootVars
    BY <1>1, <1>9 DEF ensureVars, bootVars
<1> QED
    BY <1>1, <1>3, <1>4, <1>5, <1>6, <1>7, <1>8, <1>9 DEF BootNext, Ensure

(* A commit of the branch stays one. *)
LEMMA OnTheBranchStays ==
    ASSUME BootTypeOK, [BootNext]_bootVars, NEW h \in Hash, IsAncestor(h, branch)
    PROVE  IsAncestor(h, branch')
BY BootBranchStep, AncestorTrans DEF BootTypeOK, Hash

(* A commit of a branch of ours is of ours: they have one root. *)
LEMMA ValidAncestor ==
    ASSUME NEW h \in Hash, h # NoRef, NEW i \in Hash, IsAncestor(h, i), Valid(i)
    PROVE  Valid(h)
<1>1. Len(h) \in Nat /\ Len(h) # 0
    BY EmptySeq, LenProperties DEF Hash, NoRef
<1> QED  BY <1>1 DEF Valid, IsAncestor

-----------------------------------------------------------------------------
(* Steps of the call and steps of the lock. *)

LEMMA StepsAndLockStep ==
    ASSUME BootTypeOK, StepsAndLock, [BootNext]_bootVars
    PROVE  StepsAndLock'
<1> USE DEF BootTypeOK, LockTypeOK, StepsAndLock, Unlocked, UnderLock, Returned, Answers,
            To, At, Conclude, Goto
<1>1. ASSUME NEW t \in Tasks, Call(t) PROVE StepsAndLock'
    BY <1>1 DEF Call, lockVars
<1>2. ASSUME NEW t \in Tasks, Resolve(t) PROVE StepsAndLock'
    BY <1>2 DEF Resolve, Start, lockVars
<1>3. ASSUME NEW t \in Tasks, ValidateFound(t) PROVE StepsAndLock'
    BY <1>3 DEF ValidateFound, lockVars
<1>4. ASSUME NEW t \in Tasks, Locked(t) PROVE StepsAndLock'
    BY <1>4 DEF Locked, lockVars
<1>5. ASSUME NEW t \in Tasks, Recheck(t) \/ Create(t) PROVE StepsAndLock'
    BY <1>5 DEF Recheck, Create, lockVars
<1>6. ASSUME NEW t \in Tasks, Publish(t) PROVE StepsAndLock'
    BY <1>6 DEF Publish, lockVars
<1>7. ASSUME NEW t \in Tasks, ProbeCreated(t) \/ ValidateLocked(t) PROVE StepsAndLock'
    BY <1>7 DEF ProbeCreated, ValidateLocked, lockVars
<1>8. ASSUME NEW t \in Tasks, ReleaseLock(t) PROVE StepsAndLock'
    BY <1>8 DEF ReleaseLock, Release, ensureVars
<1>9. ASSUME NEW t \in Tasks, Return(t) PROVE StepsAndLock'
    BY <1>9 DEF Return, lockVars
<1>10. ASSUME NEW t \in Tasks, GitFails(t) PROVE StepsAndLock'
    BY <1>10 DEF GitFails, lockVars
<1>11. ASSUME NEW t \in Tasks, OrphanPublish(t) PROVE StepsAndLock'
    BY <1>11 DEF OrphanPublish, lockVars
<1>12. ASSUME NEW t \in Tasks, LockStep(t) PROVE StepsAndLock'
    <2>1. CASE Remove(t)
        BY <1>12, <2>1 DEF LockStep, Remove, ensureVars
    <2>2. CASE Acquire(t) \/ AcquireFails(t)
        <3>1. pc[t] \in {"open", "write", "cleanup", "inspect", "judge"}
            BY <2>2 DEF Acquire, AcquireFails, Open, WriteLockInfo, CleanupPartialLock,
                        ReadLockFile, Judge
        <3>2. step[t] = "locking"
            BY <3>1 DEF Inside
        <3>3. \A u \in Tasks \ {t} : pc'[u] = pc[u]
            BY <2>2 DEF Acquire, AcquireFails, Open, WriteLockInfo, CleanupPartialLock,
                        ReadLockFile, Judge, PollAgain, Refuse
        <3> QED  BY <1>12, <3>2, <3>3 DEF LockStep, ensureVars
    <2> QED  BY <1>12, <2>1, <2>2 DEF LockStep
<1>13. CASE World /\ UNCHANGED ensureVars
    <2>1. \A t \in Tasks : pc'[t] # "dead" => pc'[t] = pc[t]
        BY <1>13 DEF World, Spawn, Exit, Crash, ProcessEnds, ManualCleanup, Tick
    <2> QED  BY <1>13, <2>1 DEF ensureVars
<1>14. CASE FetchBranch \/ Extend \/ UNCHANGED bootVars
    BY <1>14 DEF FetchBranch, Extend, bootVars, lockVars, ensureVars
<1> QED
    BY <1>1, <1>2, <1>3, <1>4, <1>5, <1>6, <1>7, <1>8, <1>9, <1>10, <1>11, <1>12, <1>13, <1>14
       DEF BootNext, Ensure

-----------------------------------------------------------------------------
(* Tips. *)

(* What is known of the tip of t at step s, and an error e or none. *)
TipAt(t, s, h, e, b) ==
    /\ s \in {"publish", "probe"} => h # NoRef
    /\ s \in {"validate", "validateLocked"} => h # NoRef /\ IsAncestor(h, b)
    /\ (s = "releasing" /\ ~e) \/ s = "ok" => Valid(h) /\ IsAncestor(h, b)

LEMMA TipsAt ==
    TipsAreFound /\ OkTipsAreOnTheBranch <=>
        \A t \in Tasks : TipAt(t, step[t], tip[t], err[t], branch)
BY DEF TipsAreFound, OkTipsAreOnTheBranch, TipAt

(* A step of t leaves the others' tips alone, and the branch grows. *)
LEMMA OtherTips ==
    ASSUME BootTypeOK, BootTypeOK', [BootNext]_bootVars, NEW t \in Tasks,
           \A u \in Tasks : TipAt(u, step[u], tip[u], err[u], branch),
           \A u \in Tasks \ {t} : step'[u] = step[u] /\ tip'[u] = tip[u] /\ err'[u] = err[u],
           TipAt(t, step'[t], tip'[t], err'[t], branch')
    PROVE  \A u \in Tasks : TipAt(u, step'[u], tip'[u], err'[u], branch')
<1> SUFFICES ASSUME NEW u \in Tasks, u # t
             PROVE  TipAt(u, step'[u], tip'[u], err'[u], branch')
    OBVIOUS
<1>1. tip[u] \in Hash
    BY DEF BootTypeOK
<1>2. IsAncestor(tip[u], branch) => IsAncestor(tip[u], branch')
    BY <1>1, OnTheBranchStays
<1> QED  BY <1>2 DEF TipAt

LEMMA TipsStep ==
    ASSUME BootTypeOK, BootTypeOK', TipsAreFound, OkTipsAreOnTheBranch, [BootNext]_bootVars
    PROVE  (TipsAreFound /\ OkTipsAreOnTheBranch)'
<1> DEFINE Q == \A u \in Tasks : TipAt(u, step'[u], tip'[u], err'[u], branch')
<1>a. \A u \in Tasks : TipAt(u, step[u], tip[u], err[u], branch)
    BY TipsAt
<1>b. \A u \in Tasks : tip[u] \in Hash /\ IsAncestor(tip[u], tip[u])
    BY AncestorRefl DEF BootTypeOK, Hash
<1>c. branch \in Hash /\ IsAncestor(branch, branch)
    BY AncestorRefl DEF BootTypeOK, Hash
<1>d. \A h \in Hash : IsAncestor(h, branch) => IsAncestor(h, branch')
    BY OnTheBranchStays
<1> USE DEF BootTypeOK, To, At, Conclude
<1>1. ASSUME NEW t \in Tasks,
             Call(t) \/ Resolve(t) \/ ValidateFound(t) \/ Locked(t) \/ Recheck(t) \/ Create(t)
      PROVE  Q
    <2>1. \A u \in Tasks \ {t} : step'[u] = step[u] /\ tip'[u] = tip[u] /\ err'[u] = err[u]
        BY <1>1 DEF Call, Resolve, ValidateFound, Locked, Recheck, Create
    <2>2. TipAt(t, step'[t], tip'[t], err'[t], branch')
        <3>1. CASE Call(t) \/ Locked(t)
            BY <3>1 DEF Call, Locked, TipAt
        <3>2. CASE Resolve(t)
            BY <3>2, <1>c DEF Resolve, TipAt
        <3>3. CASE ValidateFound(t)
            BY <3>3, <1>a, <1>b, <1>c, ValidAncestor DEF ValidateFound, TipAt
        <3>4. CASE Recheck(t)
            BY <3>4, <1>c DEF Recheck, TipAt
        <3>5. CASE Create(t)
            BY <3>5, HashIs DEF Create, TipAt
        <3> QED  BY <1>1, <3>1, <3>2, <3>3, <3>4, <3>5
    <2> QED  BY <1>a, <2>1, <2>2, OtherTips
<1>2. ASSUME NEW t \in Tasks, Publish(t) PROVE Q
    <2>1. PICK end \in UpdateRefEnds(branch, tip[t], NoRef, LostAck) :
            /\ branch' = end.ref
            /\ To(t, IF end.exit = "ok" THEN "validateLocked" ELSE "probe")
        BY <1>2 DEF Publish
    <2>2. end.exit = "ok" => end.ref = tip[t]
        BY UpdateRefEndsAre
    <2>3. tip[t] # NoRef /\ tip' = tip /\ err' = err
        BY <1>2, <1>a DEF Publish, TipAt
    <2>4. TipAt(t, step'[t], tip'[t], err'[t], branch')
        BY <2>1, <2>2, <2>3, <1>b DEF TipAt
    <2>5. \A u \in Tasks \ {t} : step'[u] = step[u] /\ tip'[u] = tip[u] /\ err'[u] = err[u]
        BY <2>1, <2>3
    <2> QED  BY <1>a, <2>4, <2>5, OtherTips
<1>3. ASSUME NEW t \in Tasks, ProbeCreated(t) PROVE Q
    <2>1. PICK verdict \in ProbeVerdicts(branch, tip[t], NoRef, exit[t]) :
            \/ verdict = "applied" /\ To(t, "validateLocked") /\ UNCHANGED err
            \/ verdict # "applied" /\ Conclude(t, TRUE)
        BY <1>3 DEF ProbeCreated
    <2>2. verdict = "applied" => branch = tip[t]
        BY ProbeVerdictsAre
    <2>3. tip[t] # NoRef /\ tip' = tip /\ branch' = branch
        BY <1>3, <1>a DEF ProbeCreated, TipAt
    <2>4. TipAt(t, step'[t], tip'[t], err'[t], branch')
        BY <2>1, <2>2, <2>3, <1>b DEF TipAt
    <2>5. \A u \in Tasks \ {t} : step'[u] = step[u] /\ tip'[u] = tip[u] /\ err'[u] = err[u]
        BY <2>1, <2>3
    <2> QED  BY <1>a, <2>4, <2>5, OtherTips
<1>4. ASSUME NEW t \in Tasks, ValidateLocked(t) PROVE Q
    <2>1. tip' = tip /\ branch' = branch /\ step'[t] = "releasing" /\ err'[t] = ~Valid(branch)
        BY <1>4 DEF ValidateLocked
    <2>2. tip[t] # NoRef /\ IsAncestor(tip[t], branch)
        BY <1>4, <1>a DEF ValidateLocked, TipAt
    <2>3. TipAt(t, step'[t], tip'[t], err'[t], branch')
        BY <2>1, <2>2, <1>b, <1>c, ValidAncestor DEF TipAt
    <2>4. \A u \in Tasks \ {t} : step'[u] = step[u] /\ tip'[u] = tip[u] /\ err'[u] = err[u]
        BY <1>4 DEF ValidateLocked
    <2> QED  BY <1>a, <2>3, <2>4, OtherTips
<1>5. ASSUME NEW t \in Tasks, Return(t) \/ GitFails(t) \/ OrphanPublish(t) PROVE Q
    <2>1. \A u \in Tasks \ {t} : step'[u] = step[u] /\ tip'[u] = tip[u] /\ err'[u] = err[u]
        BY <1>5 DEF Return, GitFails, OrphanPublish
    <2>2. TipAt(t, step'[t], tip'[t], err'[t], branch')
        BY <1>5, <1>a DEF Return, GitFails, OrphanPublish, TipAt
    <2> QED  BY <1>a, <2>1, <2>2, OtherTips
<1>6. ASSUME UNCHANGED <<step, tip, err>> PROVE Q
    BY <1>6, <1>a, <1>b, <1>d DEF TipAt
<1>7. ASSUME NEW t \in Tasks, ReleaseLock(t) \/ LockStep(t) PROVE UNCHANGED <<step, tip, err>>
    BY <1>7 DEF ReleaseLock, LockStep, ensureVars
<1>8. ASSUME (World /\ UNCHANGED ensureVars) \/ FetchBranch \/ Extend \/ UNCHANGED bootVars
      PROVE  Q
    <2>1. UNCHANGED <<step, tip, err>>
        BY <1>8 DEF FetchBranch, Extend, bootVars, ensureVars
    <2> QED  BY <1>6, <2>1
<1>9. Q
    BY <1>1, <1>2, <1>3, <1>4, <1>5, <1>6, <1>7, <1>8 DEF BootNext, Ensure
<1> QED  BY <1>9 DEF TipsAreFound, OkTipsAreOnTheBranch, TipAt, Valid

-----------------------------------------------------------------------------
(* The invariant. *)

LEMMA BootInvInit == BootInit => BootInv
<1> SUFFICES ASSUME BootInit PROVE BootInv
    OBVIOUS
<1>1. LockInv
    BY LockInvInit DEF BootInit
<1>2. BootTypeOK
    BY <1>1, HashIs DEF BootInit, BootTypeOK, LockInv
<1> QED
    BY <1>1, <1>2 DEF BootInit, BootInv, LockInit, StepsAndLock, TipsAreFound,
       OkTipsAreOnTheBranch, Unlocked, UnderLock, Answers, Returned

LEMMA BootInvStep == BootInv /\ [BootNext]_bootVars => BootInv'
<1> SUFFICES ASSUME BootInv, [BootNext]_bootVars PROVE BootInv'
    OBVIOUS
<1>1. LockInv'
    BY BootStepIsLockStep, LockInvStep DEF BootInv
<1>2. BootTypeOK'
    BY <1>1, BootTypeStep DEF BootInv, LockInv
<1> QED  BY <1>1, <1>2, StepsAndLockStep, TipsStep DEF BootInv

(* BootInv holds in every reachable state. *)
THEOREM BootInvCorrect == BootSpec => []BootInv
BY BootInvInit, BootInvStep, PTL DEF BootSpec

(* Types are right in every reachable state. *)
THEOREM BootTypeCorrect == BootSpec => []BootTypeOK
<1>1. BootInv => BootTypeOK
    BY DEF BootInv
<1> QED  BY <1>1, BootInvCorrect, PTL

(* Whoever is told "ok" has a commit of the one Opax branch. *)
THEOREM OkTipsAreOnTheBranchHolds == BootSpec => []OkTipsAreOnTheBranch
<1>1. BootInv => OkTipsAreOnTheBranch
    BY DEF BootInv
<1> QED  BY <1>1, BootInvCorrect, PTL

(* EnsureOpaxBranch gives the lock back on every path. *)
THEOREM NoLeakedLockHolds == BootSpec => []NoLeakedLock
<1>1. BootInv => NoLeakedLock
    BY DEF BootInv, StepsAndLock, NoLeakedLock, Unlocked, Returned, Owning
<1> QED  BY <1>1, BootInvCorrect, PTL

(* The branch is looked for again, created and validated under the lock. *)
THEOREM LockCoversCreationHolds == BootSpec => []LockCoversCreation
<1>1. BootInv => LockCoversCreation
    BY DEF BootInv, LockInv, StepsAndLock, HolderOwnsFile, LockCoversCreation, UnderLock,
           Owning, At
<1> QED  BY <1>1, BootInvCorrect, PTL

(* Creators, orphaned git processes, writers and fetches together: the branch
   is created once, never replaced, and no commit leaves it. *)
THEOREM BootBranchGrows == BootSpec => [][IsAncestor(branch, branch')]_bootVars
<1>1. BootInv /\ [BootNext]_bootVars => [IsAncestor(branch, branch')]_bootVars
    BY BootBranchStep DEF BootInv
<1> QED  BY <1>1, BootInvCorrect, PTL DEF BootSpec
=============================================================================
