# Opax: specification, model checking and proofs

Opax keeps the records of AI-assisted development in the Git repository they
belong to: on an orphan branch `refs/heads/opax/v1`, in Git notes, with a lock
file and a few lines of Git configuration beside them.  There is no server and
no daemon.  Every process that uses the library talks to the repository by
running `git` commands, and any number of processes and goroutines do so at the
same time, next to a user who fetches, pushes and edits configuration by hand.
Correctness therefore rests on a handful of protocols: compare-and-swap on a
reference, a retry loop, a lock file, a validation before use.  These modules
model those protocols from the code in `src/internal`.

## 1. The system

| Component | Code | State | Operations | What makes it correct |
|---|---|---|---|---|
| reference compare-and-swap | `git/git_cli_helpers.go:172-298` | one Git reference | `readRef`, `updateRefCAS` with a probe after a failed update | an update that is reported as applied, lost or unknown really was |
| record writer | `git/write_records.go`, `git/ref_publish.go` | the branch; per call the tip read, the commit built, the attempt | `WriteRecord` with or without an expected tip | no record is lost, doubled or changed; retries end |
| record reader | `git/read_records.go` | per call the tip resolved | `ReadRecord`, `ReadFileAtPath`, `WalkRecords` | a read is a snapshot, and sees what was acknowledged |
| branch bootstrap | `git/opax_branch.go` | the branch, the lock file | `EnsureOpaxBranch`, `ValidateOpaxBranch`, `GetOpaxBranchTip` | created once, never replaced; lock always given back |
| file lock | `lock/lock.go` | `.git/opax.lock`; the processes' lives and PIDs | `Acquire`, `Release` | one holder; a dead holder's lock is never stolen |
| notes | `git/notes.go` | `refs/notes/opax/*`, one tree of notes each | `WriteNote`, `ReadNote`, `ListNotes` | as for records, with overwriting allowed |
| refspec configuration | `git/refspec.go` | multi-valued keys `remote.<name>.fetch`/`.push` in `.git/config`; the lock file | `BuildRefspecPlan`, `ApplyRefspecPlan`, `ReadRefspecState` | hygiene is idempotent, never loses a user's line, never makes a plain `git push` do less |
| runtime policy | `git/runtime_policy.go` | a process-wide cache: a verdict for each path of a `git` binary | `newGitCommandRuntime`, `ensureSupportedGitVersion`, the environment of commands | nobody works with a Git that was not seen to be supported; verdicts settle |
| repository discovery | `git/discovery.go`, `EnsureOpaxDir` in `git/opax_branch.go` | the `opax` directory in the common Git directory | `DiscoverRepo`, `opaxLockPath`, `EnsureOpaxDir` | all worktrees of a repository come to one lock file |
| commit trailers | `git/trailers.go` | none (the message is the caller's) | `UpsertSaveTrailer`, `ParseSaveTrailer`, `ParseSaveTrailerFromCommit` | a commit gives back the save ID that its hook allocated; other trailers stay |
| configuration | `config/config.go` | the configuration merged so far | `Load`, `Validate`, `ParseDuration` | the last file that sets a field decides; what is loaded is valid; no silent overflow |
| core types | `types/types.go` | ID entropy under a mutex; prefix registry | `NewULID`, IDs, `PrefixRegistry` | IDs are unique and ascend |
| command line, placeholders | `cmd/opax/main.go`, `internal/{capture,cas,hygiene,mcp,plugin,store}`, `plugins/memory` | none | none yet | nothing to model: stubs and package clauses |

How they interact.  `WriteRecord`, `WriteNote`, `ReadRecord` and the rest share
nothing in memory: a call opens the repository anew and communicates with other
calls only through references, objects (immutable, content-addressed) and
files.  `EnsureOpaxBranch` and `ApplyRefspecPlan` take the one lock file of the
repository; `WriteRecord`, `WriteNote`, readers and the user's own `git`
commands take no lock at all.  `EnsureOpaxBranch` treats "this process already
holds the lock" as "another goroutine does" and waits by polling.

What is hard: every `git` command is a separate process, so anything may happen
between two of them; a command may fail, may fail *after* it took effect, or
outlive the process that started it; a commit's hash depends on nothing but its
content, so two callers can build the same commit; a layout that one `git`
command reported may be another one when the next command asks; a PID in a lock file outlives
its process and may be given to another; the lock file is created in one step
and filled in another; and the lock is removed by path, not by identity.
`PROJECT.json` lists these hazards one by one, each with its line and the
properties that would catch it going wrong.

## 2. The modules

```
GitRef ------------- one reference: ancestry, update-ref, the probe's verdict
  |-- RecordBranch - WriteRecord, for any number of concurrent calls
  |     |-- implements RecordLog (an atomic write-once map)
  |     `-- RecordRead - readers and walkers beside those writers
  |-- Notes -------- WriteNote, ReadNote, ListNotes on one namespace
  `-- Bootstrap ---- EnsureOpaxBranch; also extends
FileLock ----------- Acquire and Release, processes, PIDs
  `-- implements Mutex (grab, drop, lose, reclaim)
        `-- Refspec - ApplyRefspecPlan, with Mutex as its lock
VersionGate -------- is this Git supported?  the cache and its probes
  `-- Discovery ---- DiscoverRepo, the lock path, EnsureOpaxDir
        `-- CommitHook - goroutines that prepare commits; also extends
Identity ----------- ULIDs from one source of entropy, on a wall clock
Trailers ----------- what an upsert makes of a message, what a parse finds
RecordTree --------- the tree of a commit: files in, files out
Config ------------- Load, file by file
Subsequence -------- what a loop over a sequence keeps (Trailers, RecordTree)
```

The proofs about each are in modules beside them:

| Proofs | About | Builds on |
|---|---|---|
| `GitRefProofs` | GitRef's operators | |
| `RecordBranchProofs` | RecordBranch, its refinement of RecordLog | `GitRefProofs` |
| `RecordReadProofs` | RecordRead | `RecordBranchProofs` |
| `NotesProofs` | Notes | `GitRefProofs` |
| `BootstrapProofs` | FileLock, its refinement of Mutex, Bootstrap | `GitRefProofs` |
| `RefspecProofs` | Refspec, its use of Mutex | |
| `RecordTreeProofs` | Subsequence, RecordTree | |
| `LibraryProofs` | VersionGate, Discovery, Identity, Trailers, CommitHook, Config | `RecordTreeProofs`, for Subsequence |

`MC<Module>.tla` and the `.cfg` files instantiate them for TLC.  A definition
whose comment begins with "Mutant" is a deliberately wrong version of the
definition that follows: no specification uses it, and it documents which
mistake in the code a property would notice.

**GitRef.**  Git objects are immutable and named by content, and Opax's
branches are linear.  The hash of a commit is therefore modelled by the
sequence of commit contents from the root to it: equal content on equal parents
is the equal hash (as in Git), an ancestor is a prefix, the zero hash is the
empty sequence.  `UpdateRefEnds` lists how `git update-ref <new> <old>` can
end; the constant `LostAck` says whether it may move the reference and still
exit non-zero.  `ProbeVerdicts` is what `updateRefCAS` makes of a non-zero
exit: `classifyRefCASOutcome` of the reference as read again, or, when that read
fails too, what stderr says.

**RecordBranch.**  A call goes through `Validate` (`ValidateOpaxBranch`, once),
`ReadRef`, `Build` (`buildRecordWriteReference`: existence check and new commit
on the tip as read), `UpdateRef`, and `Probe` when the update failed; `LoseRace`
is the loop of `publishRefWithRetry`.  `phase[c]` is the step call `c` is about
to take or its verdict, `seen`, `next`, `attempt` its local variables, `exit` the
end of its last update.  A record root is a model value; that a tree holds a
record is that some commit of the branch added it (`RootsIn`), because every
commit of the code adds exactly one record to its parent's tree.  What is read
through a hash cannot change, so a `Build` is one step however many `git`
commands it takes.  `moves` and `height` are history variables: they guard
nothing.

**RecordLog** is the abstract promise: a map in which a root is written at most
once, in one atomic step that may be reported later or never.  `ImplementsLog`
is the refinement.

**RecordRead** adds readers to the same branch: one step resolves and validates
the tip, everything else comes from that commit, a walk hands out one record per
step and its visitor may stop it.

**FileLock.**  `Open` (O_EXCL), `WriteLockInfo`, `CleanupPartialLock`,
`ReadLockFile`, `Judge` (`inspectLockFile` on what was read), `PollAgain`,
`Release` and `Remove` are separate steps.  Files have an identity (creator and
call), which the code does not look at; that is what makes "removes the wrong
file" expressible.  Processes are born, exit, crash, and may be given a dead
process's PID.  A timeout is a choice `Judge` may always make, and has to make
after `MaxPolls` polls.  `WriteLockInfo` may also fail after the PID has reached
the file (`Sync`) or before all of it has, which reads like no PID.
`ManualCleanup` is the user of FEAT-0004, who removes a lock file nobody holds.

A blank file is stale once it is older than the grace period of 100 ms *when it is
judged*, by the time stamp that came with the read.  Time is therefore in the
model: `Tick` lets one unit of it pass, `age` is the age of a blank file at the
path, `lookAge[t]` what it was when `t` read it, `pause[t]` the time since `t`'s
last step; `Judge` compares `lookAge[t] + pause[t]` with `Grace`.  `Tick` has to
wait for a task that has been held up for `MaxPause` at a step that matters to
the grace period (`Timed`); a `MaxPause` beyond `Grace` is no limit.

**Mutex** is the abstract lock: `ImplementsMutex` maps the holder to the creator
of the file at the path while that call is between creating and removing it, to
"lost" when the file has outlived its call.

**Bootstrap** composes FileLock and GitRef: `EnsureOpaxBranch` for tasks that
share processes, with a user who fetches the branch, a foreign branch of the
same name, writers that extend the branch, and `git` children that outlive a
crashed parent.

**Notes** is the same publishing loop on a namespace that need not exist, whose
commits hold a tree of notes.  A tree has an entry for each target in the flat
form that `git notes` writes, in the sharded form that Opax writes, or neither;
`ShardOf` says which targets share a shard directory, so that a write has
siblings to carry over, and `blocked` are the shard names that are taken by a
file, where Opax finds none of the shard's notes and `git notes` still finds the
flat ones (`EntryOf`).  A commit carries
its whole tree, so a retry that built on the wrong one would lose notes in the
model as in the repository.  `ReadNote` and `ListNotes` are functions of the tree
a reference resolves to, as in the code, which reads one immutable tree.  The
user edits the namespace in one step on the current tip (`EditWithGit`); what
`git notes` does to a commit that arrives while it runs is git's affair.  `by` is
a history variable.

**Refspec** follows `ApplyRefspecPlan` command by command: `ReadKey` is one `git
config --get` of the first preflight (`check`), the second one under the lock
(`recheck`) or the final read (`state`); `AddExclusion` and `Rewrite` are one
`git config` write each.  Refspecs are the classes that the code tells apart:
a branch mapping (reaches `opax/v1` unless it is excluded), a wide mapping, any
other line, the exclusion; canonical, recognised and unknown values of the two
keys Opax owns.  The lock is the module Mutex, which FileLock is shown to
implement: a lost lock stays closed until `ManualCleanup`, and a waiting call may
give up at any time, as it does in the code at its deadline or on a stale file.
`edits`, `base` and `wrote` are history variables, with which the properties say
"unless the user interfered under the lock".

**VersionGate.**  `gate[t]` is where goroutine `t` is in
`ensureSupportedGitVersion`: looking the path up (`EnterGate`), running `git
version` without the mutex (`Probe`), storing its verdict over whatever is
stored by now (`CacheGateResult`).  `InstallGit` is the user who replaces the
binary at a path or makes "git" resolve to another one.  A probe may always
fail.  `supported` and `settled` are history variables.

**Discovery** adds `DiscoverRepo` and `EnsureOpaxDir`, one step for each `git`
command and each access to the file system.  `layout[d]` is what git finds around
directory `d`: a worktree (main or linked) of a repository, a bare repository,
nothing, or something broken; a directory of git's is a pair of repository and
worktree, and the common one is that of the main worktree.  `MoveRepo` changes a
layout between any two steps.  `between` is a history variable.

**Identity.**  `NewULID` is one step because the code holds its mutex across
reading the clock and drawing the random part.  A ULID is the millisecond, a
draw and the increments `ulid.Monotonic` has made to it since; 80 random bits are
taken not to repeat a draw within a millisecond nor to run out of increments.
`Tick` moves the clock on or sets it back.

**Trailers** has no variables: a message is the sequence of its trailers.  Git
decides which trailers are the same one (`TakenForSave`: without regard to
case and only up to the length of the shorter token), the Go code which of them
holds the save ID (`SaveTrailers`) and whether there is exactly one.

**CommitHook** composes the four: each goroutine discovers its repository,
allocates an ID, has git rewrite the message (a fresh one, or the one of any
other commit, as in an amend), and reads the ID back from the commit after
opening the repository again.

**Config** follows `LoadWithPersonalDir` file by file.  A file is a function from
the fields it sets to their values, so that "absent" is not "zero", as with the
pointers of `rawConfig`.  Fields that the code treats alike have one
representative.  `Wrap` is Go's signed arithmetic of `Width` bits.

**RecordTree** looks into the commits that RecordBranch names: a tree is a
function from paths to contents.  `BeginWrite`, `AddFile` (one per file of the
request) and `UpsertRecordTree` are the parts of `buildRecordWriteReference` that
touch the tree; the way a record's root is found in it, its files are added to
the maps of `writeRecordFilesTree`, and its tree is put into the shard's, the
collection's and the root tree.  `ReadRecord`, `ReadFileAtPath`, `WalkRecords` are
functions of a tree.  The branch moves in one step and trees are immutable, so
concurrent writers add nothing here that RecordBranch does not have: a retry
starts from another tree.  A path is a sequence of segments, as it is split at
its slashes; which segments have a backslash in them is a constant.

**Subsequence** is the loop that passes over some elements of a sequence:
`Keep(s, S)` is what is left of `s`.  It is `SelectSeq` with a set for a test
(`KeepIsSelectSeq` in `MCLibrary` compares the two on all short sequences),
written as a recursive function because the provers know nothing of `SelectSeq`.

## 3. What is checked

| Run | Question | Bounds |
|---|---|---|
| `records_race` | Do races, retries, lost answers, failures and crashes ever double a record, publish twice, rewrite history, or make an error lie? | 3 calls, 2 roots, 2 attempts, lost answers |
| `records_content` | Is what was acknowledged there with the caller's files, does the branch implement RecordLog, and does every call return? | 2 calls, 2 roots, 2 payloads, 1 time stamp, 2 attempts, lost answers |
| `reads` | Are reads snapshots, monotonic, and do they see acknowledged records? | 2 writers, 1 reader that reads for ever |
| `lock` | Is the lock file a mutex, never stolen, never wrongly called stale; does Acquire return? | 3 processes, one PID used twice, 2 polls, a grace period of 2 ticks and pauses of 1 |
| `lock_spurious` | (violation) Is ErrStaleLock only for locks left behind? | 3 processes, grace and pauses as in `lock` |
| `bootstrap` | Is the branch created once, is the lock held where it must be and given back, do callers agree? | 2 goroutines of one process, 1 of another; no grace |
| `bootstrap_live` | Does EnsureOpaxBranch return? | 2 goroutines of one process, 2 calls of Acquire each; no grace, pauses without limit |
| `notes` | Do races between writers, on one target or two, lose a note, revive an old one or leave a tree that cannot be listed? | 2 calls, 3 targets of which 2 share a shard, 2 contents, 2 attempts, 1 edit by the user, lost answers |
| `refspec` | Does success mean a canonical, isolated configuration; does refusal mean untouched; do the user's lines stay; does every call return? | 2 calls, 1 edit by the user, 2 initial configurations, crashes and failed commands everywhere |
| `library` | Do hooks read back the IDs they gave, from every worktree, beside upgrades and a clock that is set back; does Load layer its files; does a tree give back what was put into it and keep the rest? | 2 hooks, 2 paths of git, 2 versions, 2 events around the hooks; files that set up to 2 fields; 3 records, 2 writes, 6 trees to begin with |
| `trailers_twice` | (violation) Does an upsert leave one Opax-Save trailer? | 2 hooks, 4 messages |
| `periods_wrap` | (violation) Is a period of a valid configuration positive? | Durations of 12 bits, counted in days |

Why the bounds are enough to be interesting.  A race needs two calls; being
overtaken between a lost update and its probe needs a second writer, and
exhausting two attempts needs two others, hence three calls.  Two attempts give
a first try, a retry and an exhaustion.  Two roots give both a duplicate and an
independent writer.  Two payloads tell "my record" from "a record of that name".
In `notes`, two calls and a lost answer give the overtaken retry, and one edit
gives a flat tree, a garbled note or a blocked shard for a call to meet at any of
its steps; three targets are one's own, a sibling in its shard directory and one
elsewhere.  In `refspec`, the second call is what the lock is for (a first one
that crashed half way is a call too), and one edit meets every pair of commands.
In `library`, each behaviour exercises one of three parts that share no state
(`part`), so that their state spaces add up instead of multiplying.  Two hooks
are one to overwrite the other's verdict, to mint in the same millisecond, to
start from another worktree and to amend the other's message; two events are one
between two steps of a hook and one more between two later steps.  The trees to
begin with are empty, as `EnsureOpaxBranch` makes them, with another record, with
a file where a shard or a record should be, and with a submodule; requests have
up to three files whose paths are spelled in several ways and collide in both
orders.  A `Width` of 12 with a `Day` of 1 puts the end of the range at 2047 days:
"9y" wraps there as "300y" does with 64 bits of nanoseconds.
The lock's interesting cases (an owner that dies, a waiter that has read its PID,
a newcomer that takes the PID over) need three processes.  A grace period of two
ticks is the shortest that two pauses of one tick fit into, and it is tight: with
pauses of two ticks and a grace of three `StaleIsNotHeld` is violated, with a grace
of four it holds again.  The bootstrap has no property about the grace period, so
its runs have none.  `maxRefPublishAttempts`
is 8 in the code and `DefaultTimeout` 5 s; the proofs hold for every number of
attempts.

Symmetry is used in `records_race`, `reads`, `bootstrap`, `notes` and `library`
(there over the paths of git), which check safety only; the configurations with a
liveness property use none. Deadlock checking is off except in `reads`, because
the systems stop when every call has returned.

Fairness.  `FairSpec` assumes that a goroutine inside `WriteRecord` keeps
running (weak fairness of each call's own next step) and nothing of the others: a
call never waits for anyone.  `FairLockSpec` assumes the same of `Acquire`, and
that a holder's deferred `Release` runs.  `FairBootSpec` assumes it of
`EnsureOpaxBranch` and of the lock steps it makes, `FairSpec` of Refspec of each
`ApplyRefspecPlan`.  No process is assumed to
survive, no lock to be cleaned up, no `git` command to succeed.

What the checks show: all properties of the passing runs hold.  The three violated
ones are disagreements between documents and code (section 5).

## 4. What is proved

Every invariant and every action property that a passing run checks, and both
refinements, are theorems: they hold for *every* value of the constants that
satisfies the named assumptions below.  Only the four liveness properties are
left to TLC.  The theorems that `PROJECT.json` lists are the results; the lemmas
before them are the argument.

**Assumptions.** They name what the code or its surroundings guarantee: at least
one attempt; answers are lost or not (`LostAck`); the sentinel is no record;
bounds are numbers; each task runs in a process, no process has the PID that
stands for a blank file, and "no file" is not a file (`FileAssumption`); the
lock's "nobody" and "lost" are no calls; tokens are of one of three kinds and
messages consist of trailers (`TemplatesAssumption`); a save ID is a number from
1, and what is no ID is not one (`NotAnIDAssumption`); a word of `Width` bits
holds the default period (`WidthAssumption`); configuration files set known
fields (`LayersAssumption`); a valid record root has three proper names of which
the first is not `meta` (`RootsAssumption`, which is `IsValid` of IDs and
collections with the shard between them); each target has one shard
(`NoteShardAssumption`); the paths of a request are sequences of segments and its
contents are not a submodule (`RequestsAssumption`); the trees of the repository
have clean paths, as git's own checks demand (`ForeignAssumption`). One theorem
has a hypothesis beyond them: `StaleIsNotHeldHolds` assumes `2 * MaxPause <=
Grace`, that two pauses in a row fit into the grace period of a blank lock file,
as they do in the `lock` run. That no single pause exceeds it would not do
(section 5).

**RecordBranch** (`IInv`).  No property is inductive alone: that no record is
doubled rests on what a call knew when it built its commit, which another call
may have outdated since.  `AttemptInv` says what an attempt in progress may rely
on *although others move the branch*: the tip it read is still an ancestor of the
branch (`Growth`), that tip does not hold its record, the commit it wants to
publish is one commit on top of that tip, each attempt it has lost is a commit
somebody else added, and a call that ever moved the branch finds its record
there, so that a retry stops at the existence check.  The compare-and-swap ties
the stale knowledge to the present: the branch moves only if it still *is* the
tip that was read (`BranchStep`).  `StepOf` reduces every step to a step of the
call in question or one that leaves it alone.  The refinement of RecordLog
(`ImplementsLogHolds`) rests on the same invariant: the step of `update-ref` that
moves the branch is the write of the abstract log (`LogStores`), every other
step stutters (`LogStutters`) or reports (`LogReports`), and a report agrees with
the log because what a call knows of the branch stays true.

**RecordRead** (`ReadInv`).  `ReadersDoNotDisturb` shows that the branch behaves
as RecordBranch says with readers beside it, so its theorems carry over.  What a
reader has found is in its snapshot (`SnapshotOf`), whatever was acknowledged
before it began is in there too (`AckedOf`), and the snapshot is an ancestor of
the branch and not older than the one before (`TipsOf`).  The records of an
ancestor are those of the branch, so what was read never becomes wrong.

**Notes** (`NoteInv`).  As for records, with two differences: a note may be
overwritten, and a retry is not stopped by an existence check.  `LastWriterInv`
is what replaces it: a call that may still publish did not publish the tip, and
if it did without knowing, its probe will find its own commit.  That `ListNotes`
agrees with `ReadNote` needs that no target has an entry in both layouts
(`OneLayout`).

**FileLock** (`LockInv`) **and Bootstrap** (`BootInv`). `HolderOwnsFile` alone is
not inductive: a person may remove a file whose PID is dead, so the PID in a file
has to be its creator's (`PidsAreCreators`) and a holder has to be alive
(`AtWorkIsAlive`); a verdict on what was read earlier stays true because a call
creates at most one file (`CallsAreSpent`). That a file in use is not called
stale is an argument about time (`YoungWhileInUse`): a blank file in use is no
older than its creator's current pause, and `MaxPause` more if its write has
failed; what a reader makes of it is no older than that while the creator is at
it, and afterwards than `MaxPause` and the reader's own pause. `EnsureOpaxBranch`
takes only steps that FileLock allows (`UsesTheLock`), so all of this holds under
it, and `StepsAndLock` ties the steps of a call to where it is in Acquire and
Release: that is why the lock covers the creation (`LockCoversCreationHolds`) and
is given back on every path (`NoLeakedLockHolds`). `ImplementsMutexHolds` maps
the file to the abstract lock that Refspec is built on, and `CallsUseTheMutex`
shows that Refspec uses it by Mutex's steps, so that the two fit together.

**Refspec** (`IInv`, `RefusalInv`).
`OkMeansConfigured` speaks of the last moment of a call and says nothing of the
dozens of commands before it, so the proof gives each of them its part:
`Knows(c)` says, phase by phase and command by command, what is true of the
configuration *now* because of what call `c` has read or written since it took
the lock.  `KnowInv` claims it for a call under the lock while `edits = base[c]`,
that is, while the user has kept away since.  It is inductive because a step of
`c` passes from one part to the next, and a step of another call changes nothing:
calls write only under the lock (`OthersAlone`) and the lock is exclusive.
`RefusalsWriteNothing` needs the mirror image: what the second preflight has
*vetted* (`Vetted`) stays acceptable until the writes, so that a call that has
written has no reason of its own left to refuse.

**VersionGate** (`GateInv`).  Verdicts settle because nobody is still probing a
path whose verdict is settled (`NoLateProber`).  **Discovery** (`RepoInv`): what a
goroutine knows is true of *some* repository, and of its own directory's while
the user has not moved it (`Discovered`).  **Identity** (`IdentityInv`): two IDs
grow within an era, and across eras a millisecond that comes again has another
draw or goes on growing (`Grow`).  **Config** (`ConfigInv`): the configuration so
far is the layering of the files so far (`Merged`).

**Trailers and CommitHook** (`SaveInv`).  From the upsert on, a hook's message is
what `UpsertSaveTrailer` makes of the one it was given, for the ID it has
allocated (`InHand`).  What that message *is*, for messages of any length, is
`UpsertFacts`: the trailers that are not taken for the save ID stay, in order,
and if there was one at most that is, the new one is the only one.

**RecordTree** (`PathsInv`, `TreeInv`).  `PathsInv` follows a request file by
file: those added are pairwise out of each other's way, which makes "collision"
exact.  `TreeInv` describes what lies under the root of each written record
(`Stored`) and says of the record being written that its root is still free.
The graft then adds exactly its paths (`FreshGraft`): they are under no other
root, because all roots have three names (`RootsApart`), so every record stays
as it was written, and a walk finds one more.  That a record also reads back by
the path its caller spelled is `CleanUnderRoot`: cleaning the path under a root
cleans the part below it.

**Induction over data.**  The library's induction rules take an operator as a
parameter, which the installed provers cannot instantiate.  `NatSetInduction` in
`RecordTreeProofs` states induction for a *set* of numbers instead and derives it
from the order of `Nat` being well founded (`WFMin`,
`NatLessThanWellFounded`); `KeptOfUnfolds` uses it to show that the recursion of
`KeptOf` has a solution, and the facts about `Keep` (`KeepConcat`, `KeepAround`,
`KeepEmptyIff` and others) follow for sequences of any length.

**Left to TLC.**  The liveness properties under fairness (`CallsReturn`,
`AcquireReturns`, `EnsureReturns`, `ApplyReturns`) and anything with ENABLED,
which are out of the prover's reach; that `Keep` agrees with `SelectSeq`, of
which the provers know nothing; the three violated properties of section 5.

## 5. Where documents and code disagree

Shown by a run:

1. **A stale lock that is not there** (`lock_spurious`).  `inspectLockFile` reads
   the PID and then probes it.  A holder that releases and exits in between makes
   the waiter fail with `ErrStaleLock` though the path is free.
2. **Two trailers stay two** (`trailers_twice`).  FEAT-0010 wants several
   `Opax-Save` trailers normalised to one; `git interpret-trailers --if-exists
   replace` deletes one of them and adds the new one, and `ParseSaveTrailer`
   refuses the commit.
3. **A negative retention period** (`periods_wrap`).  `ParseDuration` refuses
   numbers that are not positive but not products that wrap: "300y" is accepted
   and negative.

Met while modelling, without a run of their own:

* The same use of git deletes a trailer whose token begins with `Opax-Save`
  (`Opax-Save-Extra`) when the message has no `Opax-Save` after it, because git
  compares tokens up to the shorter one's length; FEAT-0010 wants other trailers
  preserved.  `CommitsCarryTheirSave` is stated up to such trailers.
* Two writers of one record with the same files, parent and second build the
  *same commit*; the loser's probe finds its own hash on the branch
  (`git_cli_helpers.go:283`) and both return success.  The branch is right
  (`OneCommitPerRecord`); FEAT-0007 wants a duplicate error.
* If update-ref moves the reference but exits non-zero, and another writer
  advances the branch before the probe, the retry finds the record and the caller
  is told `ErrRecordExists` about the record it wrote.  The record is there once
  (`MovesAtMostOnce`).
* The grace period is measured when a blank lock file is judged, so two pauses add
  up although each is shorter: a file created at 0 ms and read blank at 70 ms, into
  which its holder writes its PID at 80 ms, is called stale at 130 ms
  (`lock.go:204`), while the lock is held.  `StaleIsNotHeld` is stated, and proved,
  for pauses of which two fit into the grace period.
* A PID that was used again makes a dead process's lock look like the caller's own
  (`ErrAlreadyHeldByCurrentProcess`, `lock.go:229`).
* FEAT-0003 validates the merged configuration once and lets "non-zero" values
  win; the code validates after each file, so that a personal file cannot repair
  an invalid team file, and lets any value win that is set (`LoadIsLayered`).

## 6. Plan

The safety properties are proved.  What is left is to prove more than the runs
ask: that Refspec with FileLock's own steps in place of Mutex behaves as Refspec
says (now the two halves are proved, `ImplementsMutex` and `CallsUseTheMutex`);
that a second `ApplyRefspecPlan` in a row changes nothing; that the IDs of
separate processes cannot be confused given distinct draws; a refinement of
Notes by a map of the last writes, as RecordLog is for records; and, of the core
types, `PrefixRegistry` and the syntax of IDs.

Not modelled: a branch that somebody replaces by a foreign one, or removes and
makes anew, while a call is under way (`WriteRecord` validates once, before its
retries, `write_records.go:23`; `EnsureOpaxBranch` looks at the tip and validates
in two steps, `opax_branch.go:67`), since the branch of RecordBranch has Opax's
commits only and that of Bootstrap only grows; the parsing of Git's output
(`ls-tree`, `cat-file --batch`), which converts another program's text; YAML; the
wording of errors; the syntax of IDs; `PrefixRegistry`, a put-if-absent under a
mutex that nothing in the program calls yet; `cmd/opax`, whose commands are
stubs; the packages without code.
