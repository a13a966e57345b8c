------------------------------- MODULE Notes --------------------------------
(***************************************************************************)
(* Concurrent WriteNote calls on one namespace, refs/notes/opax/<name>:    *)
(* internal/git's notes.go over publishRefWithRetry and updateRefCAS.      *)
(*                                                                         *)
(* A namespace is a branch whose tree holds one note per target commit.    *)
(* Opax stores a note under a two-digit shard directory; `git notes`, with *)
(* which a user may edit the same namespace, keeps a small tree flat.  A   *)
(* note may be overwritten: the last writer wins, but only over the note   *)
(* of the same target.                                                     *)
(***************************************************************************)
EXTENDS GitRef, FiniteSets

CONSTANTS
    Calls,        \* the WriteNote calls ever made
    Targets,      \* the commits that notes are about
    Shards,       \* the names a shard directory may have
    ShardOf,      \* ShardOf[t]: the first two digits of target t
    Contents,     \* what a note may say
    Garbage,      \* a blob that is no note payload, from `git notes add -m`
    Absent,       \* no entry
    Stamps,       \* the wall-clock seconds a commit may be stamped with
    User,         \* whoever edits the namespace with git itself
    MaxAttempts,  \* maxRefPublishAttempts
    MaxEdits,     \* bound: how often the user edits
    LostAck       \* may update-ref move the reference and still exit non-zero?

ASSUME NoteAttemptsAssumption == MaxAttempts \in Nat \ {0}
ASSUME NoteShardAssumption == ShardOf \in [Targets -> Shards]
ASSUME NoteBoundAssumption == MaxEdits \in Nat
ASSUME NoteLostAckAssumption == LostAck \in BOOLEAN
ASSUME NoteValuesAssumption ==
    /\ Garbage \notin Contents /\ Absent \notin Contents /\ Garbage # Absent
    /\ User \notin Calls \cup Targets

VARIABLES
    ref,      \* the hash the namespace points to, NoRef if it does not exist
    phase,    \* phase[c]: the step call c is about to take, or what it returned
    req,      \* req[c]: the target and the content call c writes
    seen,     \* seen[c]: currentRef, as this attempt read it
    next,     \* next[c]: nextRef, the commit this attempt built
    exit,     \* exit[c]: how the last failed update-ref of c exited
    attempt,  \* attempt[c]: the attempts made, this one included
    by        \* history: by[i] is who published the i-th commit

vars == <<ref, phase, req, seen, next, exit, attempt, by>>

(* A root tree: the entries named by a full hash, the entries in shard
   directories, and the shard names that are taken by a file. *)
Tree == [flat : [Targets -> Contents \cup {Garbage, Absent}],
         shard : [Targets -> Contents \cup {Garbage, Absent}],
         blocked : SUBSET Shards]
NoteCommit == [tree : Tree, subject : Targets \cup {User}, time : Stamps]
Hash == Seq(NoteCommit)

Steps == {"check", "read", "build", "update", "probe"}
Verdicts == {"ok", "conflict", "malformed", "unknown", "failed", "crashed"}

-----------------------------------------------------------------------------
(* The tree of notes. *)

EmptyTree == [flat |-> [t \in Targets |-> Absent],
              shard |-> [t \in Targets |-> Absent],
              blocked |-> {}]

(* resolveNoteWriteBase: a reference that does not exist stands for no notes. *)
TreeAt(hash) == IF hash = NoRef THEN EmptyTree ELSE hash[Len(hash)].tree

(* There is a file where the shard directory of t belongs. *)
Blocked(tree, t) == ShardOf[t] \in tree.blocked

(* The entry of t: the shard is looked at first. *)
EntryOf(tree, t) == IF tree.shard[t] # Absent THEN tree.shard[t] ELSE tree.flat[t]

(* readNotePayloadAtTarget.  Garbage stands for ErrMalformedNote, Absent for
   ErrNoteNotFound. *)
ReadNote(tree, t) == IF Blocked(tree, t) THEN Garbage ELSE EntryOf(tree, t)

(* collectNotesFromTree fails on a target with two entries, on an entry that
   is neither a note nor a shard, and on a note it cannot decode. *)
Listable(tree) ==
    /\ tree.blocked = {}
    /\ \A t \in Targets : /\ tree.flat[t] = Absent \/ tree.shard[t] = Absent
                          /\ tree.flat[t] # Garbage /\ tree.shard[t] # Garbage

ListNotes(tree) ==
    {[target |-> t, content |-> tree.flat[t]] : t \in {u \in Targets : tree.flat[u] # Absent}}
    \cup {[target |-> t, content |-> tree.shard[t]] : t \in {u \in Targets : tree.shard[u] # Absent}}

(* Mutants: the flat entry stays beside the new one; the shard directory is made
   anew, without the notes that were in it. *)
UpsertBeside(tree, t, content) == [tree EXCEPT !.shard[t] = content]

UpsertFreshShard(tree, t, content) ==
    [tree EXCEPT !.flat[t] = Absent,
                 !.shard = [u \in Targets |-> IF u = t THEN content
                                              ELSE IF ShardOf[u] = ShardOf[t] THEN Absent
                                              ELSE tree.shard[u]]]

(* The root's other entries and the shard's other entries are carried over. *)
UpsertNoteTree(tree, t, content) ==
    [tree EXCEPT !.flat[t] = Absent, !.shard[t] = content]

-----------------------------------------------------------------------------
(* The calls. *)

Init ==
    /\ ref = NoRef
    /\ phase = [c \in Calls |-> "idle"]
    /\ req \in [Calls -> [target : Targets, content : Contents]]
    /\ seen = [c \in Calls |-> NoRef]
    /\ next = [c \in Calls |-> NoRef]
    /\ exit = [c \in Calls |-> "ok"]
    /\ attempt = [c \in Calls |-> 1]
    /\ by = << >>

Goto(c, p) == phase' = [phase EXCEPT ![c] = p]

Begin(c) ==
    /\ phase[c] = "idle"
    /\ Goto(c, "check")
    /\ UNCHANGED <<ref, req, seen, next, exit, attempt, by>>

(* ensureCommitExists: the target is a commit of the repository. *)
CheckTarget(c) ==
    /\ phase[c] = "check"
    /\ Goto(c, "read")
    /\ UNCHANGED <<ref, req, seen, next, exit, attempt, by>>

ReadRef(c) ==
    /\ phase[c] = "read"
    /\ seen' = [seen EXCEPT ![c] = ref]
    /\ Goto(c, "build")
    /\ UNCHANGED <<ref, req, next, exit, attempt, by>>

(* Mutant: a retry commits the tree its first attempt built on the new tip. *)
BuildReusesTree(c) ==
    /\ phase[c] = "build"
    /\ ~Blocked(TreeAt(seen[c]), req[c].target)
    /\ \E t \in Stamps :
            next' = [next EXCEPT ![c] = Append(seen[c],
                [tree |-> IF attempt[c] > 1 THEN TreeAt(next[c])
                          ELSE UpsertNoteTree(TreeAt(seen[c]), req[c].target, req[c].content),
                 subject |-> req[c].target, time |-> t])]
    /\ Goto(c, "update")
    /\ UNCHANGED <<ref, req, seen, exit, attempt, by>>

(* buildNoteWriteReference: everything it reads is immutable. *)
Build(c) ==
    /\ phase[c] = "build"
    /\ \/ /\ Blocked(TreeAt(seen[c]), req[c].target)
          /\ Goto(c, "malformed")
          /\ UNCHANGED next
       \/ /\ ~Blocked(TreeAt(seen[c]), req[c].target)
          /\ \E t \in Stamps :
                next' = [next EXCEPT ![c] = Append(seen[c],
                    [tree |-> UpsertNoteTree(TreeAt(seen[c]), req[c].target, req[c].content),
                     subject |-> req[c].target, time |-> t])]
          /\ Goto(c, "update")
    /\ UNCHANGED <<ref, req, seen, exit, attempt, by>>

Publishes(who) == by' = IF ref' # ref THEN Append(by, who) ELSE by

(* Mutant: a namespace that was not there is created whatever is there now. *)
UpdateRefOrCreate(c) ==
    /\ phase[c] = "update"
    /\ \E end \in UpdateRefEnds(IF seen[c] = NoRef THEN NoRef ELSE ref,
                                next[c], seen[c], LostAck) :
            /\ ref' = IF end.ref = NoRef THEN ref ELSE end.ref
            /\ exit' = [exit EXCEPT ![c] = end.exit]
            /\ Goto(c, IF end.exit = "ok" THEN "ok" ELSE "probe")
    /\ by' = SubSeq(Append(by, c), 1, Len(ref'))
    /\ UNCHANGED <<req, seen, next, attempt>>

(* publishReference; without a currentRef the old value is the zero hash. *)
UpdateRef(c) ==
    /\ phase[c] = "update"
    /\ \E end \in UpdateRefEnds(ref, next[c], seen[c], LostAck) :
            /\ ref' = end.ref
            /\ exit' = [exit EXCEPT ![c] = end.exit]
            /\ Goto(c, IF end.exit = "ok" THEN "ok" ELSE "probe")
    /\ Publishes(c)
    /\ UNCHANGED <<req, seen, next, attempt>>

(* errReferenceChanged: go round again, or give up with ErrNoteConflict. *)
LoseRace(c) ==
    IF attempt[c] = MaxAttempts
    THEN Goto(c, "conflict") /\ UNCHANGED attempt
    ELSE Goto(c, "read") /\ attempt' = [attempt EXCEPT ![c] = @ + 1]

(* Mutant: whatever the probe cannot confirm is tried again. *)
ProbeOrRetry(c) ==
    /\ phase[c] = "probe"
    /\ \E verdict \in ProbeVerdicts(ref, next[c], seen[c], exit[c]) :
            \/ verdict = "applied" /\ Goto(c, "ok") /\ UNCHANGED attempt
            \/ verdict # "applied" /\ LoseRace(c)
    /\ UNCHANGED <<ref, req, seen, next, exit, by>>

Probe(c) ==
    /\ phase[c] = "probe"
    /\ \E verdict \in ProbeVerdicts(ref, next[c], seen[c], exit[c]) :
            \/ verdict = "applied" /\ Goto(c, "ok") /\ UNCHANGED attempt
            \/ verdict = "conflict" /\ LoseRace(c)
            \/ verdict = "unknown" /\ Goto(c, "unknown") /\ UNCHANGED attempt
    /\ UNCHANGED <<ref, req, seen, next, exit, by>>

(* A git command before the update fails, the target is no commit, a blob or a
   tree cannot be written: nothing has been published. *)
GitFails(c) ==
    /\ phase[c] \in {"check", "read", "build"}
    /\ Goto(c, "failed")
    /\ UNCHANGED <<ref, req, seen, next, exit, attempt, by>>

(* The process dies; a git update-ref it has started may still succeed. *)
Crash(c) ==
    /\ phase[c] \in Steps
    /\ Goto(c, "crashed")
    /\ \/ ref' = ref
       \/ phase[c] = "update" /\ ref = seen[c] /\ ref' = next[c]
    /\ Publishes(c)
    /\ UNCHANGED <<req, seen, next, exit, attempt>>

-----------------------------------------------------------------------------
(* The user. *)

Edits == Cardinality({i \in 1..Len(by) : by[i] = User})

Commits(tree) ==
    /\ Edits < MaxEdits
    /\ \E t \in Stamps : ref' = Append(ref, [tree |-> tree, subject |-> User, time |-> t])
    /\ Publishes(User)
    /\ UNCHANGED <<phase, req, seen, next, exit, attempt>>

(* `git notes add -f`, `append` or `remove`: git reads either layout and writes
   the whole tree flat.  It leaves alone what is no note, and does not mind it. *)
EditWithGit ==
    \E t \in Targets, content \in Contents \cup {Garbage, Absent} :
        /\ EntryOf(TreeAt(ref), t) # content
        /\ Commits([EmptyTree EXCEPT
                !.flat = [u \in Targets |-> IF u = t THEN content
                                            ELSE EntryOf(TreeAt(ref), u)],
                !.blocked = TreeAt(ref).blocked])

(* A tree made by other means has a file where a shard directory belongs. *)
PutFileInTheWay ==
    \E s \in Shards :
        /\ \A t \in Targets : ShardOf[t] = s => TreeAt(ref).shard[t] = Absent
        /\ s \notin TreeAt(ref).blocked
        /\ Commits([TreeAt(ref) EXCEPT !.blocked = @ \cup {s}])

Advance(c) ==
    CheckTarget(c) \/ ReadRef(c) \/ Build(c) \/ UpdateRef(c) \/ Probe(c)

Next ==
    \/ \E c \in Calls : Begin(c) \/ Advance(c) \/ GitFails(c) \/ Crash(c)
    \/ EditWithGit
    \/ PutFileInTheWay

Spec == Init /\ [][Next]_vars

-----------------------------------------------------------------------------
(* Correctness. *)

Subject(hash) == IF hash = NoRef THEN User ELSE hash[Len(hash)].subject

(* FEAT-0009: writers of different targets never lose each other's notes.  Each
   step adds at most one commit to the branch, and a commit of WriteNote leaves
   every note but that of its own target as the commit before it had it, in
   whatever layout that was and however stale the tip its call had read. *)
OtherNotesSurvive ==
    [][/\ IsAncestor(ref, ref') /\ Len(ref') <= Len(ref) + 1
       /\ Subject(ref') \in Targets =>
            \A t \in Targets \ {Subject(ref')} :
                ReadNote(TreeAt(ref'), t) = ReadNote(TreeAt(ref), t)]_ref

(* A call that returned success named a commit that stays in the history of the
   namespace and in which its target has the content it asked for, over a flat
   entry, a garbled note or no namespace at all. *)
AckedNoteIsInHistory ==
    \A c \in Calls : phase[c] = "ok" =>
        /\ IsAncestor(next[c], ref)
        /\ ReadNote(TreeAt(next[c]), req[c].target) = req[c].content

(* The two layouts never hold a note each for one target, so that ListNotes
   never fails on a duplicate entry and shows what ReadNote shows. *)
ListAgreesWithRead ==
    /\ \A t \in Targets : TreeAt(ref).flat[t] = Absent \/ TreeAt(ref).shard[t] = Absent
    /\ Listable(TreeAt(ref)) =>
            ListNotes(TreeAt(ref)) =
                {[target |-> t, content |-> ReadNote(TreeAt(ref), t)] :
                    t \in {u \in Targets : ReadNote(TreeAt(ref), u) # Absent}}

(* A call publishes again only if somebody else has published since it did: the
   last writer is never overwritten by an earlier write of its own, and a lost
   answer alone is no reason to write twice. *)
NoSecondPublishInARow ==
    \A i \in 1..(Len(by) - 1) : by[i] = by[i + 1] => by[i] = User
=============================================================================
