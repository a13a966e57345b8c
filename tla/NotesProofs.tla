---------------------------- MODULE NotesProofs -----------------------------
(***************************************************************************)
(* Notes, for every set of calls, targets, contents and time stamps, every *)
(* assignment of targets to shard directories, every bound on attempts and *)
(* on the user's edits, and whether or not answers may be lost.            *)
(*                                                                         *)
(* NoteInv adds to the properties what an attempt in progress rests on:    *)
(* the commit it built is a child of the tip it read, and the call itself  *)
(* did not publish that tip.                                               *)
(***************************************************************************)
EXTENDS Notes, GitRefProofs

NoteTypeOK ==
    /\ ref \in Hash
    /\ phase \in [Calls -> {"idle"} \cup Steps \cup Verdicts]
    /\ req \in [Calls -> [target : Targets, content : Contents]]
    /\ seen \in [Calls -> Hash]
    /\ next \in [Calls -> Hash]
    /\ exit \in [Calls -> {"ok", "conflict", "error", "lost"}]
    /\ attempt \in [Calls -> 1..MaxAttempts]
    /\ by \in Seq(Calls \cup {User})
    /\ Len(by) = Len(ref)

(* The commit that c builds on the tip it has seen. *)
NoteOf(c, s) ==
    [tree |-> UpsertNoteTree(TreeAt(seen[c]), req[c].target, req[c].content),
     subject |-> req[c].target, time |-> s]

Built(c) ==
    /\ ~Blocked(TreeAt(seen[c]), req[c].target)
    /\ \E s \in Stamps : next[c] = Append(seen[c], NoteOf(c, s))

(* From the build to its end, an attempt has its commit. *)
BuiltInv == \A c \in Calls : phase[c] \in {"update", "probe", "ok"} => Built(c)

(* A call that may still publish is not the last publisher, unless the commit
   it probes for is the tip. *)
LastIs(who) == by # << >> /\ by[Len(by)] = who

LastWriterInv ==
    \A c \in Calls :
        /\ phase[c] \in {"idle", "check", "read", "build", "update"} => ~LastIs(c)
        /\ phase[c] = "probe" /\ LastIs(c) => ref = next[c] /\ exit[c] = "lost"

OneLayout(tree) == \A t \in Targets : tree.flat[t] = Absent \/ tree.shard[t] = Absent

NoteInv ==
    /\ NoteTypeOK
    /\ BuiltInv
    /\ LastWriterInv
    /\ OneLayout(TreeAt(ref))
    /\ \A c \in Calls : phase[c] = "ok" => IsAncestor(next[c], ref)
    /\ NoSecondPublishInARow

-----------------------------------------------------------------------------
(* Trees. *)

LEMMA EmptyTreeIs == EmptyTree \in Tree /\ OneLayout(EmptyTree)
BY DEF EmptyTree, Tree, OneLayout

(* The tree of a commit is that of its last step. *)
LEMMA TreeAtIs ==
    ASSUME NEW h \in Hash
    PROVE  /\ TreeAt(h) \in Tree
           /\ \A x \in NoteCommit : /\ Append(h, x) \in Hash
                                    /\ TreeAt(Append(h, x)) = x.tree
                                    /\ Subject(Append(h, x)) = x.subject
<1>1. TreeAt(h) \in Tree
    <2>1. CASE h = NoRef
        BY <2>1, EmptyTreeIs DEF TreeAt
    <2>2. CASE h # NoRef
        <3>1. Len(h) \in Nat \ {0}
            BY <2>2, EmptySeq DEF Hash, NoRef
        <3>2. h[Len(h)] \in NoteCommit
            BY <3>1, ElementOfSeq DEF Hash
        <3> QED  BY <2>2, <3>2 DEF TreeAt, NoteCommit
    <2> QED  BY <2>1, <2>2
<1>2. ASSUME NEW x \in NoteCommit
      PROVE  /\ Append(h, x) \in Hash
             /\ TreeAt(Append(h, x)) = x.tree
             /\ Subject(Append(h, x)) = x.subject
    <2>1. /\ Append(h, x) \in Hash
          /\ Len(Append(h, x)) = Len(h) + 1
          /\ Append(h, x)[Len(h) + 1] = x
        BY AncestorAppend DEF Hash
    <2>2. Append(h, x) # NoRef
        BY <2>1, EmptySeq, LenProperties DEF NoRef, Hash
    <2> QED  BY <2>1, <2>2 DEF TreeAt, Subject
<1> QED  BY <1>1, <1>2

(* Writing a note leaves the notes of other targets alone, in either layout,
   and never leaves two entries for one target. *)
LEMMA UpsertIs ==
    ASSUME NEW tree \in Tree, NEW t \in Targets, NEW content \in Contents
    PROVE  LET new == UpsertNoteTree(tree, t, content) IN
           /\ new \in Tree
           /\ new.blocked = tree.blocked
           /\ OneLayout(tree) => OneLayout(new)
           /\ ~Blocked(tree, t) => ReadNote(new, t) = content
           /\ \A u \in Targets \ {t} : ReadNote(new, u) = ReadNote(tree, u)
<1> DEFINE new == UpsertNoteTree(tree, t, content)
<1>1. /\ new.flat = [tree.flat EXCEPT ![t] = Absent]
      /\ new.shard = [tree.shard EXCEPT ![t] = content]
    BY DEF UpsertNoteTree, Tree
<1>2. new \in Tree /\ new.blocked = tree.blocked
    BY DEF UpsertNoteTree, Tree
<1> HIDE DEF new
<1>3. /\ new.flat[t] = Absent /\ new.shard[t] = content
      /\ \A u \in Targets \ {t} : new.flat[u] = tree.flat[u] /\ new.shard[u] = tree.shard[u]
    BY <1>1 DEF Tree
<1>4. content # Absent
    BY NoteValuesAssumption
<1>5. OneLayout(tree) => OneLayout(new)
    BY <1>3 DEF OneLayout
<1>6. ~Blocked(tree, t) => ReadNote(new, t) = content
    BY <1>2, <1>3, <1>4 DEF ReadNote, EntryOf, Blocked
<1>7. \A u \in Targets \ {t} : ReadNote(new, u) = ReadNote(tree, u)
    BY <1>2, <1>3 DEF ReadNote, EntryOf, Blocked
<1> QED  BY <1>2, <1>5, <1>6, <1>7 DEF new

(* What an attempt has built. *)
LEMMA BuiltIs ==
    ASSUME NoteTypeOK, NEW c \in Calls, Built(c)
    PROVE  /\ \E x \in NoteCommit : next[c] = Append(seen[c], x)
           /\ TreeAt(next[c]) = UpsertNoteTree(TreeAt(seen[c]), req[c].target, req[c].content)
           /\ Subject(next[c]) = req[c].target
           /\ next[c] # seen[c]
           /\ Len(next[c]) = Len(seen[c]) + 1
           /\ IsAncestor(seen[c], next[c])
<1> USE DEF NoteTypeOK
<1>1. PICK s \in Stamps : next[c] = Append(seen[c], NoteOf(c, s))
    BY DEF Built
<1>2. NoteOf(c, s) \in NoteCommit
    BY TreeAtIs, UpsertIs DEF NoteOf, NoteCommit
<1>3. /\ Len(next[c]) = Len(seen[c]) + 1
      /\ IsAncestor(seen[c], next[c])
      /\ Len(seen[c]) \in Nat
    BY <1>1, <1>2, AncestorAppend, LenProperties DEF Hash
<1> QED  BY <1>1, <1>2, <1>3, TreeAtIs DEF NoteOf

(* What an entry holds. *)
LEMMA EntryOfIs ==
    ASSUME NEW tree \in Tree, NEW t \in Targets
    PROVE  EntryOf(tree, t) \in Contents \cup {Garbage, Absent}
BY DEF EntryOf, Tree

-----------------------------------------------------------------------------
(* How the namespace changes. *)

(* A commit of the user's: whatever it does, it is no WriteNote's, and it does
   not leave two entries for one target. *)
UserCommits ==
    \E x \in NoteCommit :
        /\ ref' = Append(ref, x) /\ by' = Append(by, User)
        /\ x.subject = User
        /\ OneLayout(TreeAt(ref)) => OneLayout(x.tree)
        /\ UNCHANGED <<phase, req, seen, next, exit, attempt>>

(* A commit of a call, on the very tip the call has read. *)
CallCommits(c) ==
    /\ phase[c] = "update" /\ ref = seen[c]
    /\ ref' = next[c] /\ by' = Append(by, c)
    /\ UNCHANGED <<req, seen, next, attempt>>
    /\ \E p \in {"ok", "probe", "crashed"} : Goto(c, p)
    /\ phase'[c] = "probe" => exit'[c] = "lost"
    /\ \A d \in Calls \ {c} : exit'[d] = exit[d]

LEMMA UserTree ==
    ASSUME NoteTypeOK, NEW tree \in Tree, OneLayout(TreeAt(ref)) => OneLayout(tree),
           Commits(tree)
    PROVE  UserCommits
<1>1. PICK s \in Stamps :
        ref' = Append(ref, [tree |-> tree, subject |-> User, time |-> s])
    BY DEF Commits
<1> DEFINE x == [tree |-> tree, subject |-> User, time |-> s]
<1>2. x \in NoteCommit
    BY DEF NoteCommit
<1>3. ref' # ref
    BY <1>1, <1>2, AncestorAppend, LenProperties DEF NoteTypeOK, Hash
<1> QED  BY <1>1, <1>2, <1>3 DEF Commits, Publishes, UserCommits

LEMMA UserEdits ==
    ASSUME NoteTypeOK, EditWithGit \/ PutFileInTheWay
    PROVE  UserCommits
<1>1. TreeAt(ref) \in Tree
    BY TreeAtIs DEF NoteTypeOK
<1>2. CASE EditWithGit
    <2>1. PICK t \in Targets, content \in Contents \cup {Garbage, Absent} :
            Commits([EmptyTree EXCEPT
                !.flat = [u \in Targets |-> IF u = t THEN content
                                            ELSE EntryOf(TreeAt(ref), u)],
                !.blocked = TreeAt(ref).blocked])
        BY <1>2 DEF EditWithGit
    <2> DEFINE flat == [u \in Targets |-> IF u = t THEN content
                                          ELSE EntryOf(TreeAt(ref), u)]
               tree == [EmptyTree EXCEPT !.flat = flat, !.blocked = TreeAt(ref).blocked]
    <2>2. \A u \in Targets : EntryOf(TreeAt(ref), u) \in Contents \cup {Garbage, Absent}
        BY <1>1, EntryOfIs
    <2>3. flat \in [Targets -> Contents \cup {Garbage, Absent}]
        BY <2>2, Zenon
    <2>4. tree \in Tree /\ tree.shard = EmptyTree.shard
        <3> HIDE DEF flat
        <3> QED  BY <1>1, <2>3, EmptyTreeIs DEF Tree
    <2>5. OneLayout(tree)
        BY <2>4 DEF OneLayout, EmptyTree
    <2> HIDE DEF tree, flat
    <2>6. Commits(tree)
        BY <2>1 DEF tree, flat
    <2> QED  BY <2>4, <2>5, <2>6, UserTree
<1>3. CASE PutFileInTheWay
    <2>1. PICK s \in Shards : Commits([TreeAt(ref) EXCEPT !.blocked = @ \cup {s}])
        BY <1>3 DEF PutFileInTheWay
    <2> DEFINE tree == [TreeAt(ref) EXCEPT !.blocked = @ \cup {s}]
    <2>2. tree \in Tree /\ tree.flat = TreeAt(ref).flat /\ tree.shard = TreeAt(ref).shard
        BY <1>1 DEF Tree
    <2>3. OneLayout(TreeAt(ref)) => OneLayout(tree)
        BY <2>2 DEF OneLayout
    <2> HIDE DEF tree
    <2>4. Commits(tree)
        BY <2>1 DEF tree
    <2> QED  BY <2>2, <2>3, <2>4, UserTree
<1> QED  BY <1>2, <1>3

(* The namespace moves by a commit of the user's or of one call, or not. *)
LEMMA RefStep ==
    ASSUME NoteTypeOK, BuiltInv, [Next]_vars
    PROVE  \/ UNCHANGED <<ref, by>>
           \/ UserCommits
           \/ \E c \in Calls : CallCommits(c)
<1> USE DEF NoteTypeOK
<1>1. ASSUME NEW c \in Calls, UpdateRef(c) PROVE UNCHANGED <<ref, by>> \/ CallCommits(c)
    <2>1. PICK end \in UpdateRefEnds(ref, next[c], seen[c], LostAck) :
            /\ ref' = end.ref
            /\ exit' = [exit EXCEPT ![c] = end.exit]
            /\ Goto(c, IF end.exit = "ok" THEN "ok" ELSE "probe")
        BY <1>1 DEF UpdateRef
    <2>2. next[c] # seen[c]
        BY <1>1, BuiltIs DEF UpdateRef, BuiltInv
    <2>3. CASE ref' = ref
        BY <1>1, <2>3 DEF UpdateRef, Publishes
    <2>4. CASE ref' # ref
        <3>1. ref = seen[c] /\ ref' = next[c] /\ end.exit \in {"ok", "lost"}
            BY <2>1, <2>4, UpdateRefEndsAre
        <3> QED  BY <1>1, <2>1, <2>4, <3>1 DEF UpdateRef, Publishes, CallCommits, Goto
    <2> QED  BY <2>3, <2>4
<1>2. ASSUME NEW c \in Calls, Crash(c) PROVE UNCHANGED <<ref, by>> \/ CallCommits(c)
    <2>1. phase[c] = "update" => next[c] # seen[c]
        BY BuiltIs DEF BuiltInv
    <2> QED  BY <1>2, <2>1 DEF Crash, Publishes, CallCommits, Goto
<1>3. ASSUME NEW c \in Calls,
             \/ Begin(c) \/ CheckTarget(c) \/ ReadRef(c) \/ Build(c) \/ Probe(c) \/ GitFails(c)
      PROVE  UNCHANGED <<ref, by>>
    BY <1>3 DEF Begin, CheckTarget, ReadRef, Build, Probe, GitFails
<1>4. CASE UNCHANGED vars
    BY <1>4 DEF vars
<1> QED  BY <1>1, <1>2, <1>3, <1>4, UserEdits DEF Next, Advance

(* The namespace only grows, by one commit at a time. *)
LEMMA NoteGrowth ==
    ASSUME NoteTypeOK, BuiltInv, [Next]_vars
    PROVE  /\ ref' \in Hash /\ by' \in Seq(Calls \cup {User}) /\ Len(by') = Len(ref')
           /\ IsAncestor(ref, ref')
           /\ Len(ref') <= Len(ref) + 1
<1> USE DEF NoteTypeOK
<1>1. Len(ref) \in Nat /\ Len(by) \in Nat
    BY LenProperties DEF Hash
<1>2. CASE UNCHANGED <<ref, by>>
    BY <1>1, <1>2, AncestorRefl DEF Hash
<1>3. CASE UserCommits
    <2>1. PICK x \in NoteCommit : ref' = Append(ref, x) /\ by' = Append(by, User)
        BY <1>3 DEF UserCommits
    <2>2. Append(by, User) \in Seq(Calls \cup {User}) /\ Len(Append(by, User)) = Len(by) + 1
        BY AppendProperties
    <2> QED  BY <1>1, <2>1, <2>2, AncestorAppend DEF Hash
<1>4. ASSUME NEW c \in Calls, CallCommits(c)
      PROVE  /\ ref' \in Hash /\ by' \in Seq(Calls \cup {User}) /\ Len(by') = Len(ref')
             /\ IsAncestor(ref, ref')
             /\ Len(ref') <= Len(ref) + 1
    <2>1. Built(c)
        BY <1>4 DEF CallCommits, BuiltInv
    <2>2. /\ ref' = next[c] /\ ref = seen[c] /\ by' = Append(by, c)
          /\ Len(next[c]) = Len(seen[c]) + 1 /\ IsAncestor(seen[c], next[c])
        BY <1>4, <2>1, BuiltIs DEF CallCommits
    <2>3. Append(by, c) \in Seq(Calls \cup {User}) /\ Len(Append(by, c)) = Len(by) + 1
        BY AppendProperties
    <2> QED  BY <1>1, <2>2, <2>3
<1> QED  BY <1>2, <1>3, <1>4, RefStep

-----------------------------------------------------------------------------
(* Types, and what an attempt has built. *)

LEMMA NoteInit == Init => NoteInv
<1> SUFFICES ASSUME Init PROVE NoteInv
    OBVIOUS
<1>1. NoRef \in Hash /\ Len(NoRef) = 0 /\ << >> \in Seq(Calls \cup {User})
    BY EmptySeq DEF Hash, NoRef
<1>2. NoteTypeOK
    BY <1>1, NoteAttemptsAssumption DEF Init, NoteTypeOK, NoRef
<1>3. OneLayout(TreeAt(ref))
    BY EmptyTreeIs DEF Init, TreeAt
<1>4. NoSecondPublishInARow
    BY <1>1 DEF Init, NoSecondPublishInARow, NoRef
<1> QED  BY <1>2, <1>3, <1>4 DEF Init, NoteInv, BuiltInv, LastWriterInv, LastIs

LEMMA NoteTypeStep ==
    ASSUME NoteTypeOK, BuiltInv, [Next]_vars
    PROVE  NoteTypeOK'
<1>0. /\ ref' \in Hash /\ by' \in Seq(Calls \cup {User}) /\ Len(by') = Len(ref')
    BY NoteGrowth
<1> USE <1>0 DEF NoteTypeOK, Goto, Steps, Verdicts
<1>1. ASSUME NEW c \in Calls, Begin(c) \/ CheckTarget(c) \/ GitFails(c) PROVE NoteTypeOK'
    BY <1>1 DEF Begin, CheckTarget, GitFails
<1>2. ASSUME NEW c \in Calls, ReadRef(c) PROVE NoteTypeOK'
    BY <1>2 DEF ReadRef
<1>3. ASSUME NEW c \in Calls, Build(c) PROVE NoteTypeOK'
    <2>1. next' \in [Calls -> Hash]
        <3>1. CASE UNCHANGED next
            BY <3>1
        <3>2. ASSUME NEW s \in Stamps, next' = [next EXCEPT ![c] = Append(seen[c], NoteOf(c, s))]
              PROVE  next' \in [Calls -> Hash]
            <4>1. NoteOf(c, s) \in NoteCommit
                BY TreeAtIs, UpsertIs DEF NoteOf, NoteCommit
            <4> QED  BY <3>2, <4>1, TreeAtIs
        <3> QED  BY <1>3, <3>1, <3>2 DEF Build, NoteOf
    <2> QED  BY <1>3, <2>1 DEF Build
<1>4. ASSUME NEW c \in Calls, UpdateRef(c) PROVE NoteTypeOK'
    <2>1. PICK end \in UpdateRefEnds(ref, next[c], seen[c], LostAck) :
            /\ exit' = [exit EXCEPT ![c] = end.exit]
            /\ Goto(c, IF end.exit = "ok" THEN "ok" ELSE "probe")
        BY <1>4 DEF UpdateRef
    <2>2. end.exit \in {"ok", "conflict", "error", "lost"}
        BY UpdateRefEndsAre
    <2> QED  BY <1>4, <2>1, <2>2 DEF UpdateRef
<1>5. ASSUME NEW c \in Calls, Probe(c) PROVE NoteTypeOK'
    <2>1. PICK verdict \in ProbeVerdicts(ref, next[c], seen[c], exit[c]) :
            \/ verdict = "applied" /\ Goto(c, "ok") /\ UNCHANGED attempt
            \/ verdict = "conflict" /\ LoseRace(c)
            \/ verdict = "unknown" /\ Goto(c, "unknown") /\ UNCHANGED attempt
        BY <1>5 DEF Probe
    <2>2. phase' \in [Calls -> {"idle"} \cup Steps \cup Verdicts]
        BY <2>1 DEF LoseRace
    <2>3. attempt' \in [Calls -> 1..MaxAttempts]
        <3>1. CASE attempt[c] = MaxAttempts
            BY <2>1, <3>1 DEF LoseRace
        <3>2. CASE attempt[c] # MaxAttempts
            BY <2>1, <3>2, NoteAttemptsAssumption DEF LoseRace
        <3> QED  BY <3>1, <3>2
    <2> QED  BY <1>5, <2>2, <2>3 DEF Probe
<1>6. ASSUME NEW c \in Calls, Crash(c) PROVE NoteTypeOK'
    BY <1>6 DEF Crash
<1>7. CASE EditWithGit \/ PutFileInTheWay
    BY <1>7, UserEdits DEF UserCommits
<1>8. CASE UNCHANGED vars
    BY <1>8 DEF vars
<1> QED  BY <1>1, <1>2, <1>3, <1>4, <1>5, <1>6, <1>7, <1>8 DEF Next, Advance

LEMMA BuiltStep ==
    ASSUME NoteTypeOK, BuiltInv, [Next]_vars
    PROVE  BuiltInv'
<1> SUFFICES ASSUME NEW c \in Calls, phase'[c] \in {"update", "probe", "ok"} PROVE Built(c)'
    BY DEF BuiltInv
<1> USE DEF NoteTypeOK, Goto
<1>1. CASE Build(c)
    <2>1. /\ phase'[c] = "update" /\ seen' = seen /\ req' = req
          /\ ~Blocked(TreeAt(seen[c]), req[c].target)
          /\ \E s \in Stamps : next'[c] = Append(seen[c], NoteOf(c, s))
        BY <1>1 DEF Build, NoteOf
    <2> QED  BY <2>1 DEF Built, NoteOf
<1>2. ASSUME ~Build(c)
      PROVE  /\ phase[c] \in {"update", "probe", "ok"}
             /\ seen'[c] = seen[c] /\ next'[c] = next[c] /\ req'[c] = req[c]
    <2>1. ASSUME NEW d \in Calls,
                 Begin(d) \/ CheckTarget(d) \/ GitFails(d) \/ ReadRef(d) \/ Crash(d)
          PROVE  d # c /\ phase'[c] = phase[c] /\ UNCHANGED <<next, req>> /\ seen'[c] = seen[c]
        BY <2>1 DEF Begin, CheckTarget, GitFails, ReadRef, Crash
    <2>2. ASSUME NEW d \in Calls, Build(d)
          PROVE  phase'[c] = phase[c] /\ UNCHANGED <<seen, req>> /\ next'[c] = next[c]
        BY <1>2, <2>2 DEF Build
    <2>3. ASSUME NEW d \in Calls, UpdateRef(d) \/ Probe(d)
          PROVE  phase[c] \in {"update", "probe", "ok"} /\ UNCHANGED <<seen, next, req>>
        BY <2>3 DEF UpdateRef, Probe, LoseRace
    <2>4. CASE EditWithGit \/ PutFileInTheWay \/ UNCHANGED vars
        BY <2>4 DEF EditWithGit, PutFileInTheWay, Commits, vars
    <2> QED  BY <2>1, <2>2, <2>3, <2>4 DEF Next, Advance
<1>3. CASE ~Build(c)
    <2>1. Built(c)
        BY <1>2, <1>3 DEF BuiltInv
    <2> QED  BY <1>2, <1>3, <2>1 DEF Built, NoteOf
<1> QED  BY <1>1, <1>3

-----------------------------------------------------------------------------
(* Who publishes. *)

LEMMA LastAppended ==
    ASSUME NEW S, NEW s \in Seq(S), NEW who \in S
    PROVE  /\ Append(s, who) # << >>
           /\ Len(Append(s, who)) = Len(s) + 1
           /\ Append(s, who)[Len(s) + 1] = who
           /\ \A i \in 1..Len(s) : Append(s, who)[i] = s[i]
           /\ Len(s) \in Nat
BY AppendProperties, EmptySeq, LenProperties

(* After a commit its publisher is the last one, and nobody else is. *)
LEMMA LastIsPublisher ==
    ASSUME NoteTypeOK, NEW who \in Calls \cup {User}, by' = Append(by, who), NEW w
    PROVE  LastIs(w)' <=> w = who
BY LastAppended DEF LastIs, NoteTypeOK

LEMMA LastWriterStep ==
    ASSUME NoteTypeOK, BuiltInv, LastWriterInv, [Next]_vars
    PROVE  LastWriterInv'
<1> SUFFICES ASSUME NEW c \in Calls
             PROVE  /\ phase'[c] \in {"idle", "check", "read", "build", "update"} => ~LastIs(c)'
                    /\ phase'[c] = "probe" /\ LastIs(c)' => ref' = next'[c] /\ exit'[c] = "lost"
    BY DEF LastWriterInv
<1> USE DEF NoteTypeOK, Goto
<1>1. CASE UserCommits
    BY <1>1, LastIsPublisher, NoteValuesAssumption DEF UserCommits
<1>2. ASSUME NEW d \in Calls, CallCommits(d)
      PROVE  /\ phase'[c] \in {"idle", "check", "read", "build", "update"} => ~LastIs(c)'
             /\ phase'[c] = "probe" /\ LastIs(c)' => ref' = next'[c] /\ exit'[c] = "lost"
    BY <1>2, LastIsPublisher DEF CallCommits
<1>3. CASE UNCHANGED <<ref, by>>
    <2>1. LastIs(c)' <=> LastIs(c)
        BY <1>3 DEF LastIs
    <2>2. ASSUME NEW d \in Calls, Probe(d)
          PROVE  /\ phase'[c] \in {"idle", "check", "read", "build", "update"} => ~LastIs(c)'
                 /\ phase'[c] = "probe" /\ LastIs(c)' => ref' = next'[c] /\ exit'[c] = "lost"
        <3>1. PICK verdict \in ProbeVerdicts(ref, next[d], seen[d], exit[d]) :
                \/ verdict = "applied" /\ Goto(d, "ok") /\ UNCHANGED attempt
                \/ verdict = "conflict" /\ LoseRace(d)
                \/ verdict = "unknown" /\ Goto(d, "unknown") /\ UNCHANGED attempt
            BY <2>2 DEF Probe
        <3>2. ref = next[d] /\ exit[d] = "lost" => verdict # "conflict"
            BY DEF ProbeVerdicts, ClassifyRefCASOutcome
        <3>3. CASE d = c
            BY <2>1, <2>2, <3>1, <3>2, <3>3 DEF LastWriterInv, LoseRace, Probe
        <3>4. CASE d # c
            BY <2>1, <2>2, <3>1, <3>4 DEF LastWriterInv, LoseRace, Probe
        <3> QED  BY <3>3, <3>4
    <2>3. ASSUME NEW d \in Calls,
                 \/ Begin(d) \/ CheckTarget(d) \/ GitFails(d) \/ ReadRef(d) \/ Build(d)
          PROVE  /\ phase'[c] \in {"idle", "check", "read", "build", "update"} => ~LastIs(c)'
                 /\ phase'[c] = "probe" /\ LastIs(c)' => ref' = next'[c] /\ exit'[c] = "lost"
        BY <2>1, <2>3 DEF LastWriterInv, Begin, CheckTarget, GitFails, ReadRef, Build
    <2>4. ASSUME NEW d \in Calls, UpdateRef(d) \/ Crash(d)
          PROVE  /\ phase'[c] \in {"idle", "check", "read", "build", "update"} => ~LastIs(c)'
                 /\ phase'[c] = "probe" /\ LastIs(c)' => ref' = next'[c] /\ exit'[c] = "lost"
        BY <1>3, <2>1, <2>4 DEF LastWriterInv, UpdateRef, Crash
    <2>5. CASE EditWithGit \/ PutFileInTheWay \/ UNCHANGED vars
        BY <1>3, <2>1, <2>5 DEF LastWriterInv, EditWithGit, PutFileInTheWay, Commits, vars
    <2> QED  BY <2>2, <2>3, <2>4, <2>5 DEF Next, Advance
<1> QED  BY <1>1, <1>2, <1>3, RefStep

LEMMA NoSecondPublishStep ==
    ASSUME NoteTypeOK, BuiltInv, LastWriterInv, NoSecondPublishInARow, [Next]_vars
    PROVE  NoSecondPublishInARow'
<1>1. ASSUME NEW who \in Calls \cup {User}, by' = Append(by, who), who # User => ~LastIs(who)
      PROVE  NoSecondPublishInARow'
    BY <1>1, LastAppended, EmptySeq DEF NoteTypeOK, NoSecondPublishInARow, LastIs
<1>2. ASSUME NEW c \in Calls, CallCommits(c) PROVE by' = Append(by, c) /\ ~LastIs(c)
    BY <1>2 DEF CallCommits, LastWriterInv
<1>3. CASE UserCommits
    BY <1>1, <1>3 DEF UserCommits
<1>4. CASE UNCHANGED <<ref, by>>
    BY <1>4 DEF NoSecondPublishInARow
<1> QED  BY <1>1, <1>2, <1>3, <1>4, RefStep

-----------------------------------------------------------------------------
(* What the namespace holds. *)

LEMMA OneLayoutStep ==
    ASSUME NoteTypeOK, BuiltInv, OneLayout(TreeAt(ref)), [Next]_vars
    PROVE  OneLayout(TreeAt(ref'))
<1> USE DEF NoteTypeOK
<1>1. CASE UserCommits
    BY <1>1, TreeAtIs DEF UserCommits
<1>2. ASSUME NEW c \in Calls, CallCommits(c) PROVE OneLayout(TreeAt(ref'))
    <2>1. Built(c) /\ ref = seen[c] /\ ref' = next[c]
        BY <1>2 DEF CallCommits, BuiltInv
    <2> QED  BY <2>1, BuiltIs, TreeAtIs, UpsertIs
<1>3. CASE UNCHANGED <<ref, by>>
    BY <1>3
<1> QED  BY <1>1, <1>2, <1>3, RefStep

(* A call that returns success has its commit on the branch. *)
LEMMA NoteAckedStep ==
    ASSUME NoteTypeOK, BuiltInv, [Next]_vars,
           \A c \in Calls : phase[c] = "ok" => IsAncestor(next[c], ref)
    PROVE  \A c \in Calls : phase'[c] = "ok" => IsAncestor(next'[c], ref')
<1> SUFFICES ASSUME NEW c \in Calls, phase'[c] = "ok"
             PROVE  IsAncestor(next'[c], ref')
    OBVIOUS
<1> USE DEF NoteTypeOK, Goto
<1>0. IsAncestor(ref, ref') /\ ref' \in Hash /\ IsAncestor(next[c], next[c])
    BY NoteGrowth, AncestorRefl DEF Hash
<1>1. CASE phase[c] = "ok"
    <2>1. next'[c] = next[c]
        <3>1. ASSUME NEW d \in Calls, Build(d) PROVE next'[c] = next[c]
            BY <1>1, <3>1 DEF Build
        <3>2. ASSUME NEW d \in Calls,
                     \/ Begin(d) \/ CheckTarget(d) \/ GitFails(d) \/ ReadRef(d)
                     \/ UpdateRef(d) \/ Probe(d) \/ Crash(d)
              PROVE  next' = next
            BY <3>2 DEF Begin, CheckTarget, GitFails, ReadRef, UpdateRef, Probe, Crash
        <3>3. CASE EditWithGit \/ PutFileInTheWay \/ UNCHANGED vars
            BY <3>3 DEF EditWithGit, PutFileInTheWay, Commits, vars
        <3> QED  BY <3>1, <3>2, <3>3 DEF Next, Advance
    <2> QED  BY <1>0, <1>1, <2>1, AncestorTrans DEF Hash
<1>2. CASE phase[c] # "ok"
    <2>1. UpdateRef(c) \/ Probe(c)
        <3>1. ASSUME NEW d \in Calls,
                     \/ Begin(d) \/ CheckTarget(d) \/ GitFails(d) \/ ReadRef(d)
                     \/ Build(d) \/ Crash(d)
              PROVE  FALSE
            BY <1>2, <3>1 DEF Begin, CheckTarget, GitFails, ReadRef, Build, Crash
        <3>2. ASSUME NEW d \in Calls, d # c, UpdateRef(d) \/ Probe(d) PROVE FALSE
            BY <1>2, <3>2 DEF UpdateRef, Probe, LoseRace
        <3>3. CASE EditWithGit \/ PutFileInTheWay \/ UNCHANGED vars
            BY <1>2, <3>3 DEF EditWithGit, PutFileInTheWay, Commits, vars
        <3> QED  BY <3>1, <3>2, <3>3 DEF Next, Advance
    <2>2. CASE UpdateRef(c)
        <3>1. PICK end \in UpdateRefEnds(ref, next[c], seen[c], LostAck) :
                ref' = end.ref /\ Goto(c, IF end.exit = "ok" THEN "ok" ELSE "probe")
            BY <2>2 DEF UpdateRef
        <3>2. end.exit = "ok"
            BY <3>1
        <3> QED  BY <1>0, <2>2, <3>1, <3>2, UpdateRefEndsAre DEF UpdateRef
    <2>3. CASE Probe(c)
        <3>1. PICK verdict \in ProbeVerdicts(ref, next[c], seen[c], exit[c]) :
                \/ verdict = "applied" /\ Goto(c, "ok")
                \/ verdict = "conflict" /\ LoseRace(c)
                \/ verdict = "unknown" /\ Goto(c, "unknown")
            BY <2>3 DEF Probe
        <3>2. verdict = "applied"
            BY <3>1 DEF LoseRace
        <3> QED  BY <1>0, <2>3, <3>2, ProbeVerdictsAre DEF Probe
    <2> QED  BY <2>1, <2>2, <2>3
<1> QED  BY <1>1, <1>2

-----------------------------------------------------------------------------
(* The theorems. *)

LEMMA NoteInvStep == NoteInv /\ [Next]_vars => NoteInv'
BY NoteTypeStep, BuiltStep, LastWriterStep, NoSecondPublishStep, OneLayoutStep, NoteAckedStep
   DEF NoteInv, OneLayout, TreeAt, EmptyTree

(* NoteInv holds in every reachable state. *)
THEOREM NoteInvCorrect == Spec => []NoteInv
BY NoteInit, NoteInvStep, PTL DEF Spec

(* A WriteNote that returned success is in the history of the namespace. *)
THEOREM AckedNoteIsInHistoryHolds == Spec => []AckedNoteIsInHistory
<1>1. NoteInv => AckedNoteIsInHistory
    <2> SUFFICES ASSUME NoteInv, NEW c \in Calls, phase[c] = "ok"
                 PROVE  /\ IsAncestor(next[c], ref)
                        /\ ReadNote(TreeAt(next[c]), req[c].target) = req[c].content
        BY DEF AckedNoteIsInHistory
    <2>1. NoteTypeOK /\ Built(c) /\ ~Blocked(TreeAt(seen[c]), req[c].target)
        BY DEF NoteInv, BuiltInv, Built
    <2>2. TreeAt(next[c]) = UpsertNoteTree(TreeAt(seen[c]), req[c].target, req[c].content)
        BY <2>1, BuiltIs
    <2> QED  BY <2>1, <2>2, TreeAtIs, UpsertIs DEF NoteInv, NoteTypeOK
<1> QED  BY <1>1, NoteInvCorrect, PTL

(* ListNotes shows every note once, as ReadNote reads it. *)
THEOREM ListAgreesWithReadHolds == Spec => []ListAgreesWithRead
<1>1. NoteInv => ListAgreesWithRead
    <2> DEFINE tree == TreeAt(ref)
    <2> SUFFICES ASSUME NoteInv
                 PROVE  /\ OneLayout(tree)
                        /\ Listable(tree) =>
                            ListNotes(tree) =
                                {[target |-> t, content |-> ReadNote(tree, t)] :
                                    t \in {u \in Targets : ReadNote(tree, u) # Absent}}
        BY DEF ListAgreesWithRead, OneLayout
    <2>1. OneLayout(tree)
        BY DEF NoteInv
    <2> HIDE DEF tree
    <2>2. ASSUME Listable(tree)
          PROVE  ListNotes(tree) =
                    {[target |-> t, content |-> ReadNote(tree, t)] :
                        t \in {u \in Targets : ReadNote(tree, u) # Absent}}
        BY <2>1, <2>2 DEF Listable, ListNotes, ReadNote, EntryOf, Blocked, OneLayout
    <2> QED  BY <2>1, <2>2
<1> QED  BY <1>1, NoteInvCorrect, PTL

(* No call overwrites itself: lost answers are not answered by a second write. *)
THEOREM NoSecondPublishInARowHolds == Spec => []NoSecondPublishInARow
<1>1. NoteInv => NoSecondPublishInARow
    BY DEF NoteInv
<1> QED  BY <1>1, NoteInvCorrect, PTL

(* Writers of different targets never lose each other's notes. *)
THEOREM OtherNotesSurviveHolds == Spec => OtherNotesSurvive
<1>1. NoteInv /\ [Next]_vars =>
        [/\ IsAncestor(ref, ref') /\ Len(ref') <= Len(ref) + 1
         /\ Subject(ref') \in Targets =>
                \A t \in Targets \ {Subject(ref')} :
                    ReadNote(TreeAt(ref'), t) = ReadNote(TreeAt(ref), t)]_ref
    <2> SUFFICES ASSUME NoteInv, [Next]_vars, ref' # ref, Subject(ref') \in Targets,
                        NEW t \in Targets \ {Subject(ref')}
                 PROVE  ReadNote(TreeAt(ref'), t) = ReadNote(TreeAt(ref), t)
        BY NoteGrowth DEF NoteInv
    <2> USE DEF NoteInv, NoteTypeOK
    <2>1. ~UserCommits
        BY TreeAtIs, NoteValuesAssumption DEF UserCommits
    <2>2. PICK c \in Calls : CallCommits(c)
        BY <2>1, RefStep
    <2>3. Built(c) /\ ref = seen[c] /\ ref' = next[c]
        BY <2>2 DEF CallCommits, BuiltInv
    <2>4. /\ TreeAt(next[c]) = UpsertNoteTree(TreeAt(seen[c]), req[c].target, req[c].content)
          /\ Subject(next[c]) = req[c].target
        BY <2>3, BuiltIs
    <2>5. TreeAt(seen[c]) \in Tree
        BY TreeAtIs
    <2>6. req[c].target \in Targets /\ req[c].content \in Contents
        OBVIOUS
    <2>7. t \in Targets \ {req[c].target}
        BY <2>3, <2>4
    <2> QED  BY <2>3, <2>4, <2>5, <2>6, <2>7, UpsertIs
<1> QED  BY <1>1, NoteInvCorrect, PTL DEF Spec, OtherNotesSurvive
=============================================================================
