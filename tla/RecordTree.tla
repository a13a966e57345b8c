----------------------------- MODULE RecordTree -----------------------------
(***************************************************************************)
(* What is inside the commits of the record branch: WriteRecord puts the   *)
(* files of a record into the tree of the tip (internal/git/               *)
(* write_records.go), ReadRecord, ReadFileAtPath and WalkRecords take them *)
(* out (read_records.go).                                                  *)
(*                                                                         *)
(* Git's nested trees are modelled flat: a tree is a function from the     *)
(* paths of its blobs, sequences of names none of which continues another, *)
(* to what they hold.  A directory is a path that blobs continue.          *)
(***************************************************************************)
EXTENDS Subsequence, FiniteSets, SequencesExt

CONSTANTS
    Records,        \* the records that are written
    RootOf,         \* RootOf[r]: its collection, its shard and its ID
    Requests,       \* the files of a request: sequences of [path, content]
    Foreign,        \* the trees the branch may have before: meta, and what others left
    Link,           \* what a submodule's entry holds
    Backslashed,    \* the segments of a path with a backslash in them
    ValidRoots,     \* the roots that a record could have
    MaxWrites       \* bound: how many records are written

(* A path as a caller spells it, split at its slashes, and as a tree has it. *)
Segment == STRING
RawPath == Seq(Segment) \ {<<>>}
Names == Segment \ {"", "."}
Path == Seq(Names) \ {<<>>}

ASSUME RootsAssumption ==
    /\ \A r \in Records : RootOf[r] \in ValidRoots
    /\ \A root \in ValidRoots :
          /\ root \in Path /\ Len(root) = 3 /\ root[1] # "meta"
          /\ \A i \in 1..3 : root[i] # ".." /\ root[i] \notin Backslashed
ASSUME RequestsAssumption ==
    \A req \in Requests :
        req \in Seq(ToSet(req)) /\ \A f \in ToSet(req) : f.path \in RawPath /\ f.content # Link
ASSUME ForeignAssumption == \A t \in Foreign : DOMAIN t \subseteq Path

VARIABLES
    tree,       \* the tree of the branch's tip
    writing,    \* the record being written, or NoRecord
    files,      \* the files of the request that are still to be added
    record,     \* the tree of the record so far
    request,    \* history: the files of the last request that got to a tree
    result,     \* how the last WriteRecord ended
    written,    \* history: written[r]: the files r was written with
    before      \* history: the tree before the first write

treeVars == <<tree, writing, files, record, request, result, written, before>>

NoRecord == "none"
Empty == [p \in {} |-> Link]
With(t, p, content) == [q \in DOMAIN t \cup {p} |-> IF q = p THEN content ELSE t[q]]
IsDir(t, p) == \E q \in DOMAIN t : IsStrictPrefix(p, q)
IsBlob(t, p) == p \in DOMAIN t /\ t[p] # Link
IsEntry(t, p) == p \in DOMAIN t \/ IsDir(t, p)
UnderFile(t, p) == \E q \in DOMAIN t : IsStrictPrefix(q, p)

TreeInit ==
    /\ tree \in Foreign
    /\ before = tree
    /\ writing = NoRecord
    /\ files = <<>> /\ record = Empty /\ request = <<>>
    /\ result = "none"
    /\ written = [r \in {} |-> <<>>]

(* normalizeRecordFilePath and normalizeBranchReadPath: a path as it was split
   at its slashes.  A leading empty segment makes it absolute (or empty). *)
PathOK(raw) ==
    /\ raw[1] # ""
    /\ \A i \in DOMAIN raw : raw[i] # ".." /\ raw[i] \notin Backslashed
    /\ \E i \in DOMAIN raw : raw[i] # "" /\ raw[i] # "."
Clean(raw) == Keep(raw, Names)

(* normalizeWriteRequest: no file at all, a bad path, or two that are the same. *)
RequestOK(req) ==
    /\ req # <<>>
    /\ \A i \in DOMAIN req : PathOK(req[i].path)
    /\ \A i, j \in DOMAIN req : i # j => Clean(req[i].path) # Clean(req[j].path)

WriteEnds(how) ==
    /\ result' = how
    /\ writing' = NoRecord
    /\ files' = <<>>
    /\ record' = Empty

(* WriteRecord begins; pathExistsInTree descends to the record's root. *)
BeginWrite(r, req) ==
    /\ writing = NoRecord
    /\ Cardinality(DOMAIN written) < MaxWrites
    /\ \/ ~RequestOK(req) /\ WriteEnds("badRequest") /\ request' = <<>>
       \/ /\ RequestOK(req)
          /\ request' = <<>>
          /\ \/ IsEntry(tree, RootOf[r]) /\ WriteEnds("exists")
             \/ UnderFile(tree, RootOf[r]) /\ WriteEnds("notADirectory")
       \/ /\ RequestOK(req) /\ ~IsEntry(tree, RootOf[r]) /\ ~UnderFile(tree, RootOf[r])
          /\ request' = req
          /\ writing' = r
          /\ files' = req
          /\ record' = Empty
          /\ result' = "none"
    /\ UNCHANGED <<tree, written, before>>

(* A file of the request, one blob and its place among those before it: its
   path must not continue a file's nor be continued by one. *)
Collides(t, p) == IsEntry(t, p) \/ UnderFile(t, p)

(* Mutant: a file may take the place of a directory. *)
AddFileOverDirectory ==
    /\ writing # NoRecord /\ files # <<>>
    /\ LET p == Clean(Head(files).path)
       IN  IF UnderFile(record, p) THEN WriteEnds("collision")
           ELSE /\ record' = With(record, p, Head(files).content)
                /\ files' = Tail(files)
                /\ UNCHANGED <<result, writing>>
    /\ UNCHANGED <<tree, request, written, before>>

(* writeRecordFilesTree, file by file. *)
AddFile ==
    /\ writing # NoRecord /\ files # <<>>
    /\ LET p == Clean(Head(files).path)
       IN  IF Collides(record, p) THEN WriteEnds("collision")
           ELSE /\ record' = With(record, p, Head(files).content)
                /\ files' = Tail(files)
                /\ UNCHANGED <<result, writing>>
    /\ UNCHANGED <<tree, request, written, before>>

(* writeTree knows trees and blobs only: a directory that has to be written
   again, with a submodule among its entries, cannot be. *)
Unwritable(t, root) ==
    \E q \in DOMAIN t : t[q] = Link /\ IsPrefix(Front(q), Front(root))

(* Mutant: the shard is made anew. *)
GraftOverShard(t, root, sub) ==
    LET below == {root \o p : p \in DOMAIN sub}
        stay == {q \in DOMAIN t : ~IsPrefix(Front(root), q)}
    IN  [q \in stay \cup below |->
            IF q \in below THEN sub[SubSeq(q, Len(root) + 1, Len(q))] ELSE t[q]]

(* upsertRecordTree: every entry on the way down to the root is kept. *)
Graft(t, root, sub) ==
    LET below == {root \o p : p \in DOMAIN sub}
    IN  [q \in DOMAIN t \cup below |->
            IF q \in below THEN sub[SubSeq(q, Len(root) + 1, Len(q))] ELSE t[q]]

UpsertRecordTree ==
    /\ writing # NoRecord /\ files = <<>>
    /\ IF Unwritable(tree, RootOf[writing])
       THEN WriteEnds("unwritable") /\ UNCHANGED <<tree, written>>
       ELSE /\ tree' = Graft(tree, RootOf[writing], record)
            /\ written' = With(written, writing, request)
            /\ WriteEnds("ok")
    /\ UNCHANGED <<request, before>>

WriteFails ==
    /\ writing # NoRecord
    /\ WriteEnds("gitError")
    /\ UNCHANGED <<tree, request, written, before>>

TreeNext ==
    \/ \E r \in Records, req \in Requests : BeginWrite(r, req)
    \/ AddFile \/ UpsertRecordTree \/ WriteFails

TreeSpec == TreeInit /\ [][TreeNext]_treeVars

(* ReadRecord: resolveRecordRootTree, then collectRecordBlobHashes.  A verdict
   and the files under the root. *)
ReadRecord(t, r) ==
    LET root == RootOf[r]
        sub == {p \in DOMAIN t : IsStrictPrefix(root, p)}
    IN  IF ~IsEntry(t, root) /\ ~UnderFile(t, root) THEN [verdict |-> "notFound", files |-> Empty]
        ELSE IF ~IsDir(t, root) \/ \E p \in sub : t[p] = Link
             THEN [verdict |-> "malformed", files |-> Empty]
        ELSE [verdict |-> "ok",
              files |-> [p \in {SubSeq(q, Len(root) + 1, Len(q)) : q \in sub} |-> t[root \o p]]]

(* Mutant: the path is looked up as it was spelled. *)
ReadFileAsSpelled(t, raw) ==
    IF ~PathOK(raw) THEN [verdict |-> "badPath", content |-> Link]
    ELSE IF IsBlob(t, raw) THEN [verdict |-> "ok", content |-> t[raw]]
    ELSE [verdict |-> "notFound", content |-> Link]

ReadFileAtPath(t, raw) ==
    LET p == Clean(raw)
    IN  IF ~PathOK(raw) THEN [verdict |-> "badPath", content |-> Link]
        ELSE IF IsBlob(t, p) THEN [verdict |-> "ok", content |-> t[p]]
        ELSE IF ~IsEntry(t, p) /\ ~UnderFile(t, p) THEN [verdict |-> "notFound", content |-> Link]
        ELSE [verdict |-> "malformed", content |-> Link]

(* WalkRecords: everything but meta must be a record under its own root, or the
   walk fails; a walk that does not fail visits each root once. *)
WalkOK(t) ==
    \A p \in DOMAIN t : p[1] # "meta" => Len(p) > 3 /\ SubSeq(p, 1, 3) \in ValidRoots
WalkRecords(t) == {SubSeq(p, 1, 3) : p \in {q \in DOMAIN t : q[1] # "meta" /\ Len(q) > 3}}

FilesOf(req) ==
    [p \in {Clean(f.path) : f \in ToSet(req)} |->
        (CHOOSE f \in ToSet(req) : Clean(f.path) = p).content]

(* Whatever was written before and after it, a record reads back as the files of
   its request, each also by the path the caller spelled; a walk finds the
   records that were there and those that were written, no others, and does not
   begin to fail because of a write; every other path of the branch holds what
   it held, and a write that failed has left nothing. *)
ReadsSeeWhatWasWritten ==
    /\ \A r \in DOMAIN written :
        LET req == written[r]
        IN  /\ ReadRecord(tree, r) = [verdict |-> "ok", files |-> FilesOf(req)]
            /\ \A i \in DOMAIN req :
                  ReadFileAtPath(tree, RootOf[r] \o req[i].path)
                    = [verdict |-> "ok", content |-> req[i].content]
    /\ \A p \in DOMAIN before : p \in DOMAIN tree /\ tree[p] = before[p]
    /\ WalkOK(before) => WalkOK(tree)
    /\ WalkRecords(tree) = WalkRecords(before) \cup {RootOf[r] : r \in DOMAIN written}

(* A request is refused for its paths exactly when two of them cannot both be
   files, in whichever order and spelling they come. *)
RefusedIffColliding ==
    LET collide == \E i, j \in DOMAIN request :
                        IsStrictPrefix(Clean(request[i].path), Clean(request[j].path))
    IN  /\ result = "ok" => RequestOK(request) /\ ~collide
        /\ result = "collision" => collide
=============================================================================
