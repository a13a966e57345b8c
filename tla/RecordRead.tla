----------------------------- MODULE RecordRead -----------------------------
(***************************************************************************)
(* ReadRecord and WalkRecords beside concurrent WriteRecord calls:         *)
(* internal/git/read_records.go.  A read resolves and validates the branch *)
(* tip once and takes everything else from that commit; it holds no lock,  *)
(* and writers advance the branch under it.                                *)
(***************************************************************************)
EXTENDS RecordBranch

CONSTANTS
    Readers,    \* who reads, any number of times each
    All         \* what a walk looks for, in place of one record root

VARIABLES
    rphase,     \* rphase[r]: the step reader r is about to take, or its outcome
    goal,       \* goal[r]: the root to read, or All for a walk
    snap,       \* snap[r]: the tip the read resolved
    found,      \* found[r]: what it has delivered, root by root
    before,     \* history: the tip its previous read resolved
    acked       \* history: the calls that had returned ok when the read began

readVars == <<rphase, goal, snap, found, before, acked>>
allVars == <<vars, readVars>>

Outcomes == {"found", "missing", "walked", "stopped", "noBranch", "failed"}

Nothing == [x \in {} |-> All]

ReadInit ==
    /\ Init
    /\ rphase = [r \in Readers |-> "idle"]
    /\ goal = [r \in Readers |-> All]
    /\ snap = [r \in Readers |-> NoRef]
    /\ found = [r \in Readers |-> Nothing]
    /\ before = [r \in Readers |-> NoRef]
    /\ acked = [r \in Readers |-> {}]

BeginRead(r) ==
    /\ rphase[r] \in {"idle"} \cup Outcomes
    /\ rphase' = [rphase EXCEPT ![r] = "resolve"]
    /\ \E g \in Roots \cup {All} : goal' = [goal EXCEPT ![r] = g]
    /\ found' = [found EXCEPT ![r] = Nothing]
    /\ before' = [before EXCEPT ![r] = snap[r]]
    /\ acked' = [acked EXCEPT ![r] = {c \in Calls : phase[c] = "ok"}]
    /\ UNCHANGED <<vars, snap>>

(* Mutants: the tip resolved by an earlier read is used again; the reference is
   served from a cache of unknown age. *)
ResolveOnce(r) ==
    /\ rphase[r] = "resolve"
    /\ branch # NoRef
    /\ rphase' = [rphase EXCEPT ![r] = "load"]
    /\ snap' = [snap EXCEPT ![r] = IF @ = NoRef THEN branch ELSE @]
    /\ UNCHANGED <<vars, goal, found, before, acked>>

ResolveFromCache(r) ==
    /\ rphase[r] = "resolve"
    /\ \E n \in 1..Len(branch) : snap' = [snap EXCEPT ![r] = SubSeq(branch, 1, n)]
    /\ rphase' = [rphase EXCEPT ![r] = "load"]
    /\ UNCHANGED <<vars, goal, found, before, acked>>

(* resolveReadSnapshot: the one time a read looks at the reference. *)
ResolveReadSnapshot(r) ==
    /\ rphase[r] = "resolve"
    /\ \/ /\ branch = NoRef
          /\ rphase' = [rphase EXCEPT ![r] = "noBranch"]
          /\ UNCHANGED snap
       \/ /\ branch # NoRef
          /\ rphase' = [rphase EXCEPT ![r] = "load"]
          /\ snap' = [snap EXCEPT ![r] = branch]
    /\ UNCHANGED <<vars, goal, found, before, acked>>

Deliver(r, root) ==
    found' = [found EXCEPT ![r] =
                [x \in DOMAIN @ \cup {root} |->
                    IF x = root THEN RecordIn(snap[r], root).files ELSE @[x]]]

(* ReadRecord: the record's directory in the tree of the tip, and its blobs. *)
LoadRecord(r) ==
    /\ rphase[r] = "load"
    /\ goal[r] # All
    /\ \/ /\ goal[r] \in RootsIn(snap[r])
          /\ Deliver(r, goal[r])
          /\ rphase' = [rphase EXCEPT ![r] = "found"]
       \/ /\ goal[r] \notin RootsIn(snap[r])
          /\ rphase' = [rphase EXCEPT ![r] = "missing"]
          /\ UNCHANGED found
    /\ UNCHANGED <<vars, goal, snap, before, acked>>

(* Mutant: the visitor's error ends the walk and is then forgotten. *)
VisitSwallowsError(r) ==
    /\ rphase[r] = "load"
    /\ goal[r] = All
    /\ \E root \in RootsIn(snap[r]) \ DOMAIN found[r] : Deliver(r, root)
    /\ \/ UNCHANGED rphase
       \/ rphase' = [rphase EXCEPT ![r] = "walked"]
    /\ UNCHANGED <<vars, goal, snap, before, acked>>

(* WalkRecords calls the visitor once per record root; the visitor may take as
   long as it likes, write records itself, or stop the walk with an error. *)
Visit(r) ==
    /\ rphase[r] = "load"
    /\ goal[r] = All
    /\ \E root \in RootsIn(snap[r]) \ DOMAIN found[r] : Deliver(r, root)
    /\ \/ UNCHANGED rphase
       \/ rphase' = [rphase EXCEPT ![r] = "stopped"]
    /\ UNCHANGED <<vars, goal, snap, before, acked>>

EndWalk(r) ==
    /\ rphase[r] = "load"
    /\ goal[r] = All
    /\ RootsIn(snap[r]) \subseteq DOMAIN found[r]
    /\ rphase' = [rphase EXCEPT ![r] = "walked"]
    /\ UNCHANGED <<vars, goal, snap, found, before, acked>>

(* A git command fails: the call returns its error and what it collected is
   dropped, except the records a walk has already shown its visitor. *)
ReadFails(r) ==
    /\ rphase[r] \in {"resolve", "load"}
    /\ rphase' = [rphase EXCEPT ![r] = "failed"]
    /\ UNCHANGED <<vars, goal, snap, found, before, acked>>

Read(r) ==
    \/ BeginRead(r) \/ ResolveReadSnapshot(r) \/ LoadRecord(r)
    \/ Visit(r) \/ EndWalk(r) \/ ReadFails(r)

ReadNext ==
    \/ Next /\ UNCHANGED readVars
    \/ \E r \in Readers : Read(r)

ReadSpec == ReadInit /\ [][ReadNext]_allVars

-----------------------------------------------------------------------------
(* A record whose WriteRecord had returned ok when a read began is in what
   that read returns, with the files of that call: a caller reads its own
   writes, and those anyone told it of. *)
AcknowledgedIsRead ==
    \A r \in Readers, c \in Calls :
        c \in acked[r] =>
            /\ rphase[r] = "missing" => goal[r] # req[c].root
            /\ rphase[r] # "noBranch"
            /\ rphase[r] = "walked" => req[c].root \in DOMAIN found[r]
            /\ req[c].root \in DOMAIN found[r] => found[r][req[c].root] = req[c].files

(* A walk that runs to its end has shown exactly the records of one tip, the
   one it resolved, however far the branch has moved on since; and whatever
   any read delivered is still on the branch, unchanged. *)
WalkIsSnapshot ==
    \A r \in Readers :
        /\ rphase[r] = "walked" => DOMAIN found[r] = RootsIn(snap[r])
        /\ IsAncestor(snap[r], branch)
        /\ \A root \in DOMAIN found[r] :
                root \in RootsIn(branch) /\ RecordIn(branch, root).files = found[r][root]

(* The tips that one reader resolves never go backwards. *)
ReadsAreMonotonic == \A r \in Readers : IsAncestor(before[r], snap[r])
=============================================================================
