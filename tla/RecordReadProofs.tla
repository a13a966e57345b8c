-------------------------- MODULE RecordReadProofs --------------------------
(***************************************************************************)
(* RecordRead, for every set of readers beside every set of writers.  A    *)
(* read takes all it returns from one commit; that commit stays an         *)
(* ancestor of the branch, and the records of an ancestor are those of the *)
(* branch (RecordInAncestor), so what a read returns never becomes wrong.  *)
(***************************************************************************)
EXTENDS RecordRead, RecordBranchProofs

ReadTypeOK ==
    /\ rphase \in [Readers -> {"idle", "resolve", "load"} \cup Outcomes]
    /\ goal \in [Readers -> Roots \cup {All}]
    /\ snap \in [Readers -> Hash]
    /\ DOMAIN found = Readers
    /\ before \in [Readers -> Hash]
    /\ acked \in [Readers -> SUBSET Calls]

(* What a reader has delivered is in its snapshot, and what had been
   acknowledged before it began is in there too. *)
SnapshotOf(r) ==
    /\ rphase[r] = "resolve" => DOMAIN found[r] = {}
    /\ \A root \in DOMAIN found[r] :
            root \in RootsIn(snap[r]) /\ found[r][root] = RecordIn(snap[r], root).files
    /\ rphase[r] = "missing" => goal[r] \notin RootsIn(snap[r])
    /\ rphase[r] = "walked" => RootsIn(snap[r]) \subseteq DOMAIN found[r]

AckedOf(r) ==
    /\ acked[r] # {} => rphase[r] # "noBranch"
    /\ \A c \in acked[r] :
        /\ phase[c] = "ok"
        /\ rphase[r] \in {"load", "found", "missing", "walked", "stopped"} =>
                req[c].root \in RootsIn(snap[r])

TipsOf(r) == IsAncestor(before[r], snap[r]) /\ IsAncestor(snap[r], branch)

ReaderInv == \A r \in Readers : SnapshotOf(r) /\ AckedOf(r) /\ TipsOf(r)

ReadInv == LogInv /\ ReadTypeOK /\ ReaderInv

-----------------------------------------------------------------------------
(* Writers under a read. *)

(* A call that has returned success stays as it is. *)
LEMMA OkStays ==
    ASSUME TypeOK, [Next]_vars, NEW c \in Calls, phase[c] = "ok"
    PROVE  phase'[c] = "ok" /\ req'[c] = req[c]
<1>1. ~Begin(c) /\ ~Advance(c) /\ ~GitFails(c) /\ ~Crash(c)
    BY DEF Begin, Advance, Validate, ReadRef, Build, UpdateRef, Probe, GitFails, Crash, Steps
<1> QED  BY <1>1, StepOf DEF CallUnchanged

LEMMA WriterStep ==
    ASSUME ReadInv, Next, UNCHANGED readVars
    PROVE  ReadInv'
<1>1. LogInv'
    BY LogInvStep DEF ReadInv
<1>2. /\ IsAncestor(branch, branch') /\ branch \in Hash /\ branch' \in Hash
    BY Growth DEF ReadInv, LogInv, IInv
<1>3. ReadTypeOK'
    BY DEF ReadInv, ReadTypeOK, readVars
<1>4. ASSUME NEW r \in Readers PROVE (SnapshotOf(r) /\ AckedOf(r) /\ TipsOf(r))'
    <2>1. SnapshotOf(r)'
        BY DEF ReadInv, ReaderInv, SnapshotOf, readVars
    <2>2. AckedOf(r)'
        BY OkStays DEF ReadInv, LogInv, IInv, ReadTypeOK, ReaderInv, AckedOf, readVars
    <2>3. TipsOf(r)'
        <3>1. snap[r] \in Hash /\ IsAncestor(snap[r], branch)
            BY DEF ReadInv, ReadTypeOK, ReaderInv, TipsOf
        <3>2. IsAncestor(snap[r], branch')
            BY <1>2, <3>1, AncestorTrans DEF Hash
        <3> QED  BY <3>2 DEF ReadInv, ReaderInv, TipsOf, readVars
    <2> QED  BY <2>1, <2>2, <2>3
<1> QED  BY <1>1, <1>3, <1>4 DEF ReadInv, ReaderInv

-----------------------------------------------------------------------------
(* The steps of a read. *)

ReaderUnchanged(r) ==
    /\ rphase'[r] = rphase[r] /\ goal'[r] = goal[r] /\ snap'[r] = snap[r]
    /\ found'[r] = found[r] /\ before'[r] = before[r] /\ acked'[r] = acked[r]

(* A step of one reader is none of the other readers' concern. *)
LEMMA OtherReaders ==
    ASSUME ReadInv, NEW r \in Readers, Read(r), NEW s \in Readers, s # r
    PROVE  ReaderUnchanged(s)
<1> USE DEF ReadInv, ReadTypeOK, ReaderUnchanged
<1>1. CASE BeginRead(r)
    BY <1>1 DEF BeginRead
<1>2. CASE ResolveReadSnapshot(r)
    BY <1>2 DEF ResolveReadSnapshot
<1>3. CASE LoadRecord(r)
    BY <1>3 DEF LoadRecord, Deliver
<1>4. CASE Visit(r)
    BY <1>4 DEF Visit, Deliver
<1>5. CASE EndWalk(r) \/ ReadFails(r)
    BY <1>5 DEF EndWalk, ReadFails
<1> QED  BY <1>1, <1>2, <1>3, <1>4, <1>5 DEF Read

(* Delivering a record of the snapshot. *)
LEMMA DeliverIs ==
    ASSUME ReadTypeOK, NEW r \in Readers, NEW root, Deliver(r, root)
    PROVE  /\ DOMAIN found' = Readers
           /\ DOMAIN found'[r] = DOMAIN found[r] \cup {root}
           /\ found'[r][root] = RecordIn(snap[r], root).files
           /\ \A x \in DOMAIN found[r] \ {root} : found'[r][x] = found[r][x]
BY DEF ReadTypeOK, Deliver

LEMMA ReadTypeStep ==
    ASSUME ReadInv, NEW r \in Readers, Read(r)
    PROVE  ReadTypeOK' /\ UNCHANGED vars
<1> USE DEF ReadInv, ReadTypeOK, Outcomes
<1>1. CASE BeginRead(r)
    BY <1>1 DEF BeginRead
<1>2. CASE ResolveReadSnapshot(r)
    BY <1>2 DEF ResolveReadSnapshot, LogInv, IInv, TypeOK
<1>3. CASE LoadRecord(r)
    BY <1>3, DeliverIs DEF LoadRecord
<1>4. CASE Visit(r)
    BY <1>4, DeliverIs DEF Visit
<1>5. CASE EndWalk(r) \/ ReadFails(r)
    BY <1>5 DEF EndWalk, ReadFails
<1> QED  BY <1>1, <1>2, <1>3, <1>4, <1>5 DEF Read

(* A read preserves what it rests on, whatever step it takes. *)
LEMMA ReaderStep ==
    ASSUME ReadInv, NEW r \in Readers, Read(r)
    PROVE  (SnapshotOf(r) /\ AckedOf(r) /\ TipsOf(r))'
<1>0. /\ branch' = branch /\ phase' = phase /\ req' = req
      /\ branch \in Hash /\ snap[r] \in Hash /\ before[r] \in Hash
      /\ IsAncestor(branch, branch) /\ IsAncestor(snap[r], snap[r])
    BY ReadTypeStep, AncestorRefl DEF vars, ReadInv, LogInv, IInv, TypeOK, ReadTypeOK, Hash
<1>a. SnapshotOf(r) /\ AckedOf(r) /\ TipsOf(r)
    BY DEF ReadInv, ReaderInv
<1>b. \A c \in acked[r] : c \in Calls /\ phase[c] = "ok" /\ req[c].root \in RootsIn(branch)
    BY <1>a, OkIsStored DEF AckedOf, Stored, ReadInv, LogInv, ReadTypeOK
<1> USE DEF ReadInv, ReadTypeOK, Outcomes
<1>1. CASE BeginRead(r)
    <2>1. /\ rphase'[r] = "resolve" /\ DOMAIN found'[r] = {}
          /\ before'[r] = snap[r] /\ snap'[r] = snap[r]
          /\ acked'[r] = {c \in Calls : phase[c] = "ok"}
        BY <1>1 DEF BeginRead, Nothing
    <2> QED  BY <1>0, <1>a, <2>1 DEF SnapshotOf, AckedOf, TipsOf
<1>2. CASE ResolveReadSnapshot(r)
    <2>1. /\ found'[r] = found[r] /\ DOMAIN found[r] = {}
          /\ before'[r] = before[r] /\ acked'[r] = acked[r]
        BY <1>2, <1>a DEF ResolveReadSnapshot, SnapshotOf
    <2>2. CASE branch = NoRef
        <3>1. rphase'[r] = "noBranch" /\ snap'[r] = snap[r]
            BY <1>2, <2>2 DEF ResolveReadSnapshot
        <3>2. RootsIn(branch) = {}
            BY <2>2 DEF RootsIn, NoRef
        <3> QED  BY <1>0, <1>a, <1>b, <2>1, <3>1, <3>2 DEF SnapshotOf, AckedOf, TipsOf
    <2>3. CASE branch # NoRef
        <3>1. rphase'[r] = "load" /\ snap'[r] = branch
            BY <1>2, <2>3 DEF ResolveReadSnapshot
        <3>2. IsAncestor(before[r], branch)
            BY <1>0, <1>a, AncestorTrans DEF TipsOf, Hash
        <3> QED  BY <1>0, <1>a, <1>b, <2>1, <3>1, <3>2 DEF SnapshotOf, AckedOf, TipsOf
    <2> QED  BY <2>2, <2>3
<1>3. CASE LoadRecord(r)
    <2>1. /\ rphase[r] = "load" /\ snap'[r] = snap[r] /\ goal'[r] = goal[r]
          /\ before'[r] = before[r] /\ acked'[r] = acked[r]
        BY <1>3 DEF LoadRecord
    <2>2. CASE goal[r] \in RootsIn(snap[r])
        <3>1. rphase'[r] = "found" /\ Deliver(r, goal[r])
            BY <1>3, <2>2 DEF LoadRecord
        <3> QED  BY <1>0, <1>a, <2>1, <2>2, <3>1, DeliverIs DEF SnapshotOf, AckedOf, TipsOf
    <2>3. CASE goal[r] \notin RootsIn(snap[r])
        <3>1. rphase'[r] = "missing" /\ found'[r] = found[r]
            BY <1>3, <2>3 DEF LoadRecord
        <3> QED  BY <1>0, <1>a, <2>1, <2>3, <3>1 DEF SnapshotOf, AckedOf, TipsOf
    <2> QED  BY <2>2, <2>3
<1>4. CASE Visit(r)
    <2>1. /\ rphase[r] = "load" /\ snap'[r] = snap[r]
          /\ before'[r] = before[r] /\ acked'[r] = acked[r]
          /\ rphase'[r] \in {"load", "stopped"}
        BY <1>4 DEF Visit
    <2>2. PICK root \in RootsIn(snap[r]) : Deliver(r, root)
        BY <1>4 DEF Visit
    <2> QED  BY <1>0, <1>a, <2>1, <2>2, DeliverIs DEF SnapshotOf, AckedOf, TipsOf
<1>5. CASE EndWalk(r)
    BY <1>0, <1>a, <1>5 DEF EndWalk, SnapshotOf, AckedOf, TipsOf
<1>6. CASE ReadFails(r)
    BY <1>0, <1>a, <1>6 DEF ReadFails, SnapshotOf, AckedOf, TipsOf
<1> QED  BY <1>1, <1>2, <1>3, <1>4, <1>5, <1>6 DEF Read

-----------------------------------------------------------------------------
(* The theorems. *)

LEMMA ReadInvInit == ReadInit => ReadInv
<1> SUFFICES ASSUME ReadInit PROVE ReadInv
    OBVIOUS
<1>1. LogInv
    BY InvInit DEF ReadInit, LogInv, OkNamesCommit, Init
<1>2. NoRef \in Hash /\ branch = NoRef /\ IsAncestor(NoRef, NoRef)
    BY EmptySeq, AncestorRefl DEF ReadInit, Init, NoRef, Hash
<1> QED
    BY <1>1, <1>2 DEF ReadInit, ReadInv, ReadTypeOK, ReaderInv, SnapshotOf, AckedOf, TipsOf,
       Nothing

LEMMA ReadInvStep == ReadInv /\ [ReadNext]_allVars => ReadInv'
<1> SUFFICES ASSUME ReadInv, [ReadNext]_allVars PROVE ReadInv'
    OBVIOUS
<1>1. CASE Next /\ UNCHANGED readVars
    BY <1>1, WriterStep
<1>2. ASSUME NEW r \in Readers, Read(r) PROVE ReadInv'
    <2>1. UNCHANGED vars /\ ReadTypeOK'
        BY <1>2, ReadTypeStep
    <2>2. LogInv'
        BY <2>1, LogInvStep DEF ReadInv
    <2>3. ASSUME NEW s \in Readers PROVE (SnapshotOf(s) /\ AckedOf(s) /\ TipsOf(s))'
        <3>1. CASE s = r
            BY <1>2, <3>1, ReaderStep
        <3>2. CASE s # r
            BY <1>2, <2>1, <3>2, OtherReaders
               DEF ReaderUnchanged, vars, ReadInv, ReaderInv, SnapshotOf, AckedOf, TipsOf
        <3> QED  BY <3>1, <3>2
    <2> QED  BY <2>1, <2>2, <2>3 DEF ReadInv, ReaderInv
<1>3. CASE UNCHANGED allVars
    <2>1. UNCHANGED vars /\ UNCHANGED readVars
        BY <1>3 DEF allVars
    <2>2. LogInv'
        BY <2>1, LogInvStep DEF ReadInv
    <2> QED
        BY <2>1, <2>2 DEF vars, readVars, ReadInv, ReadTypeOK, ReaderInv, SnapshotOf, AckedOf,
           TipsOf
<1> QED  BY <1>1, <1>2, <1>3 DEF ReadNext

(* ReadInv holds in every reachable state. *)
THEOREM ReadInvCorrect == ReadSpec => []ReadInv
BY ReadInvInit, ReadInvStep, PTL DEF ReadSpec

(* Beside readers, the writers keep every promise of RecordBranchProofs. *)
THEOREM ReadersDoNotDisturb == ReadSpec => Spec
<1>1. ReadInit => Init
    BY DEF ReadInit
<1>2. [ReadNext]_allVars => [Next]_vars
    BY DEF ReadNext, Read, BeginRead, ResolveReadSnapshot, LoadRecord, Visit, EndWalk,
           ReadFails, allVars
<1> QED  BY <1>1, <1>2, PTL DEF ReadSpec, Spec

(* A record of the snapshot is the one on the branch. *)
LEMMA SnapshotIsCurrent ==
    ASSUME ReadInv, NEW r \in Readers, NEW root \in RootsIn(snap[r])
    PROVE  root \in RootsIn(branch) /\ RecordIn(branch, root) = RecordIn(snap[r], root)
<1>1. snap[r] \in Hash /\ branch \in Hash /\ OneCommit(branch) /\ IsAncestor(snap[r], branch)
    BY DEF ReadInv, ReadTypeOK, ReaderInv, TipsOf, LogInv, IInv, TypeOK, OneCommitPerRecord,
           OneCommit
<1> QED  BY <1>1, RecordInAncestor

(* What was acknowledged before a read began, the read returns. *)
THEOREM AcknowledgedIsReadHolds == ReadSpec => []AcknowledgedIsRead
<1>1. ReadInv => AcknowledgedIsRead
    <2> SUFFICES ASSUME ReadInv, NEW r \in Readers, NEW c \in Calls, c \in acked[r]
                 PROVE  /\ rphase[r] = "missing" => goal[r] # req[c].root
                        /\ rphase[r] # "noBranch"
                        /\ rphase[r] = "walked" => req[c].root \in DOMAIN found[r]
                        /\ req[c].root \in DOMAIN found[r] =>
                                found[r][req[c].root] = req[c].files
        BY DEF AcknowledgedIsRead
    <2>1. SnapshotOf(r) /\ AckedOf(r)
        BY DEF ReadInv, ReaderInv
    <2>2. Stored(c)
        BY <2>1, OkIsStored DEF AckedOf, ReadInv, LogInv
    <2>3. req[c].root \in DOMAIN found[r] => found[r][req[c].root] = req[c].files
        BY <2>1, <2>2, SnapshotIsCurrent DEF SnapshotOf, Stored
    <2> QED  BY <2>1, <2>3 DEF SnapshotOf, AckedOf
<1> QED  BY <1>1, ReadInvCorrect, PTL

(* A walk shows one tip, and what a read has delivered stays true. *)
THEOREM WalkIsSnapshotHolds == ReadSpec => []WalkIsSnapshot
<1>1. ReadInv => WalkIsSnapshot
    <2> SUFFICES ASSUME ReadInv, NEW r \in Readers
                 PROVE  /\ rphase[r] = "walked" => DOMAIN found[r] = RootsIn(snap[r])
                        /\ IsAncestor(snap[r], branch)
                        /\ \A root \in DOMAIN found[r] :
                                /\ root \in RootsIn(branch)
                                /\ RecordIn(branch, root).files = found[r][root]
        BY DEF WalkIsSnapshot
    <2>1. SnapshotOf(r) /\ TipsOf(r)
        BY DEF ReadInv, ReaderInv
    <2> QED  BY <2>1, SnapshotIsCurrent DEF SnapshotOf, TipsOf
<1> QED  BY <1>1, ReadInvCorrect, PTL

(* The tips that one reader resolves never go backwards. *)
THEOREM ReadsAreMonotonicHolds == ReadSpec => []ReadsAreMonotonic
<1>1. ReadInv => ReadsAreMonotonic
    BY DEF ReadInv, ReaderInv, TipsOf, ReadsAreMonotonic
<1> QED  BY <1>1, ReadInvCorrect, PTL
=============================================================================
