------------------------- MODULE RecordBranchProofs -------------------------
(***************************************************************************)
(* RecordBranch, for every set of calls, roots, payloads and time stamps,  *)
(* every bound on the attempts, and whether or not answers may be lost.    *)
(*                                                                         *)
(* The invariants are proved together: each is too weak to be inductive by *)
(* itself, and AttemptInv says what an attempt in progress rests on.       *)
(***************************************************************************)
EXTENDS RecordBranch, GitRefProofs

IInv ==
    /\ TypeOK
    /\ OneCommitPerRecord
    /\ SuccessIsDurable
    /\ MovesAtMostOnce
    /\ GivingUpNeedsContention
    /\ ErrorsLeaveNoTrace
    /\ AttemptInv

-----------------------------------------------------------------------------
(* Records of a branch. *)

(* Appending a commit adds its record. *)
LEMMA RootsInAppend ==
    ASSUME NEW h \in Hash, NEW x \in Commit
    PROVE  RootsIn(Append(h, x)) = RootsIn(h) \cup ({x.root} \ {Sentinel})
<1>1. /\ Len(Append(h, x)) = Len(h) + 1
      /\ Append(h, x)[Len(h) + 1] = x
      /\ \A i \in 1..Len(h) : Append(h, x)[i] = h[i]
      /\ Len(h) \in Nat
    BY AncestorAppend, LenProperties DEF Hash
<1>2. 1..(Len(h) + 1) = 1..Len(h) \cup {Len(h) + 1}
    BY <1>1
<1> QED  BY <1>1, <1>2 DEF RootsIn

(* The records of an ancestor are on the branch. *)
LEMMA RootsInAncestor ==
    ASSUME NEW h \in Hash, NEW i \in Hash, IsAncestor(h, i)
    PROVE  RootsIn(h) \subseteq RootsIn(i)
<1>1. Len(h) \in Nat /\ Len(i) \in Nat
    BY LenProperties DEF Hash
<1> QED  BY <1>1 DEF RootsIn, IsAncestor

(* The commit a call builds is well formed and holds the call's record. *)
LEMMA NewCommitIs ==
    ASSUME NEW c, req[c] \in Request, NEW t \in Stamps
    PROVE  /\ NewCommit(c, t) \in Commit
           /\ NewCommit(c, t).root = req[c].root
           /\ NewCommit(c, t).files = req[c].files
           /\ req[c].root \in Roots
           /\ req[c].root # Sentinel
BY SentinelAssumption DEF NewCommit, Commit, Request

-----------------------------------------------------------------------------
(* Types. *)

LEMMA TypeInit == Init => TypeOK
BY MaxAttemptsAssumption, EmptySeq DEF Init, TypeOK, Hash, NoRef

LEMMA TypeStep ==
    ASSUME TypeOK, [Next]_vars
    PROVE  TypeOK'
<1> USE DEF TypeOK
<1>1. CASE CreateBranch
    <2>1. PICK t \in Stamps :
            branch' = <<[root |-> Sentinel, files |-> Sentinel, time |-> t]>>
        BY <1>1 DEF CreateBranch
    <2>2. branch' \in Hash
        BY <2>1 DEF Hash, Commit
    <2> QED  BY <1>1, <2>2 DEF CreateBranch
<1>2. ASSUME NEW c \in Calls, Begin(c) PROVE TypeOK'
    <2>1. PICK r \in Roots, f \in Payloads, n \in 0..Len(branch) :
            req' = [req EXCEPT ![c] =
                        [root |-> r, files |-> f, tip |-> SubSeq(branch, 1, n)]]
        BY <1>2 DEF Begin
    <2>2. SubSeq(branch, 1, n) \in Hash /\ Len(branch) \in Nat
        BY AncestorSubSeq, LenProperties DEF Hash
    <2>3. [root |-> r, files |-> f, tip |-> SubSeq(branch, 1, n)] \in Request
        BY <2>2 DEF Request
    <2>4. req' \in [Calls -> Request \cup {NoRequest}] /\ req'[c] \in Request
        BY <2>1, <2>3
    <2>5. \A d \in Calls : phase'[d] # "idle" => req'[d] \in Request
        BY <1>2, <2>1, <2>4 DEF Begin, Goto
    <2> QED  BY <1>2, <2>2, <2>4, <2>5 DEF Begin, Goto, Steps
<1>3. ASSUME NEW c \in Calls, Validate(c) PROVE TypeOK'
    BY <1>3 DEF Validate, Goto, Steps, Verdicts
<1>4. ASSUME NEW c \in Calls, ReadRef(c) PROVE TypeOK'
    BY <1>4 DEF ReadRef, Goto, Steps, Verdicts
<1>5. ASSUME NEW c \in Calls, Build(c) PROVE TypeOK'
    <2>1. next' \in [Calls -> Hash]
        <3>1. CASE UNCHANGED next
            BY <3>1
        <3>2. CASE \E t \in Stamps : next' = [next EXCEPT ![c] = Append(seen[c], NewCommit(c, t))]
            <4>1. PICK t \in Stamps : next' = [next EXCEPT ![c] = Append(seen[c], NewCommit(c, t))]
                BY <3>2
            <4>2. req[c] \in Request
                BY <1>5 DEF Build
            <4>3. Append(seen[c], NewCommit(c, t)) \in Hash
                BY <4>2, NewCommitIs, AncestorAppend DEF Hash
            <4> QED  BY <4>1, <4>3
        <3> QED  BY <1>5, <3>1, <3>2 DEF Build, NewCommit
    <2> QED  BY <1>5, <2>1 DEF Build, Goto, Steps, Verdicts
<1>6. ASSUME NEW c \in Calls, UpdateRef(c) PROVE TypeOK'
    <2>1. PICK end \in UpdateRefEnds(branch, next[c], seen[c], LostAck) :
            /\ branch' = end.ref
            /\ exit' = [exit EXCEPT ![c] = end.exit]
            /\ moves' = [moves EXCEPT ![c] = IF end.ref # branch THEN @ + 1 ELSE @]
            /\ Goto(c, IF end.exit = "ok" THEN "ok" ELSE "probe")
        BY <1>6 DEF UpdateRef
    <2>2. branch' \in Hash /\ end.exit \in {"ok", "conflict", "error", "lost"}
        BY <2>1, UpdateRefEndsAre
    <2> QED  BY <1>6, <2>1, <2>2 DEF UpdateRef, Goto, Steps, Verdicts
<1>7. ASSUME NEW c \in Calls, Probe(c) PROVE TypeOK'
    <2>1. PICK verdict \in ProbeVerdicts(branch, next[c], seen[c], exit[c]) :
            \/ verdict = "applied" /\ Goto(c, "ok") /\ UNCHANGED attempt
            \/ verdict = "conflict" /\ LoseRace(c)
            \/ verdict = "unknown" /\ Goto(c, "unknown") /\ UNCHANGED attempt
        BY <1>7 DEF Probe
    <2>2. phase' \in [Calls -> {"idle"} \cup Steps \cup Verdicts]
        BY <2>1 DEF LoseRace, Goto, Steps, Verdicts
    <2>3. attempt' \in [Calls -> 1..MaxAttempts]
        BY <2>1, MaxAttemptsAssumption DEF LoseRace
    <2>4. \A d \in Calls : phase'[d] # "idle" => phase[d] # "idle"
        BY <1>7, <2>1 DEF Probe, LoseRace, Goto
    <2> QED  BY <1>7, <2>2, <2>3, <2>4 DEF Probe
<1>8. ASSUME NEW c \in Calls, GitFails(c) PROVE TypeOK'
    BY <1>8 DEF GitFails, Goto, Steps, Verdicts
<1>9. ASSUME NEW c \in Calls, Crash(c) PROVE TypeOK'
    BY <1>9 DEF Crash, Goto, Steps, Verdicts
<1>10. CASE UNCHANGED vars
    BY <1>10 DEF vars
<1> QED
    BY <1>1, <1>2, <1>3, <1>4, <1>5, <1>6, <1>7, <1>8, <1>9, <1>10 DEF Next, Advance

(* TypeOK holds in every reachable state. *)
THEOREM TypeCorrect == Spec => []TypeOK
<1>1. Init => TypeOK
    BY TypeInit
<1>2. TypeOK /\ [Next]_vars => TypeOK'
    BY TypeStep
<1> QED  BY <1>1, <1>2, PTL DEF Spec

-----------------------------------------------------------------------------
(* How the branch and the other calls change in a step. *)

(* The branch moves only by creation, and by a call that publishes a commit on
   the very tip it read. *)
LEMMA BranchStep ==
    ASSUME TypeOK, [Next]_vars
    PROVE  \/ branch' = branch
           \/ /\ branch = NoRef
              /\ \E t \in Stamps :
                    branch' = <<[root |-> Sentinel, files |-> Sentinel, time |-> t]>>
           \/ \E c \in Calls : phase[c] = "update" /\ branch = seen[c] /\ branch' = next[c]
<1>1. CASE CreateBranch
    BY <1>1 DEF CreateBranch
<1>2. ASSUME NEW c \in Calls, UpdateRef(c)
      PROVE  \/ branch' = branch
             \/ phase[c] = "update" /\ branch = seen[c] /\ branch' = next[c]
    BY <1>2, UpdateRefEndsAre DEF UpdateRef
<1>3. ASSUME NEW c \in Calls, Crash(c)
      PROVE  \/ branch' = branch
             \/ phase[c] = "update" /\ branch = seen[c] /\ branch' = next[c]
    BY <1>3 DEF Crash
<1>4. ASSUME NEW c \in Calls,
             Begin(c) \/ Validate(c) \/ ReadRef(c) \/ Build(c) \/ Probe(c) \/ GitFails(c)
      PROVE  branch' = branch
    BY <1>4 DEF Begin, Validate, ReadRef, Build, Probe, GitFails
<1>5. CASE UNCHANGED vars
    BY <1>5 DEF vars
<1> QED  BY <1>1, <1>2, <1>3, <1>4, <1>5 DEF Next, Advance

(* A call about to update has built one commit on what it read. *)
LEMMA Built ==
    ASSUME TypeOK, AttemptInv, NEW c \in Calls, phase[c] \in {"update", "probe"}
    PROVE  \E x \in Commit :
                /\ next[c] = Append(seen[c], x)
                /\ x.root = req[c].root /\ x.files = req[c].files
                /\ x.root # Sentinel
                /\ x.root \notin RootsIn(seen[c])
<1>1. req[c] \in Request
    BY DEF TypeOK
<1>2. PICK t \in Stamps : next[c] = Append(seen[c], NewCommit(c, t))
    BY DEF AttemptInv, AttemptOf
<1>3. req[c].root \notin RootsIn(seen[c])
    BY DEF AttemptInv, AttemptOf
<1> QED  BY <1>1, <1>2, <1>3, NewCommitIs

(* So the branch only grows, by at most one commit. *)
LEMMA Growth ==
    ASSUME TypeOK, AttemptInv, [Next]_vars
    PROVE  /\ branch \in Hash /\ branch' \in Hash
           /\ IsAncestor(branch, branch')
           /\ Len(branch') <= Len(branch) + 1
           /\ RootsIn(branch) \subseteq RootsIn(branch')
<1>1. branch \in Hash /\ branch' \in Hash /\ Len(branch) \in Nat
    BY TypeStep, LenProperties DEF TypeOK, Hash
<1>2. IsAncestor(branch, branch') /\ Len(branch') <= Len(branch) + 1
    <2>1. CASE branch' = branch
        BY <1>1, <2>1, AncestorRefl DEF Hash
    <2>2. CASE /\ branch = NoRef
               /\ \E t \in Stamps :
                    branch' = <<[root |-> Sentinel, files |-> Sentinel, time |-> t]>>
        <3>1. Len(branch) = 0 /\ Len(branch') = 1
            BY <2>2 DEF NoRef
        <3> QED  BY <3>1 DEF IsAncestor
    <2>3. ASSUME NEW c \in Calls, phase[c] = "update", branch = seen[c], branch' = next[c]
          PROVE  IsAncestor(branch, branch') /\ Len(branch') <= Len(branch) + 1
        <3>1. PICK x \in Commit : next[c] = Append(seen[c], x)
            BY <2>3, Built
        <3> QED  BY <1>1, <2>3, <3>1, AncestorAppend DEF Hash
    <2> QED  BY <2>1, <2>2, <2>3, BranchStep
<1> QED  BY <1>1, <1>2, RootsInAncestor

CallUnchanged(c) ==
    /\ phase'[c] = phase[c] /\ req'[c] = req[c] /\ seen'[c] = seen[c] /\ next'[c] = next[c]
    /\ exit'[c] = exit[c] /\ attempt'[c] = attempt[c]
    /\ moves'[c] = moves[c] /\ height'[c] = height[c]

(* A step is a step of call c, or leaves all that belongs to c as it was. *)
LEMMA StepOf ==
    ASSUME TypeOK, [Next]_vars, NEW c \in Calls
    PROVE  Begin(c) \/ Advance(c) \/ GitFails(c) \/ Crash(c) \/ CallUnchanged(c)
<1> USE DEF TypeOK, CallUnchanged
<1>1. CASE CreateBranch
    BY <1>1 DEF CreateBranch
<1>2. CASE UNCHANGED vars
    BY <1>2 DEF vars
<1>3. ASSUME NEW d \in Calls, d # c, Begin(d) PROVE CallUnchanged(c)
    BY <1>3 DEF Begin, Goto
<1>4. ASSUME NEW d \in Calls, d # c, Validate(d) PROVE CallUnchanged(c)
    BY <1>4 DEF Validate, Goto
<1>5. ASSUME NEW d \in Calls, d # c, ReadRef(d) PROVE CallUnchanged(c)
    BY <1>5 DEF ReadRef, Goto
<1>6. ASSUME NEW d \in Calls, d # c, Build(d) PROVE CallUnchanged(c)
    BY <1>6 DEF Build, Goto
<1>7. ASSUME NEW d \in Calls, d # c, UpdateRef(d) PROVE CallUnchanged(c)
    BY <1>7 DEF UpdateRef, Goto
<1>8. ASSUME NEW d \in Calls, d # c, Probe(d) PROVE CallUnchanged(c)
    BY <1>8 DEF Probe, LoseRace, Goto
<1>9. ASSUME NEW d \in Calls, d # c, GitFails(d) PROVE CallUnchanged(c)
    BY <1>9 DEF GitFails, Goto
<1>10. ASSUME NEW d \in Calls, d # c, Crash(d) PROVE CallUnchanged(c)
    BY <1>10 DEF Crash, Goto
<1> QED
    BY <1>1, <1>2, <1>3, <1>4, <1>5, <1>6, <1>7, <1>8, <1>9, <1>10 DEF Next, Advance

-----------------------------------------------------------------------------
(* Each part of the invariant is preserved. *)

LEMMA OneCommitStep ==
    ASSUME TypeOK, AttemptInv, OneCommitPerRecord, [Next]_vars
    PROVE  OneCommitPerRecord'
<1>1. CASE branch' = branch
    BY <1>1 DEF OneCommitPerRecord
<1>2. CASE \E t \in Stamps : branch' = <<[root |-> Sentinel, files |-> Sentinel, time |-> t]>>
    BY <1>2 DEF OneCommitPerRecord
<1>3. ASSUME NEW c \in Calls, phase[c] = "update", branch = seen[c], branch' = next[c]
      PROVE  OneCommitPerRecord'
    <2>1. PICK x \in Commit : /\ next[c] = Append(seen[c], x)
                              /\ x.root # Sentinel
                              /\ x.root \notin RootsIn(seen[c])
        BY <1>3, Built
    <2>2. branch \in Hash /\ Len(branch) \in Nat
        BY LenProperties DEF TypeOK, Hash
    <2>3. /\ Len(branch') = Len(branch) + 1
          /\ branch'[Len(branch) + 1] = x
          /\ \A i \in 1..Len(branch) : branch'[i] = branch[i]
        BY <1>3, <2>1, <2>2, AncestorAppend DEF Hash
    <2>4. \A i \in 1..Len(branch) : branch[i].root # x.root
        BY <1>3, <2>1 DEF RootsIn
    <2> QED  BY <2>2, <2>3, <2>4 DEF OneCommitPerRecord
<1> QED  BY <1>1, <1>2, <1>3, BranchStep

LEMMA SuccessStep ==
    ASSUME TypeOK, AttemptInv, SuccessIsDurable, [Next]_vars
    PROVE  SuccessIsDurable'
<1> SUFFICES ASSUME NEW c \in Calls, phase'[c] = "ok"
             PROVE  LET own == next'[c][Len(next'[c])]
                    IN  /\ IsAncestor(next'[c], branch')
                        /\ own.root = req'[c].root /\ own.files = req'[c].files
                        /\ ExpectsTip(c)' => /\ Len(next'[c]) = Len(req'[c].tip) + 1
                                             /\ IsAncestor(req'[c].tip, next'[c])
    BY DEF SuccessIsDurable
<1>1. IsAncestor(branch, branch') /\ branch \in Hash /\ branch' \in Hash
    BY Growth
<1>2. next[c] \in Hash /\ seen[c] \in Hash
    BY DEF TypeOK
<1>3. CASE phase[c] = "ok" /\ CallUnchanged(c)
    <2>1. IsAncestor(next[c], branch)
        BY <1>3 DEF SuccessIsDurable
    <2>2. IsAncestor(next[c], branch')
        BY <1>1, <1>2, <2>1, AncestorTrans DEF Hash
    <2> QED  BY <1>3, <2>2 DEF SuccessIsDurable, CallUnchanged, ExpectsTip
<1>4. CASE /\ phase[c] \in {"update", "probe"}
           /\ next'[c] = next[c] /\ req'[c] = req[c] /\ branch' = next[c]
    <2>1. PICK x \in Commit : /\ next[c] = Append(seen[c], x)
                              /\ x.root = req[c].root /\ x.files = req[c].files
        BY <1>4, Built
    <2>2. /\ Len(next[c]) = Len(seen[c]) + 1 /\ Len(seen[c]) \in Nat
          /\ next[c][Len(seen[c]) + 1] = x
          /\ IsAncestor(seen[c], next[c])
        BY <1>2, <2>1, AncestorAppend, LenProperties DEF Hash
    <2>3. ExpectsTip(c) => seen[c] = req[c].tip
        BY <1>4 DEF AttemptInv, AttemptOf
    <2>4. IsAncestor(next[c], branch')
        BY <1>2, <1>4, AncestorRefl DEF Hash
    <2> QED  BY <1>4, <2>1, <2>2, <2>3, <2>4 DEF ExpectsTip
<1>5. CASE UpdateRef(c)
    <2>1. phase[c] = "update" /\ branch' = next[c] /\ next' = next /\ req' = req
        BY <1>5, UpdateRefEndsAre DEF UpdateRef, Goto, TypeOK
    <2> QED  BY <1>4, <2>1
<1>6. CASE Probe(c)
    <2>1. phase[c] = "probe" /\ branch' = next[c] /\ next' = next /\ req' = req
        BY <1>6, ProbeVerdictsAre DEF Probe, LoseRace, Goto, TypeOK
    <2> QED  BY <1>4, <2>1
<1>7. ~Begin(c) /\ ~Validate(c) /\ ~ReadRef(c) /\ ~Build(c) /\ ~GitFails(c) /\ ~Crash(c)
    BY DEF Begin, Validate, ReadRef, Build, GitFails, Crash, Goto, TypeOK
<1> QED  BY <1>3, <1>5, <1>6, <1>7, StepOf DEF Advance, CallUnchanged

LEMMA MovesStep ==
    ASSUME TypeOK, AttemptInv, MovesAtMostOnce, [Next]_vars
    PROVE  MovesAtMostOnce'
<1> SUFFICES ASSUME NEW c \in Calls
             PROVE  moves'[c] <= 1
    BY DEF MovesAtMostOnce
<1>1. moves[c] \in Nat /\ moves[c] <= 1
    BY DEF TypeOK, MovesAtMostOnce
<1>2. CASE phase[c] = "update" /\ branch = seen[c] /\ moves'[c] = moves[c] + 1
    <2>1. req[c].root \notin RootsIn(branch)
        BY <1>2 DEF AttemptInv, AttemptOf
    <2>2. moves[c] = 0
        BY <1>1, <2>1 DEF AttemptInv, AttemptOf
    <2> QED  BY <1>2, <2>2
<1>3. CASE UpdateRef(c)
    <2>1. moves'[c] = moves[c] \/ (moves'[c] = moves[c] + 1 /\ branch = seen[c])
        BY <1>3, UpdateRefEndsAre DEF UpdateRef, TypeOK
    <2> QED  BY <1>1, <1>2, <1>3, <2>1 DEF UpdateRef
<1>4. CASE Crash(c)
    BY <1>1, <1>2, <1>4 DEF Crash, TypeOK
<1>5. CASE Begin(c) \/ Validate(c) \/ ReadRef(c) \/ Build(c) \/ Probe(c) \/ GitFails(c)
    BY <1>1, <1>5 DEF Begin, Validate, ReadRef, Build, Probe, GitFails
<1> QED  BY <1>1, <1>3, <1>4, <1>5, StepOf DEF Advance, CallUnchanged

LEMMA GivingUpStep ==
    ASSUME TypeOK, AttemptInv, GivingUpNeedsContention, [Next]_vars
    PROVE  GivingUpNeedsContention'
<1> SUFFICES ASSUME NEW c \in Calls, phase'[c] = "tipChanged"
             PROVE  IF ExpectsTip(c)' THEN branch' # req'[c].tip
                    ELSE Len(branch') >= height'[c] + MaxAttempts
    BY DEF GivingUpNeedsContention
<1>1. /\ IsAncestor(branch, branch') /\ branch \in Hash /\ branch' \in Hash
      /\ Len(branch) \in Nat /\ Len(branch') \in Nat /\ Len(branch) <= Len(branch')
    BY Growth, LenProperties DEF Hash, IsAncestor
<1>2. seen[c] \in Hash /\ Len(seen[c]) \in Nat /\ height[c] \in Nat /\ attempt[c] \in Nat
    BY MaxAttemptsAssumption, LenProperties DEF TypeOK, Hash
<1>3. CASE phase[c] = "tipChanged" /\ CallUnchanged(c)
    <2>1. CASE ExpectsTip(c)
        <3>1. req[c] \in Request
            BY <1>3 DEF TypeOK
        <3>2. req[c].tip \in Hash /\ Len(req[c].tip) \in Nat
            BY <3>1, LenProperties DEF Request, Hash
        <3>3. branch # req[c].tip /\ IsAncestor(req[c].tip, branch)
            BY <1>3, <2>1 DEF GivingUpNeedsContention, AttemptInv, AttemptOf
        <3>4. Len(req[c].tip) < Len(branch)
            BY <1>1, <3>2, <3>3, ProperAncestorIsLower DEF Hash
        <3>5. branch' # req[c].tip
            BY <1>1, <3>2, <3>4
        <3> QED  BY <1>3, <2>1, <3>5 DEF CallUnchanged, ExpectsTip
    <2>2. CASE ~ExpectsTip(c)
        <3>1. Len(branch) >= height[c] + MaxAttempts
            BY <1>3, <2>2 DEF GivingUpNeedsContention
        <3>2. Len(branch') >= height[c] + MaxAttempts
            BY <1>1, <1>2, <3>1, MaxAttemptsAssumption
        <3> QED  BY <1>3, <2>2, <3>2 DEF CallUnchanged, ExpectsTip
    <2> QED  BY <2>1, <2>2
<1>4. CASE ReadRef(c)
    BY <1>4 DEF ReadRef, Goto, ExpectsTip, TypeOK
<1>5. CASE Probe(c)
    <2>1. /\ phase[c] = "probe" /\ branch' = branch /\ req' = req /\ height' = height
          /\ branch # seen[c] \/ exit[c] = "conflict"
          /\ ExpectsTip(c) \/ attempt[c] = MaxAttempts
        BY <1>5, ProbeVerdictsAre DEF Probe, LoseRace, Goto, TypeOK
    <2>2. /\ branch # seen[c] /\ IsAncestor(seen[c], branch)
          /\ Len(seen[c]) >= height[c] + attempt[c] - 1
          /\ ExpectsTip(c) => seen[c] = req[c].tip
        BY <2>1 DEF AttemptInv, AttemptOf
    <2>3. Len(seen[c]) < Len(branch)
        BY <1>1, <1>2, <2>2, ProperAncestorIsLower DEF Hash
    <2> QED  BY <1>1, <1>2, <2>1, <2>2, <2>3, MaxAttemptsAssumption DEF ExpectsTip
<1>6. CASE Begin(c) \/ Validate(c) \/ Build(c) \/ UpdateRef(c) \/ GitFails(c) \/ Crash(c)
    BY <1>6 DEF Begin, Validate, Build, UpdateRef, GitFails, Crash, Goto, TypeOK
<1> QED  BY <1>3, <1>4, <1>5, <1>6, StepOf DEF Advance, CallUnchanged

(* What an attempt rests on survives whatever others do to the branch. *)
LEMMA AttemptSurvives ==
    ASSUME TypeOK, AttemptInv, [Next]_vars, NEW c \in Calls, CallUnchanged(c)
    PROVE  AttemptOf(c)'
<1> USE DEF CallUnchanged
<1>1. /\ IsAncestor(branch, branch') /\ branch \in Hash /\ branch' \in Hash
      /\ RootsIn(branch) \subseteq RootsIn(branch')
      /\ Len(branch) \in Nat /\ Len(branch') \in Nat /\ Len(branch) <= Len(branch')
    BY Growth, LenProperties DEF Hash, IsAncestor
<1>2. seen[c] \in Hash /\ Len(seen[c]) \in Nat /\ height[c] \in Nat /\ attempt[c] \in Nat
    BY MaxAttemptsAssumption, LenProperties DEF TypeOK, Hash
<1>3. phase[c] # "idle" => IsAncestor(req[c].tip, branch')
    <2>1. SUFFICES ASSUME phase[c] # "idle" PROVE IsAncestor(req[c].tip, branch')
        OBVIOUS
    <2>2. req[c].tip \in Hash
        BY <2>1 DEF TypeOK, Request
    <2>3. IsAncestor(req[c].tip, branch)
        BY <2>1 DEF AttemptInv, AttemptOf
    <2> QED  BY <1>1, <2>2, <2>3, AncestorTrans DEF Hash
<1>4. phase[c] \in {"build", "update", "probe"} => IsAncestor(seen[c], branch')
    BY <1>1, <1>2, AncestorTrans DEF AttemptInv, AttemptOf, Hash
<1>5. phase[c] = "probe" /\ exit[c] = "conflict" => branch' # seen[c]
    <2>1. SUFFICES ASSUME phase[c] = "probe", exit[c] = "conflict" PROVE branch' # seen[c]
        OBVIOUS
    <2>2. IsAncestor(seen[c], branch) /\ branch # seen[c]
        BY <2>1 DEF AttemptInv, AttemptOf
    <2>3. Len(seen[c]) < Len(branch)
        BY <1>1, <1>2, <2>2, ProperAncestorIsLower DEF Hash
    <2> QED  BY <1>1, <1>2, <2>3
<1>6. phase[c] \in Steps => Len(branch') >= height[c] + attempt[c] - 1
    BY <1>1, <1>2 DEF AttemptInv, AttemptOf
<1> QED  BY <1>1, <1>3, <1>4, <1>5, <1>6 DEF AttemptInv, AttemptOf, ExpectsTip, NewCommit

LEMMA ErrorsStep ==
    ASSUME TypeOK, AttemptInv, ErrorsLeaveNoTrace, [Next]_vars
    PROVE  ErrorsLeaveNoTrace'
<1> SUFFICES ASSUME NEW c \in Calls, phase'[c] \in Verdicts \ {"ok", "crashed"}, moves'[c] > 0
             PROVE  exit'[c] = "lost"
    BY DEF ErrorsLeaveNoTrace
<1>1. AttemptOf(c)
    BY DEF AttemptInv
<1>2. CASE Validate(c) \/ ReadRef(c) \/ Build(c) \/ Probe(c) \/ GitFails(c)
    BY <1>1, <1>2 DEF Validate, ReadRef, Build, Probe, GitFails, AttemptOf, Steps
<1>3. ~Begin(c) /\ ~UpdateRef(c) /\ ~Crash(c)
    BY DEF Begin, UpdateRef, Crash, Goto, TypeOK, Verdicts
<1>4. CASE CallUnchanged(c)
    BY <1>4 DEF ErrorsLeaveNoTrace, CallUnchanged
<1> QED  BY <1>2, <1>3, <1>4, StepOf DEF Advance

LEMMA AttemptStep ==
    ASSUME TypeOK, AttemptInv, [Next]_vars
    PROVE  AttemptInv'
<1> SUFFICES ASSUME NEW c \in Calls
             PROVE  AttemptOf(c)'
    BY DEF AttemptInv
<1>1. AttemptOf(c)
    BY DEF AttemptInv
<1>2. /\ branch \in Hash /\ Len(branch) \in Nat
      /\ seen[c] \in Hash /\ Len(seen[c]) \in Nat /\ next[c] \in Hash
      /\ height[c] \in Nat /\ attempt[c] \in Nat /\ moves[c] \in Nat
    BY MaxAttemptsAssumption, LenProperties DEF TypeOK, Hash
<1>3. phase[c] # "idle" => req[c].tip \in Hash
    BY DEF TypeOK, Request
<1>4. IsAncestor(branch, branch)
    BY <1>2, AncestorRefl DEF Hash
<1>5. CASE Begin(c)
    <2>1. PICK r \in Roots, f \in Payloads, n \in 0..Len(branch) :
            req' = [req EXCEPT ![c] =
                        [root |-> r, files |-> f, tip |-> SubSeq(branch, 1, n)]]
        BY <1>5 DEF Begin
    <2>2. req'[c].tip = SubSeq(branch, 1, n)
        BY <2>1 DEF TypeOK
    <2>3. IsAncestor(req'[c].tip, branch)
        BY <1>2, <2>2, AncestorSubSeq DEF Hash
    <2>4. /\ phase'[c] = "validate" /\ moves'[c] = 0 /\ branch' = branch
          /\ height'[c] = Len(branch)
        BY <1>1, <1>5 DEF Begin, Goto, TypeOK, AttemptOf
    <2>5. attempt'[c] = 1
        BY <1>1, <1>5 DEF Begin, AttemptOf
    <2> QED  BY <1>2, <2>3, <2>4, <2>5 DEF AttemptOf
<1>6. CASE Validate(c)
    BY <1>1, <1>6 DEF Validate, Goto, TypeOK, AttemptOf, Steps
<1>7. CASE ReadRef(c)
    BY <1>1, <1>2, <1>4, <1>7 DEF ReadRef, Goto, TypeOK, AttemptOf, Steps, ExpectsTip
<1>8. CASE Build(c)
    BY <1>1, <1>8 DEF Build, Goto, TypeOK, AttemptOf, Steps, ExpectsTip, NewCommit
<1>9. CASE UpdateRef(c) \/ Crash(c)
    <2>1. /\ req' = req /\ seen' = seen /\ next' = next /\ attempt' = attempt
          /\ height' = height /\ phase'[c] # "idle" /\ phase[c] # "idle"
        BY <1>9 DEF UpdateRef, Crash, Goto, TypeOK, Steps
    <2>2. IsAncestor(branch, branch') /\ branch' \in Hash /\ Len(branch') >= Len(branch)
          /\ RootsIn(branch) \subseteq RootsIn(branch')
        BY <1>2, Growth, LenProperties DEF Hash, IsAncestor
    <2>3. IsAncestor(req[c].tip, branch')
        BY <1>1, <1>2, <1>3, <2>1, <2>2, AncestorTrans DEF Hash, AttemptOf
    <2>4. moves'[c] > 0 => req[c].root \in RootsIn(branch')
        <3>1. CASE moves'[c] = moves[c]
            BY <1>1, <2>2, <3>1 DEF AttemptOf
        <3>2. CASE phase[c] = "update" /\ branch' = next[c]
            BY <1>2, <3>2, Built, RootsInAppend
        <3>3. CASE UpdateRef(c)
            BY <3>1, <3>2, <3>3, UpdateRefEndsAre DEF UpdateRef, TypeOK
        <3>4. CASE Crash(c)
            BY <3>1, <3>2, <3>4 DEF Crash, TypeOK
        <3> QED  BY <1>9, <3>3, <3>4
    <2>5. CASE phase'[c] \notin Steps
        BY <2>1, <2>3, <2>4, <2>5 DEF AttemptOf, Steps
    <2>6. CASE phase'[c] \in Steps
        <3>1. UpdateRef(c) /\ phase[c] = "update" /\ phase'[c] = "probe"
            BY <1>9, <2>6 DEF UpdateRef, Crash, Goto, TypeOK, Steps
        <3>2. /\ exit'[c] = "conflict" => branch' # seen[c]
              /\ moves'[c] > 0 => exit'[c] = "lost"
            <4>1. moves[c] = 0
                BY <1>1, <1>2, <3>1 DEF AttemptOf
            <4> QED  BY <3>1, <4>1, UpdateRefEndsAre DEF UpdateRef, Goto, TypeOK
        <3>3. /\ seen[c] # NoRef
              /\ IsAncestor(seen[c], branch')
              /\ Len(seen[c]) >= height[c] + attempt[c] - 1
              /\ ExpectsTip(c) => seen[c] = req[c].tip
              /\ req[c].root \notin RootsIn(seen[c])
              /\ \E t \in Stamps : next[c] = Append(seen[c], NewCommit(c, t))
              /\ Len(branch') >= height[c] + attempt[c] - 1
            <4>1. IsAncestor(seen[c], branch)
                BY <1>1, <3>1 DEF AttemptOf
            <4>2. IsAncestor(seen[c], branch')
                BY <1>2, <2>2, <4>1, AncestorTrans DEF Hash
            <4>3. Len(branch') \in Nat /\ Len(branch) >= height[c] + attempt[c] - 1
                BY <1>1, <2>2, <3>1, LenProperties DEF AttemptOf, Steps, Hash
            <4> QED  BY <1>1, <1>2, <2>2, <3>1, <4>2, <4>3 DEF AttemptOf
        <3> QED
            BY <2>1, <2>3, <2>4, <3>1, <3>2, <3>3 DEF AttemptOf, ExpectsTip, NewCommit, Steps
    <2> QED  BY <2>5, <2>6
<1>10. CASE Probe(c)
    <2>1. /\ phase[c] = "probe" /\ phase'[c] # "idle"
          /\ branch' = branch /\ req' = req /\ moves' = moves /\ height' = height
          /\ exit' = exit
        BY <1>10 DEF Probe, LoseRace, Goto, TypeOK
    <2>2. CASE phase'[c] \notin Steps
        BY <1>1, <2>1, <2>2 DEF AttemptOf, Steps
    <2>3. CASE phase'[c] \in Steps
        <3>1. /\ phase'[c] = "read" /\ attempt'[c] = attempt[c] + 1
              /\ branch # seen[c] \/ exit[c] = "conflict"
            BY <1>10, <2>3, ProbeVerdictsAre DEF Probe, LoseRace, Goto, TypeOK, Steps
        <3>2. branch # seen[c] /\ IsAncestor(seen[c], branch)
              /\ Len(seen[c]) >= height[c] + attempt[c] - 1
            BY <1>1, <2>1, <3>1 DEF AttemptOf
        <3>3. Len(seen[c]) < Len(branch)
            BY <1>2, <3>2, ProperAncestorIsLower DEF Hash
        <3>4. Len(branch) >= height[c] + attempt'[c] - 1
            BY <1>2, <3>1, <3>2, <3>3
        <3> QED  BY <1>1, <2>1, <3>1, <3>4 DEF AttemptOf, Steps
    <2> QED  BY <2>2, <2>3
<1>11. CASE GitFails(c)
    BY <1>1, <1>11 DEF GitFails, Goto, TypeOK, AttemptOf, Steps
<1>12. CASE CallUnchanged(c)
    BY <1>12, AttemptSurvives
<1> QED
    BY <1>5, <1>6, <1>7, <1>8, <1>9, <1>10, <1>11, <1>12, StepOf DEF Advance

-----------------------------------------------------------------------------
(* The theorems. *)

LEMMA InvInit == Init => IInv
<1> SUFFICES ASSUME Init PROVE IInv
    OBVIOUS
<1>1. TypeOK
    BY TypeInit
<1>2. /\ branch = NoRef /\ Len(branch) = 0
      /\ \A c \in Calls : phase[c] = "idle" /\ moves[c] = 0 /\ attempt[c] = 1
    BY DEF Init, NoRef
<1>3. OneCommitPerRecord
    BY <1>2 DEF OneCommitPerRecord
<1>4. SuccessIsDurable /\ MovesAtMostOnce /\ GivingUpNeedsContention /\ ErrorsLeaveNoTrace
    BY <1>2 DEF SuccessIsDurable, MovesAtMostOnce, GivingUpNeedsContention, ErrorsLeaveNoTrace,
                Verdicts
<1>5. AttemptInv
    BY <1>2 DEF AttemptInv, AttemptOf, Steps
<1> QED  BY <1>1, <1>3, <1>4, <1>5 DEF IInv

LEMMA InvStep ==
    ASSUME IInv, [Next]_vars
    PROVE  IInv'
BY TypeStep, OneCommitStep, SuccessStep, MovesStep, GivingUpStep, ErrorsStep, AttemptStep DEF IInv

(* The invariants hold together in every reachable state. *)
THEOREM InvCorrect == Spec => []IInv
<1>1. IInv /\ [Next]_vars => IInv'
    BY InvStep
<1> QED  BY <1>1, InvInit, PTL DEF Spec

(* However many calls race, retry, lose answers or die, the branch never holds
   two commits of one record. *)
THEOREM OneCommitPerRecordHolds == Spec => []OneCommitPerRecord
<1>1. IInv => OneCommitPerRecord
    BY DEF IInv
<1> QED  BY <1>1, InvCorrect, PTL

(* A WriteRecord that returned success is, and stays, on the branch. *)
THEOREM SuccessIsDurableHolds == Spec => []SuccessIsDurable
<1>1. IInv => SuccessIsDurable
    BY DEF IInv
<1> QED  BY <1>1, InvCorrect, PTL

(* No WriteRecord publishes its record twice. *)
THEOREM MovesAtMostOnceHolds == Spec => []MovesAtMostOnce
<1>1. IInv => MovesAtMostOnce
    BY DEF IInv
<1> QED  BY <1>1, InvCorrect, PTL

(* ErrTipChanged means what it says, for every bound on the attempts. *)
THEOREM GivingUpNeedsContentionHolds == Spec => []GivingUpNeedsContention
<1>1. IInv => GivingUpNeedsContention
    BY DEF IInv
<1> QED  BY <1>1, InvCorrect, PTL

(* An error means that nothing was published, or that git's answer was lost. *)
THEOREM ErrorsLeaveNoTraceHolds == Spec => []ErrorsLeaveNoTrace
<1>1. IInv => ErrorsLeaveNoTrace
    BY DEF IInv
<1> QED  BY <1>1, InvCorrect, PTL

(* Every attempt in progress rests on facts no other call can take away. *)
THEOREM AttemptInvHolds == Spec => []AttemptInv
<1>1. IInv => AttemptInv
    BY DEF IInv
<1> QED  BY <1>1, InvCorrect, PTL

(* No step of any call rewrites history. *)
THEOREM AppendOnlyHolds == Spec => AppendOnly
<1>1. IInv /\ [Next]_vars
        => [IsAncestor(branch, branch') /\ Len(branch') <= Len(branch) + 1]_branch
    BY Growth DEF IInv
<1> QED  BY <1>1, InvCorrect, PTL DEF Spec, AppendOnly

-----------------------------------------------------------------------------
(* The records of a branch, read back. *)

(* hash is a branch on which no record root occurs twice. *)
OneCommit(hash) == \A i, j \in 1..Len(hash) : hash[i].root = hash[j].root => i = j

(* The record of a root is the one commit that holds it. *)
LEMMA RecordInIs ==
    ASSUME NEW h \in Hash, OneCommit(h), NEW i \in 1..Len(h)
    PROVE  RecordIn(h, h[i].root) = h[i]
<1> DEFINE j == CHOOSE n \in 1..Len(h) : h[n].root = h[i].root
<1>1. j \in 1..Len(h) /\ h[j].root = h[i].root
    BY Zenon
<1>2. j = i
    <2> HIDE DEF j
    <2> QED  BY <1>1 DEF OneCommit
<1> QED  BY <1>2 DEF RecordIn

(* As the branch grows, the records it had stay the same. *)
LEMMA RecordInAncestor ==
    ASSUME NEW h \in Hash, NEW b \in Hash, IsAncestor(h, b), OneCommit(b)
    PROVE  /\ OneCommit(h)
           /\ \A root \in RootsIn(h) :
                root \in RootsIn(b) /\ RecordIn(b, root) = RecordIn(h, root)
<1>1. Len(h) \in Nat /\ Len(b) \in Nat /\ Len(h) <= Len(b)
    BY LenProperties DEF Hash, IsAncestor
<1>2. \A i \in 1..Len(h) : i \in 1..Len(b) /\ h[i] = b[i]
    BY <1>1 DEF IsAncestor
<1>3. OneCommit(h)
    BY <1>2 DEF OneCommit
<1>4. ASSUME NEW root \in RootsIn(h)
      PROVE  root \in RootsIn(b) /\ RecordIn(b, root) = RecordIn(h, root)
    <2>1. PICK i \in 1..Len(h) : h[i].root = root
        BY DEF RootsIn
    <2>2. RecordIn(h, root) = h[i]
        BY <1>3, <2>1, RecordInIs
    <2>3. RecordIn(b, root) = b[i]
        BY <1>2, <2>1, RecordInIs
    <2> QED  BY <1>2, <2>2, <2>3, RootsInAncestor
<1> QED  BY <1>3, <1>4

(* A new commit brings its record, under a root that was free. *)
LEMMA RecordInAppend ==
    ASSUME NEW h \in Hash, NEW x \in Commit, OneCommit(Append(h, x)), x.root # Sentinel
    PROVE  /\ RootsIn(Append(h, x)) = RootsIn(h) \cup {x.root}
           /\ RecordIn(Append(h, x), x.root) = x
           /\ \A root \in RootsIn(h) : RecordIn(Append(h, x), root) = RecordIn(h, root)
<1>1. /\ Append(h, x) \in Hash /\ IsAncestor(h, Append(h, x))
      /\ Len(Append(h, x)) = Len(h) + 1 /\ Len(h) \in Nat
      /\ Append(h, x)[Len(h) + 1] = x
    BY AncestorAppend, LenProperties DEF Hash
<1>2. RecordIn(Append(h, x), Append(h, x)[Len(h) + 1].root) = Append(h, x)[Len(h) + 1]
    <2> DEFINE b == Append(h, x)
               n == Len(h) + 1
    <2>1. b \in Hash /\ OneCommit(b) /\ n \in 1..Len(b)
        BY <1>1
    <2> HIDE DEF b, n
    <2>2. RecordIn(b, b[n].root) = b[n]
        BY <2>1, RecordInIs
    <2> QED  BY <2>2 DEF b, n
<1> QED  BY <1>1, <1>2, RootsInAppend, RecordInAncestor

(* A call that returned success named a commit, not the absence of one. *)
OkNamesCommit == \A c \in Calls : phase[c] = "ok" => next[c] # NoRef

LEMMA OkNamesCommitStep ==
    ASSUME TypeOK, AttemptInv, OkNamesCommit, [Next]_vars
    PROVE  OkNamesCommit'
<1> SUFFICES ASSUME NEW c \in Calls, phase'[c] = "ok" PROVE next'[c] # NoRef
    BY DEF OkNamesCommit
<1>1. CASE phase[c] = "ok" /\ CallUnchanged(c)
    BY <1>1 DEF OkNamesCommit, CallUnchanged
<1>2. CASE UpdateRef(c) \/ Probe(c)
    <2>1. phase[c] \in {"update", "probe"} /\ next' = next
        BY <1>2 DEF UpdateRef, Probe
    <2>2. PICK x \in Commit : next[c] = Append(seen[c], x)
        BY <2>1, Built
    <2>3. seen[c] \in Hash
        BY DEF TypeOK
    <2> QED  BY <2>1, <2>2, <2>3, AppendProperties DEF Hash, NoRef
<1>3. ~Begin(c) /\ ~Validate(c) /\ ~ReadRef(c) /\ ~Build(c) /\ ~GitFails(c) /\ ~Crash(c)
    BY DEF Begin, Validate, ReadRef, Build, GitFails, Crash, Goto, TypeOK
<1> QED  BY <1>1, <1>2, <1>3, StepOf DEF Advance, CallUnchanged

(* What a call that returned success asked to store is stored. *)
Stored(c) ==
    /\ req[c].root \in RootsIn(branch)
    /\ RecordIn(branch, req[c].root).files = req[c].files

LEMMA OkIsStored ==
    ASSUME IInv, OkNamesCommit, NEW c \in Calls, phase[c] = "ok"
    PROVE  Stored(c)
<1> DEFINE n == Len(next[c])
<1>1. next[c] \in Hash /\ next[c] # NoRef /\ branch \in Hash /\ req[c] \in Request
    BY DEF IInv, TypeOK, OkNamesCommit
<1>2. n \in Nat \ {0} /\ Len(branch) \in Nat
    BY <1>1, EmptySeq, LenProperties DEF Hash, NoRef
<1>3. /\ IsAncestor(next[c], branch)
      /\ next[c][n].root = req[c].root /\ next[c][n].files = req[c].files
    BY DEF IInv, SuccessIsDurable
<1>4. n \in 1..Len(branch) /\ branch[n] = next[c][n]
    BY <1>2, <1>3 DEF IsAncestor
<1>5. RecordIn(branch, branch[n].root) = branch[n]
    BY <1>1, <1>4, RecordInIs DEF IInv, OneCommitPerRecord, OneCommit
<1>6. req[c].root # Sentinel
    BY <1>1, SentinelAssumption DEF Request
<1> QED  BY <1>3, <1>4, <1>5, <1>6 DEF Stored, RootsIn

-----------------------------------------------------------------------------
(* The branch implements RecordLog. *)

LogInv == IInv /\ OkNamesCommit

LEMMA LogInvStep == LogInv /\ [Next]_vars => LogInv'
BY InvStep, OkNamesCommitStep DEF LogInv, IInv

(* While the branch stays, the store does; and so does what was asked for. *)
LEMMA LogUnchanged ==
    ASSUME LogInv, [Next]_vars, NEW c \in Calls,
           phase[c] # "idle", req' = req,
           NEW v, phase' = [phase EXCEPT ![c] = v], v # "idle"
    PROVE  /\ LogAsked' = LogAsked
           /\ LogPhase' = [LogPhase EXCEPT ![c] = IF v \in Steps THEN "open" ELSE v]
           /\ branch' = branch => LogStore' = LogStore
BY DEF LogAsked, LogPhase, LogStore, LogInv, IInv, TypeOK

(* A call that publishes its commit stores its record. *)
LEMMA LogStores ==
    ASSUME LogInv, [Next]_vars, NEW c \in Calls,
           phase[c] = "update", branch = seen[c], branch' = next[c], req' = req,
           NEW v \in {"ok", "probe", "crashed"}, phase' = [phase EXCEPT ![c] = v]
    PROVE  Log!Store(c)
<1>1. PICK x \in Commit : /\ next[c] = Append(seen[c], x)
                          /\ x.root = req[c].root /\ x.files = req[c].files
                          /\ x.root # Sentinel /\ x.root \notin RootsIn(seen[c])
    BY Built DEF LogInv, IInv
<1>2. branch \in Hash /\ OneCommit(Append(branch, x))
    BY <1>1, LogInvStep DEF LogInv, IInv, TypeOK, OneCommitPerRecord, OneCommit
<1>3. /\ RootsIn(branch') = RootsIn(branch) \cup {x.root}
      /\ RecordIn(branch', x.root) = x
      /\ \A root \in RootsIn(branch) : RecordIn(branch', root) = RecordIn(branch, root)
    BY <1>1, <1>2, RecordInAppend
<1>4. LogAsked[c].root = x.root /\ LogAsked[c].files = x.files /\ LogPhase[c] = "open"
    BY <1>1 DEF LogAsked, LogPhase, Steps
<1>5. DOMAIN LogStore = RootsIn(branch)
    BY DEF LogStore
<1>6. LogStore' = [r \in RootsIn(branch) \cup {x.root} |->
                    IF r = x.root THEN x.files ELSE LogStore[r]]
    <2>1. \A r \in RootsIn(branch) : LogStore[r] = RecordIn(branch, r).files
        BY DEF LogStore
    <2> QED  BY <1>1, <1>3, <2>1 DEF LogStore
<1>7. LogAsked' = LogAsked /\ LogPhase' = [LogPhase EXCEPT ![c] = IF v \in Steps THEN "open" ELSE v]
    BY LogUnchanged
<1>8. LogPhase' = [LogPhase EXCEPT ![c] = IF v = "probe" THEN "open" ELSE v]
    BY <1>7 DEF Steps
<1> QED
    BY <1>1, <1>4, <1>5, <1>6, <1>7, <1>8 DEF Log!Store

(* A call that returns with the branch untouched reports, if it may. *)
LEMMA LogReports ==
    ASSUME LogInv, [Next]_vars, NEW c \in Calls,
           phase[c] \in Steps, branch' = branch, req' = req,
           NEW v \in Verdicts, phase' = [phase EXCEPT ![c] = v],
           v = "ok" => Stored(c), v = "exists" => req[c].root \in RootsIn(branch)
    PROVE  Log!Report(c)
<1>1. LogAsked[c].root = req[c].root /\ LogAsked[c].files = req[c].files
    BY DEF LogAsked, Steps
<1>2. LogPhase[c] = "open"
    BY DEF LogPhase
<1>3. DOMAIN LogStore = RootsIn(branch)
    BY DEF LogStore
<1>4. v = "ok" => LogStore[req[c].root] = req[c].files
    BY DEF Stored, LogStore
<1>5. v \notin Steps /\ v # "idle" /\ phase[c] # "idle"
    BY DEF Verdicts, Steps
<1>6. LogAsked' = LogAsked /\ LogStore' = LogStore /\ LogPhase' = [LogPhase EXCEPT ![c] = v]
    BY <1>5, LogUnchanged
<1>7. v \in Log!Reports(c, LogStore)
    BY <1>1, <1>3, <1>4 DEF Log!Reports, Log!Verdicts, Verdicts, Stored
<1> QED  BY <1>2, <1>6, <1>7 DEF Log!Report

(* Any other step of a running call is none of the store's concern. *)
LEMMA LogStutters ==
    ASSUME LogInv, [Next]_vars, NEW c \in Calls,
           phase[c] \in Steps, branch' = branch, req' = req,
           NEW s \in Steps, phase' = [phase EXCEPT ![c] = s]
    PROVE  UNCHANGED <<LogStore, LogAsked, LogPhase>>
<1>1. LogAsked' = LogAsked /\ LogStore' = LogStore
      /\ LogPhase' = [LogPhase EXCEPT ![c] = "open"]
    BY LogUnchanged DEF Steps
<1>2. LogPhase[c] = "open" /\ LogPhase = [d \in Calls |-> LogPhase[d]]
    BY DEF LogPhase
<1> QED  BY <1>1, <1>2

(* Every step maps to a step of RecordLog or to none. *)
LEMMA LogStep ==
    ASSUME LogInv, [Next]_vars
    PROVE  Log!Next \/ UNCHANGED <<LogStore, LogAsked, LogPhase>>
<1> DEFINE Mapped(c) == \/ Log!Ask(c) \/ Log!Store(c) \/ Log!Report(c)
                        \/ UNCHANGED <<LogStore, LogAsked, LogPhase>>
<1>0. TypeOK /\ AttemptInv
    BY DEF LogInv, IInv
<1>1. CASE CreateBranch
    <2>1. UNCHANGED <<phase, req>>
        BY <1>1 DEF CreateBranch
    <2>2. RootsIn(branch) = {} /\ RootsIn(branch') = {}
        BY <1>1 DEF CreateBranch, RootsIn, NoRef
    <2>3. LogStore' = LogStore
        BY <2>2 DEF LogStore
    <2> QED  BY <2>1, <2>3 DEF LogAsked, LogPhase
<1>2. ASSUME NEW c \in Calls, Begin(c) PROVE Log!Ask(c)
    <2>1. PICK r \in Roots, f \in Payloads, n \in 0..Len(branch) :
            req' = [req EXCEPT ![c] = [root |-> r, files |-> f, tip |-> SubSeq(branch, 1, n)]]
        BY <1>2 DEF Begin
    <2>2. LogPhase[c] = "idle" /\ LogPhase' = [LogPhase EXCEPT ![c] = "open"]
        BY <1>0, <1>2 DEF Begin, Goto, LogPhase, Steps, TypeOK
    <2>3. LogAsked' = [LogAsked EXCEPT ![c] = [root |-> r, files |-> f]]
        BY <1>0, <1>2, <2>1 DEF Begin, Goto, LogAsked, TypeOK
    <2>4. LogStore' = LogStore
        BY <1>2 DEF Begin, LogStore
    <2> QED  BY <2>2, <2>3, <2>4 DEF Log!Ask
<1>3. ASSUME NEW c \in Calls, Validate(c) PROVE Mapped(c)
    <2>1. CASE branch = NoRef
        BY <1>3, <2>1, LogReports DEF Validate, Goto, Steps, Verdicts
    <2>2. CASE branch # NoRef
        BY <1>3, <2>2, LogStutters DEF Validate, Goto, Steps
    <2> QED  BY <2>1, <2>2
<1>4. ASSUME NEW c \in Calls, ReadRef(c) PROVE Mapped(c)
    <2>1. PICK v \in {"notFound", "tipChanged", "build"} : phase' = [phase EXCEPT ![c] = v]
        BY <1>4 DEF ReadRef, Goto
    <2>2. phase[c] \in Steps /\ branch' = branch /\ req' = req
        BY <1>4 DEF ReadRef, Steps
    <2>3. CASE v = "build"
        BY <2>1, <2>2, <2>3, LogStutters DEF Steps
    <2>4. CASE v # "build"
        BY <2>1, <2>2, <2>4, LogReports DEF Verdicts
    <2> QED  BY <2>3, <2>4
<1>5. ASSUME NEW c \in Calls, Build(c) PROVE Mapped(c)
    <2>1. phase[c] \in Steps /\ branch' = branch /\ req' = req
        BY <1>5 DEF Build, Steps
    <2>2. CASE req[c].root \in RootsIn(seen[c])
        <3>1. RootsIn(seen[c]) \subseteq RootsIn(branch)
            BY <1>0, <1>5, RootsInAncestor DEF Build, AttemptInv, AttemptOf, TypeOK
        <3> QED  BY <1>5, <2>1, <2>2, <3>1, LogReports DEF Build, Goto, Verdicts
    <2>3. CASE req[c].root \notin RootsIn(seen[c])
        BY <1>5, <2>1, <2>3, LogStutters DEF Build, Goto, Steps
    <2> QED  BY <2>2, <2>3
<1>6. ASSUME NEW c \in Calls, UpdateRef(c) PROVE Mapped(c)
    <2>1. PICK end \in UpdateRefEnds(branch, next[c], seen[c], LostAck) :
            branch' = end.ref /\ Goto(c, IF end.exit = "ok" THEN "ok" ELSE "probe")
        BY <1>6 DEF UpdateRef
    <2>2. phase[c] = "update" /\ phase[c] \in Steps /\ req' = req
        BY <1>6 DEF UpdateRef, Steps
    <2>3. CASE branch = seen[c] /\ branch' = next[c]
        BY <2>1, <2>2, <2>3, LogStores DEF Goto
    <2>4. CASE branch' = branch /\ end.exit # "ok"
        BY <2>1, <2>2, <2>4, LogStutters DEF Goto, Steps
    <2> QED  BY <2>1, <2>3, <2>4, UpdateRefEndsAre
<1>7. ASSUME NEW c \in Calls, Probe(c) PROVE Mapped(c)
    <2>1. PICK verdict \in ProbeVerdicts(branch, next[c], seen[c], exit[c]) :
            \/ verdict = "applied" /\ Goto(c, "ok")
            \/ verdict = "conflict" /\ (Goto(c, "tipChanged") \/ Goto(c, "read"))
            \/ verdict = "unknown" /\ Goto(c, "unknown")
        BY <1>7 DEF Probe, LoseRace
    <2>2. phase[c] \in Steps /\ branch' = branch /\ req' = req
        BY <1>7 DEF Probe, Steps
    <2>3. CASE verdict = "applied"
        <3>1. PICK x \in Commit : /\ next[c] = Append(seen[c], x) /\ x.root # Sentinel
                                  /\ x.root = req[c].root /\ x.files = req[c].files
            BY <1>0, <1>7, Built DEF Probe
        <3>2. seen[c] \in Hash /\ branch = Append(seen[c], x) /\ OneCommit(branch)
            BY <2>3, <3>1, ProbeVerdictsAre
               DEF LogInv, IInv, TypeOK, OneCommitPerRecord, OneCommit
        <3>3. Stored(c)
            BY <3>1, <3>2, RecordInAppend DEF Stored
        <3> QED  BY <2>1, <2>2, <2>3, <3>3, LogReports DEF Goto, Verdicts
    <2>4. CASE Goto(c, "tipChanged") \/ Goto(c, "unknown")
        BY <2>2, <2>4, LogReports DEF Goto, Verdicts
    <2>5. CASE Goto(c, "read")
        BY <2>2, <2>5, LogStutters DEF Goto, Steps
    <2> QED  BY <2>1, <2>3, <2>4, <2>5
<1>8. ASSUME NEW c \in Calls, GitFails(c) PROVE Mapped(c)
    BY <1>8, LogReports DEF GitFails, Goto, Steps, Verdicts
<1>9. ASSUME NEW c \in Calls, Crash(c) PROVE Mapped(c)
    <2>1. CASE branch' = branch
        BY <1>9, <2>1, LogReports DEF Crash, Goto, Steps, Verdicts
    <2>2. CASE branch' # branch
        BY <1>9, <2>2, LogStores DEF Crash, Goto
    <2> QED  BY <2>1, <2>2
<1>10. CASE UNCHANGED vars
    BY <1>10 DEF vars, LogStore, LogAsked, LogPhase
<1> QED
    BY <1>1, <1>2, <1>3, <1>4, <1>5, <1>6, <1>7, <1>8, <1>9, <1>10
       DEF Next, Advance, Log!Next

(* Racing, retrying, dying calls on a Git reference implement a store that
   writes each record once, atomically, and never loses it. *)
THEOREM ImplementsLogHolds == Spec => ImplementsLog
<1>1. Init => LogInv /\ Log!Init
    <2> SUFFICES ASSUME Init PROVE LogInv /\ Log!Init
        OBVIOUS
    <2>1. LogInv
        BY InvInit DEF LogInv, OkNamesCommit, Init
    <2>2. RootsIn(branch) = {}
        BY DEF Init, RootsIn, NoRef
    <2>3. LogStore = [r \in {} |-> NoRequest]
        BY <2>2 DEF LogStore
    <2>4. LogAsked = [c \in Calls |-> NoRequest] /\ LogPhase = [c \in Calls |-> "idle"]
        BY DEF Init, LogAsked, LogPhase, Steps
    <2> QED  BY <2>1, <2>3, <2>4 DEF Log!Init
<1>2. LogInv /\ [Next]_vars => [Log!Next]_(Log!vars)
    BY LogStep DEF Log!vars
<1> QED  BY <1>1, <1>2, LogInvStep, PTL DEF Spec, ImplementsLog, Log!Spec
=============================================================================
