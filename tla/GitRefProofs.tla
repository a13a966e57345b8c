---------------------------- MODULE GitRefProofs ----------------------------
(***************************************************************************)
(* Facts about references and ancestry that the proofs about the modules   *)
(* built on GitRef rest on.                                                *)
(***************************************************************************)
EXTENDS GitRef, SequenceTheorems, TLAPS

(* Every commit is an ancestor of itself. *)
LEMMA AncestorRefl ==
    ASSUME NEW S, NEW h \in Seq(S)
    PROVE  IsAncestor(h, h)
BY DEF IsAncestor

(* Ancestry is transitive. *)
LEMMA AncestorTrans ==
    ASSUME NEW S, NEW h \in Seq(S), NEW i \in Seq(S), NEW j \in Seq(S),
           IsAncestor(h, i), IsAncestor(i, j)
    PROVE  IsAncestor(h, j)
BY DEF IsAncestor

(* No reference is an ancestor of everything. *)
LEMMA AncestorNoRef ==
    ASSUME NEW S, NEW h \in Seq(S)
    PROVE  IsAncestor(NoRef, h)
BY DEF IsAncestor, NoRef

(* A commit is an ancestor of its child. *)
LEMMA AncestorAppend ==
    ASSUME NEW S, NEW h \in Seq(S), NEW x \in S
    PROVE  /\ Append(h, x) \in Seq(S)
           /\ Len(Append(h, x)) = Len(h) + 1
           /\ Append(h, x)[Len(h) + 1] = x
           /\ \A i \in 1..Len(h) : Append(h, x)[i] = h[i]
           /\ IsAncestor(h, Append(h, x))
BY DEF IsAncestor

(* What is a prefix of the branch is an ancestor of it. *)
LEMMA AncestorSubSeq ==
    ASSUME NEW S, NEW h \in Seq(S), NEW n \in 0..Len(h)
    PROVE  SubSeq(h, 1, n) \in Seq(S) /\ IsAncestor(SubSeq(h, 1, n), h)
BY DEF IsAncestor

(* An ancestor of the same height is the commit itself. *)
LEMMA AncestorSameHeight ==
    ASSUME NEW S, NEW h \in Seq(S), NEW i \in Seq(S), IsAncestor(h, i), Len(h) >= Len(i)
    PROVE  h = i
<1>1. Len(h) = Len(i)
    BY LenProperties DEF IsAncestor
<1>2. \A k \in 1..Len(h) : h[k] = i[k]
    BY DEF IsAncestor
<1> QED  BY <1>1, <1>2, SeqEqual

(* An ancestor that is not the tip is strictly lower. *)
LEMMA ProperAncestorIsLower ==
    ASSUME NEW S, NEW h \in Seq(S), NEW i \in Seq(S), IsAncestor(h, i), h # i
    PROVE  Len(h) < Len(i)
BY AncestorSameHeight, LenProperties

(* The ways update-ref may end: it leaves the reference alone, or it moves it
   from the old value that was asked for to the new one; it exits zero only if
   it moved it, reports a conflict only if the old value was not there, and if
   it moved it, it says so or the answer is lost. *)
LEMMA UpdateRefEndsAre ==
    ASSUME NEW ref, NEW new, NEW old, NEW lostAck,
           NEW end \in UpdateRefEnds(ref, new, old, lostAck)
    PROVE  /\ end.ref = ref \/ (ref = old /\ end.ref = new)
           /\ end.exit \in {"ok", "conflict", "error", "lost"}
           /\ end.exit = "ok" => ref = old /\ end.ref = new
           /\ end.ref # ref => end.exit \in {"ok", "lost"}
           /\ end.exit = "conflict" => ref # old /\ end.ref = ref
<1>1. CASE ref = old
    BY <1>1 DEF UpdateRefEnds
<1>2. CASE ref # old
    BY <1>2 DEF UpdateRefEnds
<1> QED  BY <1>1, <1>2

(* What a probe's verdict tells about the reference as it was probed. *)
LEMMA ProbeVerdictsAre ==
    ASSUME NEW current, NEW new, NEW old, NEW end,
           NEW verdict \in ProbeVerdicts(current, new, old, end)
    PROVE  /\ verdict \in {"applied", "conflict", "unknown"}
           /\ verdict = "applied" => current = new
           /\ verdict = "conflict" => current # old \/ end = "conflict"
BY DEF ProbeVerdicts, ClassifyRefCASOutcome
=============================================================================
