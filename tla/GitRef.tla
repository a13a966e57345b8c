------------------------------- MODULE GitRef -------------------------------
(***************************************************************************)
(* One Git reference as internal/git sees it through the git CLI.          *)
(*                                                                         *)
(* A commit of a linear branch is content-addressed: its hash is fixed by  *)
(* its own content and its parent's hash.  A hash is therefore modelled by *)
(* the sequence of commit contents from the root to it; two commits with   *)
(* the same parent and the same content ARE the same commit, and an        *)
(* ancestor is a prefix.  The empty sequence is the all-zero hash, which   *)
(* git's update-ref and for-each-ref both use for "no such reference".     *)
(***************************************************************************)
EXTENDS Naturals, Sequences

NoRef == << >>

(* hash is tip or an ancestor of it. *)
IsAncestor(hash, tip) ==
    /\ Len(hash) <= Len(tip)
    /\ \A i \in 1..Len(hash) : hash[i] = tip[i]

(* Mutant: update-ref without the old value replaces whatever is there. *)
UpdateRefBlindly(ref, new, old, lostAck) ==
    {[ref |-> new, exit |-> "ok"], [ref |-> ref, exit |-> "error"]}

(* How `git update-ref <ref> <new> <old>` may end, as updateRefCAS sees it:
   the reference afterwards, and whether the command exited zero ("ok"), or
   non-zero with stderr that isGitUpdateRefConflict recognises ("conflict")
   or not ("error": the .lock file is taken, the disk is full, a signal ...).
   With lostAck, the command may exit non-zero after it moved the reference;
   the caller cannot tell such a "lost" end from an "error". *)
UpdateRefEnds(ref, new, old, lostAck) ==
    IF ref = old
    THEN {[ref |-> new, exit |-> "ok"], [ref |-> ref, exit |-> "error"]}
            \cup (IF lostAck THEN {[ref |-> new, exit |-> "lost"]} ELSE {})
    ELSE {[ref |-> ref, exit |-> "conflict"], [ref |-> ref, exit |-> "error"]}

(* Mutants: an update that failed for another reason passes for a lost race;
   any move of the reference passes for one's own. *)
ClassifyWithoutUnknown(current, new, old) ==
    IF current = new THEN "applied" ELSE "conflict"

ClassifyAnyMove(current, new, old) ==
    IF current = old THEN "unknown" ELSE "applied"

(* What the reference, read again after a failed update, says of it. *)
ClassifyRefCASOutcome(current, new, old) ==
    CASE current = new                  -> "applied"
      [] current # new /\ current # old -> "conflict"
      [] current # new /\ current = old -> "unknown"

(* The verdicts of updateRefCAS after a non-zero exit: it probes the
   reference, and falls back on stderr only when the probe itself fails. *)
ProbeVerdicts(current, new, old, exit) ==
    {ClassifyRefCASOutcome(current, new, old),
     IF exit = "conflict" THEN "conflict" ELSE "unknown"}
=============================================================================
