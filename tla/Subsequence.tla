---------------------------- MODULE Subsequence ----------------------------
(***************************************************************************)
(* The subsequence of the elements that a loop over a sequence keeps:      *)
(* SelectSeq, with the test as a set instead of an operator, and written   *)
(* as a recursive function, so that facts about it can be proved.          *)
(***************************************************************************)
EXTENDS Naturals, Sequences

(* KeptOf(s, S)[i]: what is kept of the first i elements. *)
KeptOf(s, S) ==
    LET kept[i \in 0..Len(s)] ==
            IF i = 0 THEN <<>>
            ELSE IF s[i] \in S THEN Append(kept[i - 1], s[i]) ELSE kept[i - 1]
    IN  kept

Keep(s, S) == KeptOf(s, S)[Len(s)]
=============================================================================
