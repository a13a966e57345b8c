-------------------------- MODULE RecordTreeProofs --------------------------
(***************************************************************************)
(* RecordTree, for every set of records and requests, every trees the      *)
(* branch may have had before, and every number of writes.                 *)
(*                                                                         *)
(* What a loop over a path keeps of it is defined by recursion over its    *)
(* length, so the facts about Keep are proved by induction:                *)
(* NatSetInduction derives it from the order of Nat being well founded.    *)
(*                                                                         *)
(* ReadsSeeWhatWasWritten is not inductive by itself: until the graft the  *)
(* record exists beside the branch only, so TreeInv also says what has     *)
(* been added to it and that its root is still free, and it describes what *)
(* is under a root (Stored) instead of what reading it returns.            *)
(***************************************************************************)
EXTENDS RecordTree, SequenceTheorems, WellFoundedInduction, NaturalsInduction, TLAPS

-----------------------------------------------------------------------------
(* What a loop keeps. *)

(* Induction, for sets of numbers. *)
LEMMA NatSetInduction ==
    ASSUME NEW T, 0 \in T, \A n \in Nat : n \in T => n + 1 \in T
    PROVE  \A n \in Nat : n \in T
<1> DEFINE R == OpToRel(<, Nat)
           Bad == Nat \ T
<1>1. IsWellFoundedOn(R, Nat)
    BY NatLessThanWellFounded
<1>2. SUFFICES ASSUME Bad # {} PROVE FALSE
    OBVIOUS
<1>3. PICK x \in Bad : \A y \in Bad : ~(<<y, x>> \in R)
    <2> HIDE DEF R
    <2> QED BY <1>1, <1>2, WFMin
<1>4. x # 0 /\ x - 1 \in Nat /\ x - 1 < x
    OBVIOUS
<1>5. <<x - 1, x>> \in R
    BY <1>4 DEF OpToRel
<1>6. x - 1 \in T
    BY <1>3, <1>4, <1>5
<1>7. (x - 1) + 1 = x
    BY <1>4
<1>8. (x - 1) + 1 \in T
    BY <1>4, <1>6
<1> QED BY <1>7, <1>8

(* The recursion of KeptOf has a solution, and KeptOf is it. *)
LEMMA KeptOfUnfolds ==
    ASSUME NEW s, NEW S, Len(s) \in Nat
    PROVE  /\ KeptOf(s, S)[0] = <<>>
           /\ \A i \in 1..Len(s) : KeptOf(s, S)[i] =
                IF s[i] \in S THEN Append(KeptOf(s, S)[i - 1], s[i]) ELSE KeptOf(s, S)[i - 1]
<1> DEFINE Solves(g, n) ==
                g = [i \in 0..n |->
                        IF i = 0 THEN <<>>
                        ELSE IF s[i] \in S THEN Append(g[i - 1], s[i]) ELSE g[i - 1]]
           T == {n \in Nat : \E g : Solves(g, n)}
<1>1. 0 \in T
    <2>1. Solves([i \in 0..0 |-> <<>>], 0)
        OBVIOUS
    <2> QED BY <2>1
<1>2. ASSUME NEW n \in Nat, n \in T PROVE n + 1 \in T
    <2>1. PICK g : Solves(g, n)
        BY <1>2
    <2> DEFINE last == IF s[n + 1] \in S THEN Append(g[n], s[n + 1]) ELSE g[n]
               h == [i \in 0..(n + 1) |-> IF i = n + 1 THEN last ELSE g[i]]
    <2>2. \A i \in 0..n : h[i] = g[i]
        OBVIOUS
    <2>3. \A i \in 0..n : g[i] = IF i = 0 THEN <<>>
                                 ELSE IF s[i] \in S THEN Append(g[i - 1], s[i]) ELSE g[i - 1]
        BY <2>1
    <2>4. \A i \in 0..(n + 1) : i # 0 => i - 1 \in 0..n
        OBVIOUS
    <2>5. h[n + 1] = last
        OBVIOUS
    <2>6. ASSUME NEW i \in 0..(n + 1)
          PROVE  h[i] = IF i = 0 THEN <<>>
                        ELSE IF s[i] \in S THEN Append(h[i - 1], s[i]) ELSE h[i - 1]
        <3>1. CASE i = n + 1
            <4>1. i # 0 /\ i - 1 = n /\ n \in 0..n
                BY <3>1
            <4> HIDE DEF h
            <4> QED BY <2>2, <2>5, <3>1, <4>1
        <3>2. CASE i # n + 1
            <4>1. i \in 0..n
                BY <3>2
            <4>2. i # 0 => i - 1 \in 0..n
                BY <2>4
            <4> HIDE DEF h
            <4> QED BY <2>2, <2>3, <4>1, <4>2
        <3> QED BY <3>1, <3>2
    <2>7. Solves(h, n + 1)
        <3>1. h = [i \in 0..(n + 1) |-> h[i]]
            OBVIOUS
        <3> HIDE DEF h
        <3> QED BY <2>6, <3>1
    <2> HIDE DEF Solves
    <2> QED BY <2>7
<1>3. \E g : Solves(g, Len(s))
    <2>1. \A n \in Nat : n \in T
        <3> HIDE DEF T
        <3> QED BY <1>1, <1>2, NatSetInduction
    <2> QED BY <2>1
<1>4. KeptOf(s, S) = CHOOSE g : Solves(g, Len(s))
    BY DEF KeptOf
<1>5. Solves(KeptOf(s, S), Len(s))
    <2> HIDE DEF Solves
    <2> QED BY <1>3, <1>4
<1> DEFINE g == KeptOf(s, S)
<1> HIDE DEF g
<1>6. Solves(g, Len(s))
    BY <1>5 DEF g
<1>7. \A i \in 0..Len(s) : g[i] = IF i = 0 THEN <<>>
                                  ELSE IF s[i] \in S THEN Append(g[i - 1], s[i]) ELSE g[i - 1]
    BY <1>6
<1>8. 0 \in 0..Len(s) /\ \A i \in 1..Len(s) : i \in 0..Len(s) /\ i # 0
    OBVIOUS
<1>9. g[0] = <<>>
    BY <1>7, <1>8
<1>10. \A i \in 1..Len(s) : g[i] = IF s[i] \in S THEN Append(g[i - 1], s[i]) ELSE g[i - 1]
    BY <1>7, <1>8
<1> QED BY <1>9, <1>10 DEF g

(* What is kept is a sequence of the elements of s. *)
LEMMA KeepType ==
    ASSUME NEW E, NEW s \in Seq(E), NEW S
    PROVE  /\ \A i \in 0..Len(s) : KeptOf(s, S)[i] \in Seq(E \cap S)
           /\ Keep(s, S) \in Seq(E \cap S)
<1> DEFINE g == KeptOf(s, S)
           n == Len(s)
           T == {i \in Nat : i <= n => g[i] \in Seq(E \cap S)}
<1>0. n \in Nat /\ \A i \in 1..n : s[i] \in E
    OBVIOUS
<1>1. g[0] = <<>> /\ \A i \in 1..n : g[i] = IF s[i] \in S THEN Append(g[i - 1], s[i]) ELSE g[i - 1]
    BY <1>0, KeptOfUnfolds
<1> HIDE DEF g, n
<1>2. 0 \in T
    <2>1. <<>> \in Seq(E \cap S)
        OBVIOUS
    <2> QED BY <1>0, <1>1, <2>1
<1>3. ASSUME NEW i \in Nat, i \in T PROVE i + 1 \in T
    <2> SUFFICES ASSUME i + 1 <= n PROVE g[i + 1] \in Seq(E \cap S)
        OBVIOUS
    <2>1. i + 1 \in 1..n /\ (i + 1) - 1 = i /\ i <= n
        BY <1>0
    <2>2. g[i] \in Seq(E \cap S)
        BY <1>3, <2>1
    <2>3. g[i + 1] = IF s[i + 1] \in S THEN Append(g[i], s[i + 1]) ELSE g[i]
        BY <1>1, <2>1
    <2>4. s[i + 1] \in E
        BY <1>0, <2>1
    <2> QED BY <2>2, <2>3, <2>4
<1>4. \A i \in Nat : i \in T
    <2> HIDE DEF T
    <2> QED BY <1>2, <1>3, NatSetInduction
<1>5. \A i \in 0..n : g[i] \in Seq(E \cap S)
    BY <1>0, <1>4
<1>6. g[n] \in Seq(E \cap S)
    BY <1>0, <1>5
<1> QED BY <1>5, <1>6 DEF g, n, Keep

(* The loop over s \o t is the loop over s followed by the loop over t. *)
LEMMA KeepConcat ==
    ASSUME NEW E, NEW s \in Seq(E), NEW t \in Seq(E), NEW S
    PROVE  Keep(s \o t, S) = Keep(s, S) \o Keep(t, S)
<1> DEFINE u == s \o t
           gs == KeptOf(s, S)
           gt == KeptOf(t, S)
           gu == KeptOf(u, S)
           m == Len(s)
           n == Len(t)
<1>0. /\ m \in Nat /\ n \in Nat /\ u \in Seq(E) /\ Len(u) = m + n
      /\ \A i \in 1..m : u[i] = s[i] /\ s[i] \in E
      /\ \A j \in 1..n : u[m + j] = t[j] /\ t[j] \in E
    BY ConcatProperties
<1>1. gs[0] = <<>> /\ \A i \in 1..m : gs[i] = IF s[i] \in S THEN Append(gs[i - 1], s[i]) ELSE gs[i - 1]
    BY <1>0, KeptOfUnfolds
<1>2. gt[0] = <<>> /\ \A i \in 1..n : gt[i] = IF t[i] \in S THEN Append(gt[i - 1], t[i]) ELSE gt[i - 1]
    BY <1>0, KeptOfUnfolds
<1>3. gu[0] = <<>> /\ \A i \in 1..(m + n) : gu[i] = IF u[i] \in S THEN Append(gu[i - 1], u[i]) ELSE gu[i - 1]
    <2> HIDE DEF u
    <2> QED BY <1>0, KeptOfUnfolds
<1>4. (\A i \in 0..n : gt[i] \in Seq(E \cap S)) /\ gs[m] \in Seq(E \cap S)
    BY KeepType DEF Keep
<1> DEFINE T == {i \in Nat : i <= m => gu[i] = gs[i]}
           Both(j) == gu[m + j] = gs[m] \o gt[j]
           V == {j \in Nat : j <= n => Both(j)}
<1> HIDE DEF u, gs, gt, gu, m, n
<1>5. 0 \in T
    BY <1>1, <1>3
<1>6. ASSUME NEW i \in Nat, i \in T PROVE i + 1 \in T
    <2> SUFFICES ASSUME i + 1 <= m PROVE gu[i + 1] = gs[i + 1]
        OBVIOUS
    <2>1. i + 1 \in 1..m /\ (i + 1) - 1 = i /\ i <= m /\ i + 1 \in 1..(m + n)
        BY <1>0
    <2>2. gu[i] = gs[i] /\ u[i + 1] = s[i + 1]
        BY <1>0, <1>6, <2>1
    <2>3. gu[i + 1] = IF u[i + 1] \in S THEN Append(gu[i], u[i + 1]) ELSE gu[i]
        BY <1>3, <2>1
    <2>4. gs[i + 1] = IF s[i + 1] \in S THEN Append(gs[i], s[i + 1]) ELSE gs[i]
        BY <1>1, <2>1
    <2> QED BY <2>2, <2>3, <2>4
<1>7. gu[m] = gs[m]
    <2>1. \A i \in Nat : i \in T
        <3> HIDE DEF T
        <3> QED BY <1>5, <1>6, NatSetInduction
    <2> QED BY <1>0, <2>1
<1>8. Both(0)
    <2>1. gs[m] \o <<>> = gs[m]
        BY <1>4, ConcatEmptySeq
    <2>2. m + 0 = m
        BY <1>0
    <2> QED BY <1>2, <1>7, <2>1, <2>2
<1>9. ASSUME NEW j \in Nat, j + 1 <= n, Both(j) PROVE Both(j + 1)
    <2>1. /\ j + 1 \in 1..n /\ (j + 1) - 1 = j /\ j <= n /\ j \in 0..n
          /\ m + (j + 1) \in 1..(m + n) /\ (m + (j + 1)) - 1 = m + j
        BY <1>0, <1>9
    <2>2. u[m + (j + 1)] = t[j + 1] /\ t[j + 1] \in E
        BY <1>0, <2>1
    <2>3. gu[m + (j + 1)] = IF t[j + 1] \in S THEN Append(gu[m + j], t[j + 1]) ELSE gu[m + j]
        BY <1>3, <2>1, <2>2
    <2>4. gt[j + 1] = IF t[j + 1] \in S THEN Append(gt[j], t[j + 1]) ELSE gt[j]
        BY <1>2, <2>1
    <2>5. ASSUME t[j + 1] \in S PROVE Append(gs[m] \o gt[j], t[j + 1]) = gs[m] \o Append(gt[j], t[j + 1])
        <3> DEFINE x == gs[m]
                   y == gt[j]
                   e == t[j + 1]
        <3>1. x \in Seq(E \cap S) /\ y \in Seq(E \cap S) /\ e \in E \cap S
            BY <1>4, <2>1, <2>2, <2>5
        <3> HIDE DEF x, y, e
        <3>2. x \o y \in Seq(E \cap S) /\ <<e>> \in Seq(E \cap S)
            BY <3>1, ConcatProperties
        <3>3. Append(x \o y, e) = (x \o y) \o <<e>> /\ Append(y, e) = y \o <<e>>
            BY <3>1, <3>2, AppendIsConcat
        <3>4. (x \o y) \o <<e>> = x \o (y \o <<e>>)
            BY <3>1, <3>2, ConcatAssociative
        <3>5. Append(x \o y, e) = x \o Append(y, e)
            BY <3>3, <3>4
        <3> QED BY <3>5 DEF x, y, e
    <2> QED BY <1>9, <2>3, <2>4, <2>5
<1>10. gu[m + n] = gs[m] \o gt[n]
    <2> HIDE DEF Both
    <2>1. 0 \in V
        BY <1>8
    <2>2. ASSUME NEW j \in Nat, j \in V PROVE j + 1 \in V
        <3>1. j + 1 <= n => j <= n
            BY <1>0
        <3> QED BY <1>9, <2>2, <3>1
    <2>3. \A j \in Nat : j \in V
        <3> HIDE DEF V
        <3> QED BY <2>1, <2>2, NatSetInduction
    <2>4. Both(n)
        BY <1>0, <2>3
    <2> QED BY <2>4 DEF Both
<1> QED BY <1>0, <1>10 DEF Keep, u, gs, gt, gu, m, n

LEMMA KeepOfOne == ASSUME NEW e, NEW S PROVE Keep(<<e>>, S) = IF e \in S THEN <<e>> ELSE <<>>
<1> DEFINE s == <<e>>
<1>1. Len(s) = 1 /\ s[1] = e /\ Append(<<>>, e) = <<e>>
    OBVIOUS
<1> HIDE DEF s
<1>2. KeptOf(s, S)[1] = IF e \in S THEN Append(<<>>, e) ELSE <<>>
    <2>1. Len(s) \in Nat /\ 1 \in 1..Len(s) /\ 1 - 1 = 0
        BY <1>1
    <2>2. KeptOf(s, S)[0] = <<>>
        BY <2>1, KeptOfUnfolds
    <2>3. KeptOf(s, S)[1] = IF s[1] \in S THEN Append(KeptOf(s, S)[1 - 1], s[1]) ELSE KeptOf(s, S)[1 - 1]
        BY <2>1, KeptOfUnfolds
    <2> QED BY <1>1, <2>1, <2>2, <2>3
<1>3. Keep(s, S) = IF e \in S THEN <<e>> ELSE <<>>
    BY <1>1, <1>2 DEF Keep
<1> QED BY <1>3 DEF s

(* A loop that keeps nothing, and one that keeps everything. *)
LEMMA KeepNone ==
    ASSUME NEW E, NEW s \in Seq(E), NEW S, E \cap S = {}
    PROVE  Keep(s, S) = <<>>
<1>1. Keep(s, S) \in Seq({})
    BY KeepType
<1> QED BY <1>1

LEMMA KeepAll ==
    ASSUME NEW E, NEW s \in Seq(E), NEW S, E \subseteq S
    PROVE  Keep(s, S) = s
<1> DEFINE g == KeptOf(s, S)
           n == Len(s)
           Full(i) == Len(g[i]) = i /\ \A j \in 1..i : g[i][j] = s[j]
           T == {i \in Nat : i <= n => Full(i)}
<1>0. n \in Nat /\ \A i \in 1..n : s[i] \in S
    OBVIOUS
<1>1. g[0] = <<>> /\ \A i \in 1..n : g[i] = IF s[i] \in S THEN Append(g[i - 1], s[i]) ELSE g[i - 1]
    BY <1>0, KeptOfUnfolds
<1>2. \A i \in 0..n : g[i] \in Seq(E \cap S)
    BY KeepType
<1> HIDE DEF g, n
<1>3. 0 \in T
    <2>1. Full(0)
        BY <1>1
    <2> QED BY <2>1
<1>4. ASSUME NEW i \in Nat, i + 1 <= n, Full(i) PROVE Full(i + 1)
    <2>1. i + 1 \in 1..n /\ (i + 1) - 1 = i /\ i \in 0..n
        BY <1>0, <1>4
    <2>2. g[i + 1] = Append(g[i], s[i + 1])
        BY <1>0, <1>1, <2>1
    <2> DEFINE x == g[i]
    <2>3. x \in Seq(E \cap S) /\ Len(x) = i /\ \A j \in 1..i : x[j] = s[j]
        BY <1>2, <1>4, <2>1
    <2> HIDE DEF x
    <2>4. Len(Append(x, s[i + 1])) = i + 1 /\ \A j \in 1..(i + 1) : Append(x, s[i + 1])[j] = s[j]
        BY <2>3
    <2> QED BY <2>2, <2>4 DEF x
<1>5. \A i \in Nat : i \in T
    <2> HIDE DEF Full
    <2>1. ASSUME NEW i \in Nat, i \in T PROVE i + 1 \in T
        <3>1. i + 1 <= n => i <= n
            BY <1>0
        <3> QED BY <1>4, <2>1, <3>1
    <2> HIDE DEF T
    <2> QED BY <1>3, <2>1, NatSetInduction
<1>6. Full(n) /\ g[n] \in Seq(E \cap S)
    BY <1>0, <1>2, <1>5
<1>7. g[n] = s
    <2>1. g[n] \in Seq(E) /\ Len(g[n]) = Len(s) /\ \A j \in 1..Len(g[n]) : g[n][j] = s[j]
        <3>1. g[n] \in Seq(E)
            BY <1>6
        <3> QED BY <1>6, <3>1 DEF n
    <2> QED BY <2>1, SeqEqual
<1> QED BY <1>7 DEF Keep, g, n

(* A sequence, around one of its elements. *)
UpTo(s, i) == SubSeq(s, 1, i - 1)
From(s, i) == SubSeq(s, i + 1, Len(s))

LEMMA Split ==
    ASSUME NEW E, NEW s \in Seq(E), NEW i \in 1..Len(s)
    PROVE  /\ UpTo(s, i) \in Seq(E) /\ From(s, i) \in Seq(E) /\ <<s[i]>> \in Seq(E)
           /\ s = UpTo(s, i) \o (<<s[i]>> \o From(s, i))
           /\ Len(UpTo(s, i)) = i - 1 /\ \A j \in 1..(i - 1) : UpTo(s, i)[j] = s[j]
           /\ Len(From(s, i)) = Len(s) - i /\ \A j \in 1..(Len(s) - i) : From(s, i)[j] = s[i + j]
<1>0. /\ Len(s) \in Nat /\ i \in Nat /\ 1 <= i /\ i <= Len(s) /\ i \in Int /\ i - 1 \in Int
      /\ \A j \in 1..Len(s) : s[j] \in E
    OBVIOUS
<1>1. UpTo(s, i) \in Seq(E) /\ Len(UpTo(s, i)) = i - 1 /\ \A j \in 1..(i - 1) : UpTo(s, i)[j] = s[j]
    <2>1. \A j \in 1..(i - 1) : s[j] \in E
        BY <1>0
    <2>2. /\ SubSeq(s, 1, i - 1) \in Seq(E)
          /\ Len(SubSeq(s, 1, i - 1)) = (IF 1 <= i - 1 THEN (i - 1) - 1 + 1 ELSE 0)
          /\ \A j \in 1..((i - 1) - 1 + 1) : SubSeq(s, 1, i - 1)[j] = s[1 + j - 1]
        BY <1>0, <2>1, SubSeqProperties
    <2>3. (i - 1) - 1 + 1 = i - 1 /\ \A j \in 1..(i - 1) : 1 + j - 1 = j
        BY <1>0
    <2> QED BY <1>0, <2>2, <2>3 DEF UpTo
<1>2. From(s, i) \in Seq(E) /\ Len(From(s, i)) = Len(s) - i /\ \A j \in 1..(Len(s) - i) : From(s, i)[j] = s[i + j]
    <2> DEFINE n == Len(s)
               y == SubSeq(s, i + 1, n)
    <2>0. n \in Int /\ i + 1 \in Int
        BY <1>0
    <2>1. \A j \in (i + 1)..n : s[j] \in E
        BY <1>0
    <2>2. /\ y \in Seq(E)
          /\ Len(y) = (IF i + 1 <= n THEN n - (i + 1) + 1 ELSE 0)
          /\ \A j \in 1..(n - (i + 1) + 1) : y[j] = s[(i + 1) + j - 1]
        <3> HIDE DEF n
        <3> QED BY <2>0, <2>1, SubSeqProperties
    <2>3. n - (i + 1) + 1 = n - i /\ i <= n
        BY <1>0
    <2> HIDE DEF n, y
    <2>4. Len(y) = n - i
        BY <1>0, <2>0, <2>2, <2>3
    <2>5. ASSUME NEW j \in 1..(n - i) PROVE y[j] = s[i + j]
        <3>1. (i + 1) + j - 1 = i + j
            BY <1>0
        <3> QED BY <2>2, <2>3, <3>1
    <2> QED BY <2>2, <2>4, <2>5 DEF From, n, y
<1>3. <<s[i]>> \in Seq(E)
    BY <1>0
<1>4. s = UpTo(s, i) \o (<<s[i]>> \o From(s, i))
    <2>1. SubSeq(s, i, Len(s)) = <<s[i]>> \o SubSeq(s, i + 1, Len(s))
        <3>1. i \in 1..Len(s) /\ Len(s) \in i..Len(s)
            BY <1>0
        <3> QED BY <3>1, SubSeqRecursiveFirst
    <2>2. SubSeq(s, 1, i - 1) \o SubSeq(s, (i - 1) + 1, Len(s)) = SubSeq(s, 1, Len(s))
        <3>1. 1 \in 1..(Len(s) + 1) /\ i - 1 \in (1 - 1)..Len(s) /\ Len(s) \in (i - 1)..Len(s)
            BY <1>0
        <3> QED BY <3>1, ConcatAdjacentSubSeq
    <2>3. (i - 1) + 1 = i
        BY <1>0
    <2>4. SubSeq(s, 1, Len(s)) = s
        BY SubSeqFull
    <2> QED BY <2>1, <2>2, <2>3, <2>4 DEF UpTo, From
<1> QED BY <1>1, <1>2, <1>3, <1>4

LEMMA KeepAround ==
    ASSUME NEW E, NEW s \in Seq(E), NEW i \in 1..Len(s), NEW S
    PROVE  Keep(s, S) =
             Keep(UpTo(s, i), S) \o ((IF s[i] \in S THEN <<s[i]>> ELSE <<>>) \o Keep(From(s, i), S))
<1> DEFINE x == UpTo(s, i)
           y == From(s, i)
           e == s[i]
<1>1. x \in Seq(E) /\ y \in Seq(E) /\ <<e>> \in Seq(E) /\ s = x \o (<<e>> \o y)
    BY Split
<1> HIDE DEF x, y, e
<1> DEFINE z == <<e>> \o y
           one == <<e>>
<1>2. z \in Seq(E) /\ one \in Seq(E) /\ s = x \o z /\ z = one \o y
    BY <1>1, ConcatProperties
<1>3. Keep(s, S) = Keep(x, S) \o Keep(z, S)
    <2> HIDE DEF z, one
    <2>0. x \in Seq(E) /\ z \in Seq(E)
        BY <1>1, <1>2
    <2>1. Keep(x \o z, S) = Keep(x, S) \o Keep(z, S)
        BY <2>0, KeepConcat
    <2> QED BY <1>2, <2>1
<1>4. Keep(z, S) = Keep(one, S) \o Keep(y, S)
    <2> HIDE DEF one
    <2>1. Keep(one \o y, S) = Keep(one, S) \o Keep(y, S)
        BY <1>1, <1>2, KeepConcat
    <2> HIDE DEF z
    <2> QED BY <1>2, <2>1
<1>5. Keep(one, S) = IF e \in S THEN <<e>> ELSE <<>>
    BY KeepOfOne
<1>6. Keep(s, S) = Keep(x, S) \o ((IF e \in S THEN <<e>> ELSE <<>>) \o Keep(y, S))
    <2> HIDE DEF z, one
    <2> QED BY <1>3, <1>4, <1>5
<1> QED BY <1>6 DEF x, y, e

(* Nothing is kept only if there is nothing to keep. *)
LEMMA KeepEmptyIff ==
    ASSUME NEW E, NEW s \in Seq(E), NEW S
    PROVE  Keep(s, S) = <<>> <=> \A i \in 1..Len(s) : s[i] \notin S
<1>1. ASSUME \A i \in 1..Len(s) : s[i] \notin S PROVE Keep(s, S) = <<>>
    <2>1. s \in Seq(E \ S)
        BY <1>1
    <2> QED BY <2>1, KeepNone
<1>2. ASSUME NEW i \in 1..Len(s), s[i] \in S PROVE Keep(s, S) # <<>>
    <2> DEFINE x == Keep(UpTo(s, i), S)
               y == Keep(From(s, i), S)
    <2>1. x \in Seq(E \cap S) /\ y \in Seq(E \cap S) /\ s[i] \in E \cap S
        <3>1. UpTo(s, i) \in Seq(E) /\ From(s, i) \in Seq(E)
            BY Split
        <3>2. s[i] \in E
            OBVIOUS
        <3> QED BY <1>2, <3>1, <3>2, KeepType
    <2>2. Keep(s, S) = x \o (<<s[i]>> \o y)
        BY <1>2, KeepAround
    <2> HIDE DEF x, y
    <2>3. <<s[i]>> \o y \in Seq(E \cap S) /\ <<s[i]>> \o y # <<>>
        <3>1. <<s[i]>> \in Seq(E \cap S) /\ <<s[i]>> # <<>>
            BY <2>1
        <3> QED BY <2>1, <3>1, ConcatProperties, ConcatEqualIffEmpty
    <2>4. x \o (<<s[i]>> \o y) # <<>>
        BY <2>1, <2>3, ConcatEqualIffEmpty
    <2> QED BY <2>2, <2>4
<1> QED BY <1>1, <1>2

-----------------------------------------------------------------------------
(* The paths of a request. *)

PathOf(i) == Clean(request[i].path)
Added == Len(request) - Len(files)

(* No two of the first n paths are in each other's way. *)
Apart(n) == \A i, j \in 1..n : ~IsStrictPrefix(PathOf(i), PathOf(j))

(* The record so far has the files of the request that were added, in the order
   of the request; the others are still to come. *)
PathsInv ==
    /\ request \in Seq(ToSet(request))
    /\ writing # NoRecord =>
          /\ RequestOK(request)
          /\ files \in Seq(ToSet(request)) /\ Len(files) <= Len(request)
          /\ \A i \in 1..Len(files) : files[i] = request[Added + i]
          /\ DOMAIN record = {PathOf(i) : i \in 1..Added}
          /\ Apart(Added)
    /\ RefusedIffColliding

LEMMA PathsInvStep == PathsInv /\ [TreeNext]_treeVars => PathsInv'
<1> SUFFICES ASSUME PathsInv, [TreeNext]_treeVars PROVE PathsInv'
  OBVIOUS
<1> DEFINE n == Len(request)
           d == Added
           collide == \E i, j \in 1..n : IsStrictPrefix(PathOf(i), PathOf(j))
<1>0. request \in Seq(ToSet(request)) /\ n \in Nat /\ DOMAIN request = 1..n
  BY DEF PathsInv
<1>1. RefusedIffColliding <=> /\ result = "ok" => RequestOK(request) /\ ~collide
                              /\ result = "collision" => collide
  BY <1>0 DEF RefusedIffColliding, PathOf
<1>2. ASSUME NEW r \in Records, NEW req \in Requests, BeginWrite(r, req) PROVE PathsInv'
  <2>1. CASE request' = <<>> /\ writing' = NoRecord /\ result' \notin {"ok", "collision"}
    BY <2>1 DEF PathsInv, RefusedIffColliding, ToSet
  <2>2. CASE RequestOK(req) /\ request' = req /\ writing' = r /\ files' = req
             /\ record' = Empty /\ result' = "none"
    <3>1. req \in Seq(ToSet(req))
      BY RequestsAssumption
    <3>2. Added' = 0
      BY <2>2, <3>1 DEF Added
    <3>3. DOMAIN record' = {}
      BY <2>2 DEF Empty
    <3> QED BY <2>2, <3>1, <3>2, <3>3 DEF PathsInv, Apart, RefusedIffColliding
  <2> QED BY <1>2, <2>1, <2>2 DEF BeginWrite, WriteEnds
<1>3. CASE AddFile
  <2> DEFINE p == Clean(Head(files).path)
  <2>0. /\ RequestOK(request) /\ files \in Seq(ToSet(request)) /\ files # <<>> /\ Len(files) <= n
        /\ \A i \in 1..Len(files) : files[i] = request[d + i]
        /\ DOMAIN record = {PathOf(i) : i \in 1..d}
        /\ Apart(d)
    BY <1>3 DEF AddFile, PathsInv
  <2>1. Len(files) \in Nat \ {0} /\ d \in Nat /\ d + 1 \in 1..n /\ d = n - Len(files)
    BY <1>0, <2>0 DEF Added
  <2>2. p = PathOf(d + 1)
    BY <2>0, <2>1 DEF PathOf
  <2>3. \A i \in 1..d : PathOf(i) # p
    <3>1. \A i, j \in 1..n : i # j => PathOf(i) # PathOf(j)
      BY <1>0, <2>0 DEF RequestOK, PathOf
    <3>2. \A i \in 1..d : i \in 1..n /\ i # d + 1
      BY <1>0, <2>1
    <3> HIDE DEF p, d, n
    <3> QED BY <2>1, <2>2, <3>1, <3>2
  <2>4. Collides(record, p) <=>
            \E i \in 1..d : IsStrictPrefix(PathOf(i), p) \/ IsStrictPrefix(p, PathOf(i))
    <3> HIDE DEF p, d
    <3> QED BY <2>0, <2>3 DEF Collides, IsEntry, IsDir, UnderFile
  <2>5. request' = request /\ writing # NoRecord
    BY <1>3 DEF AddFile
  <2>6. CASE Collides(record, p)
    <3>1. collide
      BY <2>1, <2>2, <2>4, <2>6
    <3>2. result' = "collision" /\ writing' = NoRecord
      BY <1>3, <2>6 DEF AddFile, WriteEnds
    <3>3. RefusedIffColliding'
      BY <1>0, <2>5, <3>1, <3>2 DEF RefusedIffColliding, PathOf
    <3> QED BY <1>0, <2>5, <3>2, <3>3 DEF PathsInv
  <2>7. CASE ~Collides(record, p)
    <3>1. /\ record' = With(record, p, Head(files).content)
          /\ files' = Tail(files) /\ UNCHANGED <<result, writing>>
      BY <1>3, <2>7 DEF AddFile
    <3>2. /\ files' \in Seq(ToSet(request)) /\ Len(files') = Len(files) - 1
          /\ \A i \in 1..Len(files') : files'[i] = files[i + 1]
      BY <2>0, <3>1
    <3>3. Added' = d + 1
      BY <2>1, <2>5, <3>2 DEF Added
    <3>4. \A i \in 1..Len(files') : files'[i] = request[(d + 1) + i]
      <4>1. ASSUME NEW i \in 1..Len(files') PROVE files'[i] = request[(d + 1) + i]
        <5>1. i + 1 \in 1..Len(files) /\ files'[i] = files[i + 1]
          BY <2>1, <3>2
        <5>2. files[i + 1] = request[d + (i + 1)] /\ d + (i + 1) = (d + 1) + i
          <6>1. files[i + 1] = request[d + (i + 1)]
            BY <2>0, <5>1
          <6>2. d + (i + 1) = (d + 1) + i
            BY <2>1
          <6> QED BY <6>1, <6>2
        <5> QED BY <5>1, <5>2
      <4> QED BY <4>1
    <3>5. DOMAIN record' = {PathOf(i) : i \in 1..(d + 1)}
      <4>1. DOMAIN record' = DOMAIN record \cup {p}
        BY <3>1 DEF With
      <4>2. 1..(d + 1) = 1..d \cup {d + 1}
        BY <2>1
      <4> HIDE DEF p, d
      <4> QED BY <2>0, <2>2, <4>1, <4>2
    <3>6. Apart(d + 1)
      <4> SUFFICES ASSUME NEW i \in 1..(d + 1), NEW j \in 1..(d + 1)
                   PROVE  ~IsStrictPrefix(PathOf(i), PathOf(j))
        BY DEF Apart
      <4>1. CASE i \in 1..d /\ j \in 1..d
        BY <2>0, <4>1 DEF Apart
      <4>2. CASE i = d + 1 /\ j = d + 1
        BY <4>2 DEF IsStrictPrefix
      <4>3. CASE (i = d + 1 /\ j \in 1..d) \/ (i \in 1..d /\ j = d + 1)
        BY <2>2, <2>4, <2>7, <4>3
      <4> QED BY <2>1, <4>1, <4>2, <4>3
    <3>7. PathsInv' <=> /\ request \in Seq(ToSet(request))
                        /\ RequestOK(request)
                        /\ files' \in Seq(ToSet(request)) /\ Len(files') <= Len(request)
                        /\ \A i \in 1..Len(files') : files'[i] = request[Added' + i]
                        /\ DOMAIN record' = {PathOf(i) : i \in 1..Added'}
                        /\ Apart(Added')
                        /\ RefusedIffColliding
      BY <2>5, <3>1 DEF PathsInv, PathOf, Apart, RefusedIffColliding
    <3>8. Len(files') <= Len(request)
      BY <2>0, <2>1, <3>2
    <3>9. RefusedIffColliding
      BY DEF PathsInv
    <3> QED BY <1>0, <2>0, <3>2, <3>3, <3>4, <3>5, <3>6, <3>7, <3>8, <3>9
  <2> QED BY <2>6, <2>7
<1>4. CASE UpsertRecordTree
  <2>1. request' = request /\ writing' = NoRecord /\ result' \in {"ok", "unwritable"}
    BY <1>4 DEF UpsertRecordTree, WriteEnds
  <2>2. RequestOK(request) /\ Apart(n)
    <3>1. files = <<>> /\ writing # NoRecord
      BY <1>4 DEF UpsertRecordTree
    <3>2. Added = n
      BY <1>0, <3>1 DEF Added
    <3> QED BY <3>1, <3>2 DEF PathsInv
  <2>3. RefusedIffColliding'
    BY <1>0, <2>1, <2>2 DEF RefusedIffColliding, Apart, PathOf
  <2> QED BY <1>0, <2>1, <2>3 DEF PathsInv
<1>5. CASE WriteFails
  <2>1. request' = request /\ writing' = NoRecord /\ result' = "gitError"
    BY <1>5 DEF WriteFails, WriteEnds
  <2> QED BY <1>0, <2>1 DEF PathsInv, RefusedIffColliding
<1>6. CASE UNCHANGED treeVars
  BY <1>6 DEF treeVars, PathsInv, Added, PathOf, Apart, RefusedIffColliding
<1> QED BY <1>2, <1>3, <1>4, <1>5, <1>6 DEF TreeNext

LEMMA PathsInvInit == TreeInit => PathsInv
  BY DEF TreeInit, PathsInv, RefusedIffColliding, ToSet, NoRecord

(* Whatever files a caller asks for, in whatever order and spelling: WriteRecord
   gets to a commit only if no path of the request runs through another's file,
   and finds a collision only if one does. *)
THEOREM RefusedIffCollidingHolds == TreeSpec => []RefusedIffColliding
<1>1. PathsInv => RefusedIffColliding
  BY DEF PathsInv
<1> QED BY PathsInvInit, PathsInvStep, <1>1, PTL DEF TreeSpec

-----------------------------------------------------------------------------
(* Paths under a root. *)

LEMMA UnderRoot ==
    ASSUME NEW root \in Path, NEW p \in Path
    PROVE  /\ root \o p \in Path /\ Len(root \o p) = Len(root) + Len(p)
           /\ Len(root) \in Nat \ {0} /\ Len(p) \in Nat \ {0}
           /\ SubSeq(root \o p, 1, Len(root)) = root
           /\ SubSeq(root \o p, Len(root) + 1, Len(root \o p)) = p
           /\ IsStrictPrefix(root, root \o p)
           /\ (root \o p)[1] = root[1]
<1>1. root \in Seq(Names) /\ p \in Seq(Names) /\ Len(root) \in Nat \ {0} /\ Len(p) \in Nat \ {0}
    BY EmptySeq DEF Path
<1> DEFINE q == root \o p
<1>2. /\ q \in Seq(Names) /\ Len(q) = Len(root) + Len(p)
      /\ \A i \in 1..(Len(root) + Len(p)) : q[i] = IF i <= Len(root) THEN root[i] ELSE p[i - Len(root)]
    BY <1>1, ConcatProperties
<1>3. SubSeq(q, 1, Len(root)) = root
    <2>1. 1 \in 1..Len(root) /\ Len(root) \in 1..Len(root)
        BY <1>1
    <2>2. SubSeq(root \o p, 1, Len(root)) = SubSeq(root, 1, Len(root))
        BY <1>1, <2>1, SubSeqOfConcat1
    <2>3. SubSeq(root, 1, Len(root)) = root
        BY <1>1, SubSeqFull
    <2> QED BY <2>2, <2>3
<1>4. SubSeq(q, Len(root) + 1, Len(q)) = p
    <2> DEFINE m == Len(root)
               n == Len(p)
    <2>1. m + 1 \in (m + 1)..(m + n) /\ m + n \in (m + 1)..(m + n)
        BY <1>1
    <2>2. SubSeq(root \o p, m + 1, m + n) = SubSeq(p, (m + 1) - m, (m + n) - m)
        BY <1>1, <2>1, SubSeqOfConcat2
    <2>3. (m + 1) - m = 1 /\ (m + n) - m = n
        BY <1>1
    <2>4. SubSeq(p, 1, n) = p
        BY <1>1, SubSeqFull
    <2> QED BY <1>2, <2>2, <2>3, <2>4
<1>5. root # q
    BY <1>1, <1>2
<1>6. SubSeq(root, 1, Len(root)) = root
    BY <1>1, SubSeqFull
<1>7. q # <<>> /\ q[1] = root[1]
    BY <1>1, <1>2
<1> HIDE DEF q
<1>8. IsStrictPrefix(root, q)
    BY <1>1, <1>2, <1>3, <1>5, <1>6 DEF IsStrictPrefix, IsPrefix
<1>9. q \in Path
    BY <1>2, <1>7 DEF Path
<1> QED BY <1>1, <1>2, <1>3, <1>4, <1>7, <1>8, <1>9 DEF q

LEMMA BelowRoot ==
    ASSUME NEW root \in Path, NEW q \in Path, IsStrictPrefix(root, q)
    PROVE  \E p \in Path : q = root \o p
<1>1. root \in Seq(Names) /\ q \in Seq(Names) /\ Len(root) \in Nat \ {0} /\ Len(q) \in Nat \ {0}
    BY EmptySeq DEF Path
<1>2. Len(root) <= Len(q) /\ SubSeq(q, 1, Len(root)) = root /\ root # q
    <2>1. SubSeq(root, 1, Len(root)) = root
        BY <1>1, SubSeqFull
    <2> QED BY <2>1 DEF IsStrictPrefix, IsPrefix
<1> DEFINE m == Len(root)
           n == Len(q)
           p == SubSeq(q, m + 1, n)
<1>3. q = root \o p
    <2>1. 1 \in 1..(n + 1) /\ m \in (1 - 1)..n /\ n \in m..n
        BY <1>1, <1>2
    <2>2. SubSeq(q, 1, m) \o SubSeq(q, m + 1, n) = SubSeq(q, 1, n)
        BY <1>1, <2>1, ConcatAdjacentSubSeq
    <2>3. SubSeq(q, 1, n) = q
        BY <1>1, SubSeqFull
    <2> QED BY <1>2, <2>2, <2>3
<1>4. p \in Seq(Names)
    <2>1. \A i \in (m + 1)..n : q[i] \in Names
        BY <1>1
    <2>2. m + 1 \in Int /\ n \in Int
        BY <1>1
    <2> HIDE DEF m, n
    <2> QED BY <2>1, <2>2, SubSeqProperties
<1>5. p # <<>>
    <2>1. root \o <<>> = root
        BY <1>1, ConcatEmptySeq
    <2> HIDE DEF p
    <2> QED BY <1>2, <1>3, <2>1
<1> HIDE DEF p
<1> QED BY <1>3, <1>4, <1>5 DEF Path

(* The roots of records are three names deep, so that no record is inside
   another's root. *)
LEMMA RootFacts ==
    ASSUME NEW root \in ValidRoots
    PROVE  root \in Path /\ Len(root) = 3 /\ root[1] # "meta"
BY RootsAssumption

LEMMA RootsApart ==
    ASSUME NEW root \in ValidRoots, NEW other \in ValidRoots, NEW p \in Path,
           IsStrictPrefix(root, other \o p)
    PROVE  root = other
<1>1. root \in Path /\ other \in Path /\ Len(root) = 3 /\ Len(other) = 3
    BY RootFacts
<1>2. PICK x \in Path : other \o p = root \o x
    <2>1. other \o p \in Path
        BY <1>1, UnderRoot
    <2> DEFINE q == other \o p
    <2> HIDE DEF q
    <2>2. \E x \in Path : q = root \o x
        BY <1>1, <2>1, BelowRoot DEF q
    <2> QED BY <2>2 DEF q
<1>3. SubSeq(other \o p, 1, 3) = other /\ SubSeq(root \o x, 1, 3) = root
    BY <1>1, UnderRoot
<1> QED BY <1>2, <1>3

(* Cleaning a path. *)
LEMMA CleanFacts ==
    ASSUME NEW raw \in RawPath, PathOK(raw)
    PROVE  Clean(raw) \in Path
<1>1. raw \in Seq(Segment)
    BY DEF RawPath
<1>2. Clean(raw) \in Seq(Segment \cap Names)
    BY <1>1, KeepType DEF Clean
<1>3. Clean(raw) \in Seq(Names)
    BY <1>2, SeqMonotonic
<1>4. DOMAIN raw = 1..Len(raw) /\ \A i \in 1..Len(raw) : raw[i] \in Segment
    BY <1>1
<1>5. PICK i \in 1..Len(raw) : raw[i] \in Names
    <2>1. PICK i \in DOMAIN raw : raw[i] # "" /\ raw[i] # "."
        BY Zenon DEF PathOK
    <2>2. i \in 1..Len(raw) /\ raw[i] \in Segment
        BY <1>4
    <2>3. raw[i] \in Names
        BY <2>1, <2>2, Zenon DEF Names
    <2> QED BY <2>2, <2>3
<1>6. Clean(raw) # <<>>
    BY <1>1, <1>5, KeepEmptyIff DEF Clean
<1> QED BY <1>3, <1>6 DEF Path

LEMMA CleanUnderRoot ==
    ASSUME NEW root \in ValidRoots, NEW raw \in RawPath, PathOK(raw)
    PROVE  /\ PathOK(root \o raw)
           /\ Clean(root \o raw) = root \o Clean(raw)
<1>0. \A i \in 1..3 : root[i] # ".." /\ root[i] \notin Backslashed
    BY RootsAssumption, Zenon
<1>1. root \in Seq(Names) /\ Len(root) = 3 /\ raw \in Seq(Segment)
    BY RootFacts DEF Path, RawPath
<1>2. root \in Seq(Segment)
    <2>1. Names \subseteq Segment
        BY DEF Names
    <2> QED BY <1>1, <2>1, SeqMonotonic
<1> DEFINE whole == root \o raw
           n == Len(raw)
<1>3. /\ whole \in Seq(Segment) /\ Len(whole) = 3 + n /\ n \in Nat
      /\ \A i \in 1..(3 + n) : whole[i] = IF i <= 3 THEN root[i] ELSE raw[i - 3]
    <2>1. /\ whole \in Seq(Segment) /\ Len(whole) = Len(root) + Len(raw)
          /\ \A i \in 1..(Len(root) + Len(raw)) :
                whole[i] = IF i <= Len(root) THEN root[i] ELSE raw[i - Len(root)]
        <3>1. root \in Seq(Segment) /\ raw \in Seq(Segment)
            BY <1>1, <1>2
        <3> QED BY <3>1, ConcatProperties
    <2>2. n \in Nat
        <3>1. raw \in Seq(Segment)
            BY <1>1
        <3> QED BY <3>1
    <2> HIDE DEF whole
    <2> QED BY <1>1, <2>1, <2>2
<1> HIDE DEF whole
<1>4. DOMAIN whole = 1..(3 + n) /\ DOMAIN raw = 1..n /\ \A i \in 1..3 : root[i] \in Names
    <2>1. DOMAIN whole = 1..Len(whole)
        BY <1>3
    <2>2. DOMAIN raw = 1..Len(raw)
        <3>1. raw \in Seq(Segment)
            BY <1>1
        <3> QED BY <3>1
    <2>3. \A i \in 1..3 : root[i] \in Names
        <3>1. root \in Seq(Names)
            BY <1>1
        <3>2. \A i \in 1..Len(root) : root[i] \in Names
            BY <3>1, ElementOfSeq
        <3>3. Len(root) = 3
            BY <1>1
        <3> QED BY <3>2, <3>3
    <2> QED BY <1>3, <2>1, <2>2, <2>3
<1>5. PathOK(whole)
    <2>1. /\ whole[1] = root[1] /\ root[1] \in Names /\ 1 \in DOMAIN whole
          /\ \A i \in 1..3 : whole[i] = root[i]
        BY <1>3, <1>4
    <2>2. \A i \in DOMAIN whole : i \in 1..3 \/ (i - 3 \in DOMAIN raw /\ whole[i] = raw[i - 3])
        <3>1. ASSUME NEW i \in 1..(3 + n), ~(i \in 1..3)
              PROVE  i - 3 \in 1..n /\ whole[i] = raw[i - 3]
            BY <1>3, <3>1
        <3> QED BY <1>4, <3>1
    <2>3. whole[1] # "" /\ whole[1] # "."
        BY <2>1, Zenon DEF Names
    <2>4. \A i \in DOMAIN raw : raw[i] # ".." /\ raw[i] \notin Backslashed
        BY Zenon DEF PathOK
    <2>5. \A i \in DOMAIN whole : whole[i] # ".." /\ whole[i] \notin Backslashed
        BY <1>0, <2>1, <2>2, <2>4, Zenon
    <2> QED BY <2>1, <2>3, <2>5, Zenon DEF PathOK
<1>6. Keep(root \o raw, Names) = Keep(root, Names) \o Keep(raw, Names)
    BY <1>1, <1>2, KeepConcat
<1>7. Keep(root, Names) = root
    BY <1>1, KeepAll
<1> QED BY <1>5, <1>6, <1>7 DEF Clean, whole

-----------------------------------------------------------------------------
LEMMA RequestFacts ==
    ASSUME NEW req \in Requests, RequestOK(req)
    PROVE  /\ Len(req) \in Nat \ {0} /\ DOMAIN req = 1..Len(req)
           /\ ToSet(req) = {req[i] : i \in 1..Len(req)}
           /\ \A i \in 1..Len(req) : /\ req[i].path \in RawPath /\ PathOK(req[i].path)
                                     /\ Clean(req[i].path) \in Path
                                     /\ req[i].content # Link
           /\ \A i, j \in 1..Len(req) : i # j => Clean(req[i].path) # Clean(req[j].path)
<1>1. req \in Seq(ToSet(req)) /\ \A f \in ToSet(req) : f.path \in RawPath /\ f.content # Link
    BY RequestsAssumption
<1>2. req # <<>>
    BY DEF RequestOK
<1>3. Len(req) \in Nat \ {0} /\ DOMAIN req = 1..Len(req)
    BY <1>1, <1>2, EmptySeq
<1>4. ToSet(req) = {req[i] : i \in 1..Len(req)}
    BY <1>3 DEF ToSet
<1>5. ASSUME NEW i \in 1..Len(req)
      PROVE  /\ req[i].path \in RawPath /\ PathOK(req[i].path)
             /\ Clean(req[i].path) \in Path /\ req[i].content # Link
    <2>1. req[i].path \in RawPath /\ req[i].content # Link
        BY <1>1, <1>4
    <2>2. PathOK(req[i].path)
        BY <1>3 DEF RequestOK
    <2> QED BY <2>1, <2>2, CleanFacts
<1>6. \A i, j \in 1..Len(req) : i # j => Clean(req[i].path) # Clean(req[j].path)
    BY <1>3 DEF RequestOK
<1> QED BY <1>3, <1>4, <1>5, <1>6

LEMMA FilesFacts ==
    ASSUME NEW req \in Requests, RequestOK(req)
    PROVE  /\ FilesOf(req) = [p \in {Clean(req[i].path) : i \in 1..Len(req)} |-> FilesOf(req)[p]]
           /\ \A i \in 1..Len(req) : FilesOf(req)[Clean(req[i].path)] = req[i].content
<1>1. /\ ToSet(req) = {req[i] : i \in 1..Len(req)}
      /\ \A i, j \in 1..Len(req) : i # j => Clean(req[i].path) # Clean(req[j].path)
    BY RequestFacts
<1>2. {Clean(f.path) : f \in ToSet(req)} = {Clean(req[i].path) : i \in 1..Len(req)}
    BY <1>1
<1>3. ASSUME NEW i \in 1..Len(req)
      PROVE  (CHOOSE f \in ToSet(req) : Clean(f.path) = Clean(req[i].path)) = req[i]
    <2>1. req[i] \in ToSet(req)
        BY <1>1
    <2>2. \A f \in ToSet(req) : Clean(f.path) = Clean(req[i].path) => f = req[i]
        BY <1>1
    <2> QED BY <2>1, <2>2
<1> DEFINE S == {Clean(f.path) : f \in ToSet(req)}
           val(p) == (CHOOSE f \in ToSet(req) : Clean(f.path) = p).content
<1>4. FilesOf(req) = [p \in S |-> val(p)]
    BY DEF FilesOf
<1>5. \A i \in 1..Len(req) : Clean(req[i].path) \in S
    BY <1>1
<1>6. \A i \in 1..Len(req) : val(Clean(req[i].path)) = req[i].content
    BY <1>3
<1> HIDE DEF S, val
<1>7. FilesOf(req) = [p \in S |-> FilesOf(req)[p]]
    BY <1>4
<1>8. \A i \in 1..Len(req) : FilesOf(req)[Clean(req[i].path)] = req[i].content
    BY <1>4, <1>5, <1>6
<1>9. S = {Clean(req[i].path) : i \in 1..Len(req)}
    BY <1>2 DEF S
<1> QED BY <1>7, <1>8, <1>9

-----------------------------------------------------------------------------
(* What is under a root. *)
Below(t, root) == {q \in DOMAIN t : IsStrictPrefix(root, q)}

(* The files of req, and nothing else, are under root. *)
Stored(t, root, req) ==
    /\ Below(t, root) = {root \o Clean(req[i].path) : i \in 1..Len(req)}
    /\ \A i \in 1..Len(req) : t[root \o Clean(req[i].path)] = req[i].content

(* A record that is stored reads back. *)
LEMMA StoredIsRead ==
    ASSUME NEW t, NEW r \in Records, NEW req \in Requests, RequestOK(req), Stored(t, RootOf[r], req)
    PROVE  /\ ReadRecord(t, r) = [verdict |-> "ok", files |-> FilesOf(req)]
           /\ \A i \in DOMAIN req :
                ReadFileAtPath(t, RootOf[r] \o req[i].path) = [verdict |-> "ok", content |-> req[i].content]
<1> DEFINE root == RootOf[r]
           n == Len(req)
           c(i) == Clean(req[i].path)
           sub == {p \in DOMAIN t : IsStrictPrefix(root, p)}
<1>0. root \in ValidRoots /\ root \in Path
    BY RootsAssumption, RootFacts
<1>1. /\ n \in Nat \ {0} /\ DOMAIN req = 1..n
      /\ \A i \in 1..n : req[i].path \in RawPath /\ PathOK(req[i].path) /\ c(i) \in Path /\ req[i].content # Link
    BY RequestFacts
<1>2. sub = {root \o c(i) : i \in 1..n} /\ \A i \in 1..n : t[root \o c(i)] = req[i].content
    BY DEF Stored, Below
<1> HIDE DEF root, n, c
<1>3. \A i \in 1..n : SubSeq(root \o c(i), Len(root) + 1, Len(root \o c(i))) = c(i)
    <2> TAKE i \in 1..n
    <2> DEFINE p == c(i)
    <2>1. p \in Path
        BY <1>1
    <2> HIDE DEF p
    <2>2. SubSeq(root \o p, Len(root) + 1, Len(root \o p)) = p
        BY <1>0, <2>1, UnderRoot
    <2> QED BY <2>2 DEF p
<1>4. IsDir(t, root)
    <2>1. 1 \in 1..n
        BY <1>1
    <2>2. root \o c(1) \in sub
        BY <1>2, <2>1
    <2> QED BY <2>2 DEF IsDir
<1>5. \A p \in sub : t[p] # Link
    BY <1>1, <1>2
<1> DEFINE got == [p \in {SubSeq(q, Len(root) + 1, Len(q)) : q \in sub} |-> t[root \o p]]
<1>6. got = FilesOf(req)
    <2>1. {SubSeq(q, Len(root) + 1, Len(q)) : q \in sub} = {c(i) : i \in 1..n}
        <3> HIDE DEF sub
        <3> QED BY <1>2, <1>3
    <2>2. /\ FilesOf(req) = [p \in {c(i) : i \in 1..n} |-> FilesOf(req)[p]]
          /\ \A i \in 1..n : FilesOf(req)[c(i)] = req[i].content
        BY FilesFacts DEF c, n
    <2>3. \A p \in {c(i) : i \in 1..n} : t[root \o p] = FilesOf(req)[p]
        BY <1>2, <2>2
    <2> HIDE DEF sub
    <2>4. got = [p \in {c(i) : i \in 1..n} |-> t[root \o p]]
        BY <2>1
    <2> HIDE DEF got
    <2> QED BY <2>2, <2>3, <2>4
<1>7. ReadRecord(t, r) = [verdict |-> "ok", files |-> got]
    <2>1. IsEntry(t, root)
        BY <1>4 DEF IsEntry
    <2>2. ReadRecord(t, r) =
            IF ~IsEntry(t, root) /\ ~UnderFile(t, root) THEN [verdict |-> "notFound", files |-> Empty]
            ELSE IF ~IsDir(t, root) \/ \E p \in sub : t[p] = Link
                 THEN [verdict |-> "malformed", files |-> Empty]
            ELSE [verdict |-> "ok", files |-> got]
        BY DEF ReadRecord, root
    <2> HIDE DEF sub, got
    <2> QED BY <1>4, <1>5, <2>1, <2>2
<1>8. ASSUME NEW i \in 1..n
      PROVE  ReadFileAtPath(t, root \o req[i].path) = [verdict |-> "ok", content |-> req[i].content]
    <2> DEFINE raw == root \o req[i].path
    <2>1. PathOK(raw) /\ Clean(raw) = root \o c(i)
        BY <1>0, <1>1, CleanUnderRoot DEF c
    <2>2. root \o c(i) \in sub /\ t[root \o c(i)] = req[i].content
        BY <1>2
    <2>3. IsBlob(t, Clean(raw)) /\ t[Clean(raw)] = req[i].content
        BY <1>5, <2>1, <2>2 DEF IsBlob
    <2> HIDE DEF raw, sub
    <2>4. ReadFileAtPath(t, raw) = [verdict |-> "ok", content |-> req[i].content]
        BY <2>1, <2>3 DEF ReadFileAtPath
    <2> QED BY <2>4 DEF raw
<1> QED BY <1>1, <1>6, <1>7, <1>8 DEF root

(* What the graft adds, and that it changes nothing else. *)
LEMMA GraftFacts ==
    ASSUME NEW t, NEW root \in Path, NEW sub, DOMAIN sub \subseteq Path
    PROVE  /\ DOMAIN Graft(t, root, sub) = DOMAIN t \cup {root \o p : p \in DOMAIN sub}
           /\ \A p \in DOMAIN sub : Graft(t, root, sub)[root \o p] = sub[p]
           /\ \A q \in DOMAIN t : q \notin {root \o p : p \in DOMAIN sub} => Graft(t, root, sub)[q] = t[q]
<1> DEFINE below == {root \o p : p \in DOMAIN sub}
           value(q) == IF q \in below THEN sub[SubSeq(q, Len(root) + 1, Len(q))] ELSE t[q]
           g == Graft(t, root, sub)
<1>1. g = [q \in DOMAIN t \cup below |-> value(q)]
    BY DEF Graft
<1>2. \A p \in DOMAIN sub : SubSeq(root \o p, Len(root) + 1, Len(root \o p)) = p
    BY UnderRoot
<1>3. \A p \in DOMAIN sub : root \o p \in below
    OBVIOUS
<1>4. \A p \in DOMAIN sub : value(root \o p) = sub[p]
    BY <1>2, <1>3
<1>5. \A q \in DOMAIN t : q \notin below => value(q) = t[q]
    OBVIOUS
<1> HIDE DEF g, value, below
<1>6. DOMAIN g = DOMAIN t \cup below /\ \A q \in DOMAIN t \cup below : g[q] = value(q)
    BY <1>1
<1>7. \A p \in DOMAIN sub : g[root \o p] = sub[p]
    BY <1>3, <1>4, <1>6
<1>8. \A q \in DOMAIN t : q \notin below => g[q] = t[q]
    BY <1>5, <1>6
<1> QED BY <1>6, <1>7, <1>8 DEF g, below

(* u is t with the files of sub under root: no other root has more or less under
   it, and a walk finds one more record. *)
AddsOnly(t, root, sub, u) ==
    LET below == {root \o p : p \in DOMAIN sub}
    IN  /\ DOMAIN u = DOMAIN t \cup below
        /\ DOMAIN u \subseteq Path
        /\ \A q \in DOMAIN t : u[q] = t[q]
        /\ \A p \in DOMAIN sub : u[root \o p] = sub[p]
        /\ Below(u, root) = below
        /\ \A other \in ValidRoots : other # root => Below(u, other) = Below(t, other)
        /\ WalkOK(t) => WalkOK(u)
        /\ WalkRecords(u) = WalkRecords(t) \cup {root}

(* That is what the graft does where nothing is yet. *)
LEMMA FreshGraft ==
    ASSUME NEW t, DOMAIN t \subseteq Path, NEW root \in ValidRoots, ~IsEntry(t, root),
           NEW sub, DOMAIN sub \subseteq Path, DOMAIN sub # {}
    PROVE  AddsOnly(t, root, sub, Graft(t, root, sub))
<1> DEFINE u == Graft(t, root, sub)
<1> DEFINE below == {root \o p : p \in DOMAIN sub}
<1>0. root \in Path /\ Len(root) = 3 /\ root[1] # "meta"
    BY RootFacts
<1>1. /\ DOMAIN u = DOMAIN t \cup below
      /\ \A p \in DOMAIN sub : u[root \o p] = sub[p]
      /\ \A q \in DOMAIN t : q \notin below => u[q] = t[q]
    <2>1. /\ DOMAIN Graft(t, root, sub) = DOMAIN t \cup {root \o p : p \in DOMAIN sub}
          /\ \A p \in DOMAIN sub : Graft(t, root, sub)[root \o p] = sub[p]
          /\ \A q \in DOMAIN t : q \notin {root \o p : p \in DOMAIN sub} => Graft(t, root, sub)[q] = t[q]
        BY <1>0, GraftFacts
    <2> QED BY <2>1
<1>2. ASSUME NEW q \in below
      PROVE  /\ q \in Path /\ IsStrictPrefix(root, q) /\ q \notin DOMAIN t
             /\ q[1] # "meta" /\ Len(q) > 3 /\ SubSeq(q, 1, 3) = root
             /\ \A other \in ValidRoots : IsStrictPrefix(other, q) => other = root
    <2>1. PICK p \in DOMAIN sub : q = root \o p
        OBVIOUS
    <2>2. p \in Path
        BY <2>1
    <2>3. /\ root \o p \in Path /\ Len(root \o p) = Len(root) + Len(p)
          /\ Len(p) \in Nat \ {0} /\ SubSeq(root \o p, 1, Len(root)) = root
          /\ IsStrictPrefix(root, root \o p) /\ (root \o p)[1] = root[1]
        BY <1>0, <2>2, UnderRoot
    <2>4. q \notin DOMAIN t
        BY <2>1, <2>3 DEF IsEntry, IsDir
    <2>5. \A other \in ValidRoots : IsStrictPrefix(other, q) => other = root
        BY <2>1, <2>2, RootsApart
    <2> HIDE DEF below
    <2>6. q[1] # "meta"
        BY <1>0, <2>1, <2>3
    <2>7. Len(q) > 3 /\ SubSeq(q, 1, 3) = root
        BY <1>0, <2>1, <2>3
    <2> QED BY <2>1, <2>3, <2>4, <2>5, <2>6, <2>7
<1>3. PICK some : some \in below
    OBVIOUS
<1>4. \A q \in DOMAIN t : ~IsStrictPrefix(root, q)
    BY DEF IsEntry, IsDir
<1> HIDE DEF below, u
<1>5. Below(u, root) = below
    BY <1>1, <1>2, <1>4 DEF Below
<1>6. \A other \in ValidRoots : other # root => Below(u, other) = Below(t, other)
    BY <1>1, <1>2 DEF Below
<1>7. WalkOK(t) => WalkOK(u)
    BY <1>1, <1>2 DEF WalkOK
<1>8. WalkRecords(u) = WalkRecords(t) \cup {root}
    <2>1. {q \in DOMAIN u : q[1] # "meta" /\ Len(q) > 3}
            = {q \in DOMAIN t : q[1] # "meta" /\ Len(q) > 3} \cup below
        BY <1>1, <1>2
    <2> DEFINE T == {q \in DOMAIN t : q[1] # "meta" /\ Len(q) > 3}
    <2> HIDE DEF T
    <2>2. {SubSeq(p, 1, 3) : p \in T \cup below} = {SubSeq(p, 1, 3) : p \in T} \cup {root}
        BY <1>2, <1>3
    <2> QED BY <2>1, <2>2 DEF WalkRecords, T
<1>9. DOMAIN u \subseteq Path /\ \A q \in DOMAIN t : u[q] = t[q]
    BY <1>1, <1>2
<1>10. AddsOnly(t, root, sub, u)
    BY <1>1, <1>5, <1>6, <1>7, <1>8, <1>9 DEF below, AddsOnly
<1> QED BY <1>10 DEF u

-----------------------------------------------------------------------------
(* What is written is stored under the root of its record, whatever was written
   since, and the rest of the branch is what it was; a record that is being
   written has no entry of its own yet, and what was added of it is what its
   request asked for. *)
TreeInv ==
    /\ PathsInv
    /\ DOMAIN tree \subseteq Path
    /\ writing # NoRecord =>
          /\ writing \in Records /\ request \in Requests
          /\ ~IsEntry(tree, RootOf[writing])
          /\ \A i \in 1..Added : record[PathOf(i)] = request[i].content
    /\ \A r \in DOMAIN written :
          /\ r \in Records /\ written[r] \in Requests /\ RequestOK(written[r])
          /\ Stored(tree, RootOf[r], written[r])
    /\ \A p \in DOMAIN before : p \in DOMAIN tree /\ tree[p] = before[p]
    /\ WalkOK(before) => WalkOK(tree)
    /\ WalkRecords(tree) = WalkRecords(before) \cup {RootOf[r] : r \in DOMAIN written}

LEMMA TreeInvInit == TreeInit => TreeInv
<1> SUFFICES ASSUME TreeInit PROVE TreeInv
    OBVIOUS
<1>1. PathsInv
    BY PathsInvInit
<1>2. DOMAIN tree \subseteq Path /\ before = tree /\ DOMAIN written = {} /\ writing = NoRecord
    BY ForeignAssumption DEF TreeInit
<1> QED BY <1>1, <1>2 DEF TreeInv

(* The part of the invariant about what is written is kept by a step that
   writes nothing. *)
LEMMA TreeInvIdle ==
    ASSUME TreeInv, PathsInv', UNCHANGED <<tree, written, before>>,
           writing' # NoRecord =>
             /\ writing' \in Records /\ request' \in Requests
             /\ ~IsEntry(tree, RootOf[writing'])
             /\ \A i \in 1..Added' : record'[PathOf(i)'] = request'[i].content
    PROVE  TreeInv'
BY DEF TreeInv

LEMMA TreeInvStep == TreeInv /\ [TreeNext]_treeVars => TreeInv'
<1> SUFFICES ASSUME TreeInv, [TreeNext]_treeVars PROVE TreeInv'
    OBVIOUS
<1>0. PathsInv /\ PathsInv'
    BY PathsInvStep DEF TreeInv
<1>1. ASSUME NEW r \in Records, NEW req \in Requests, BeginWrite(r, req) PROVE TreeInv'
    <2>1. UNCHANGED <<tree, written, before>>
        BY <1>1 DEF BeginWrite
    <2>2. CASE writing' = NoRecord
        BY <1>0, <2>1, <2>2, TreeInvIdle
    <2>3. CASE /\ ~IsEntry(tree, RootOf[r]) /\ request' = req /\ writing' = r /\ files' = req
        <3>1. Added' = 0
            <4>1. req \in Seq(ToSet(req))
                BY RequestsAssumption
            <4> QED BY <2>3, <4>1 DEF Added
        <3> QED BY <1>0, <2>1, <2>3, <3>1, TreeInvIdle
    <2> QED BY <1>1, <2>2, <2>3 DEF BeginWrite, WriteEnds
<1>2. CASE AddFile
    <2>1. UNCHANGED <<tree, written, before, request>> /\ writing # NoRecord /\ files # <<>>
        BY <1>2 DEF AddFile
    <2> DEFINE p == Clean(Head(files).path)
               d == Added
    <2>2. CASE Collides(record, p)
        <3>1. writing' = NoRecord
            BY <1>2, <2>2 DEF AddFile, WriteEnds
        <3> QED BY <1>0, <2>1, <3>1, TreeInvIdle
    <2>3. CASE ~Collides(record, p)
        <3>1. /\ record' = With(record, p, Head(files).content)
              /\ files' = Tail(files) /\ writing' = writing
            BY <1>2, <2>3 DEF AddFile
        <3>2. /\ RequestOK(request) /\ request \in Seq(ToSet(request))
              /\ files \in Seq(ToSet(request)) /\ Len(files) <= Len(request)
              /\ \A i \in 1..Len(files) : files[i] = request[d + i]
              /\ DOMAIN record = {PathOf(i) : i \in 1..d}
            BY <1>0, <2>1 DEF PathsInv
        <3>3. Len(files) \in Nat \ {0} /\ d \in Nat /\ d + 1 \in 1..Len(request)
            BY <2>1, <3>2 DEF Added
        <3>4. Head(files) = request[d + 1] /\ p = PathOf(d + 1)
            BY <3>2, <3>3 DEF PathOf
        <3>5. Added' = d + 1
            <4>1. Len(files') = Len(files) - 1
                BY <2>1, <3>1, <3>2
            <4>2. Len(request) \in Nat
                BY <3>2
            <4> QED BY <2>1, <3>3, <4>1, <4>2 DEF Added
        <3>6. \A i \in 1..d : PathOf(i) # p
            <4>1. \A i, j \in DOMAIN request : i # j => PathOf(i) # PathOf(j)
                BY <3>2 DEF RequestOK, PathOf
            <4>2. \A i \in 1..d : i \in DOMAIN request /\ i # d + 1 /\ d + 1 \in DOMAIN request
                BY <3>2, <3>3
            <4> HIDE DEF p, d
            <4> QED BY <3>4, <4>1, <4>2
        <3>7. \A i \in 1..d : record[PathOf(i)] = request[i].content
            BY <2>1 DEF TreeInv
        <3>8. \A i \in 1..(d + 1) : record'[PathOf(i)] = request[i].content
            <4>1. ASSUME NEW i \in 1..d PROVE record'[PathOf(i)] = request[i].content
                <5>1. PathOf(i) \in DOMAIN record /\ PathOf(i) # p
                    BY <3>2, <3>6
                <5> HIDE DEF p, d
                <5> QED BY <3>1, <3>7, <4>1, <5>1 DEF With
            <4>2. record'[p] = request[d + 1].content
                <5> HIDE DEF p, d
                <5> QED BY <3>1, <3>4 DEF With
            <4>3. \A i \in 1..(d + 1) : i \in 1..d \/ i = d + 1
                BY <3>3
            <4> HIDE DEF p, d
            <4> QED BY <3>4, <4>1, <4>2, <4>3
        <3>9. \A i \in 1..Added' : record'[PathOf(i)'] = request'[i].content
            BY <2>1, <3>5, <3>8 DEF PathOf
        <3>10. writing \in Records /\ request \in Requests /\ ~IsEntry(tree, RootOf[writing])
            BY <2>1 DEF TreeInv
        <3> QED BY <1>0, <2>1, <3>1, <3>9, <3>10, TreeInvIdle
    <2> QED BY <2>2, <2>3
<1>3. CASE UpsertRecordTree
    <2> DEFINE r == writing
               root == RootOf[r]
    <2>1. writing # NoRecord /\ files = <<>> /\ writing' = NoRecord /\ UNCHANGED <<request, before>>
        BY <1>3 DEF UpsertRecordTree, WriteEnds
    <2>2. CASE Unwritable(tree, root)
        <3>1. UNCHANGED <<tree, written>>
            BY <1>3, <2>2 DEF UpsertRecordTree
        <3> QED BY <1>0, <2>1, <3>1, TreeInvIdle
    <2>3. CASE ~Unwritable(tree, root)
        <3> DEFINE n == Len(request)
        <3>1. tree' = Graft(tree, root, record) /\ written' = With(written, r, request)
            BY <1>3, <2>3 DEF UpsertRecordTree
        <3>2. r \in Records /\ request \in Requests /\ RequestOK(request) /\ ~IsEntry(tree, root)
              /\ DOMAIN tree \subseteq Path
            BY <1>0, <2>1 DEF TreeInv, PathsInv
        <3>3. root \in ValidRoots
            BY <3>2, RootsAssumption
        <3>4. n \in Nat \ {0} /\ \A i \in 1..n : PathOf(i) \in Path
            BY <3>2, RequestFacts DEF PathOf
        <3>5. Added = n
            BY <2>1, <3>4 DEF Added
        <3>6. /\ DOMAIN record = {PathOf(i) : i \in 1..n}
              /\ \A i \in 1..n : record[PathOf(i)] = request[i].content
            <4>1. Added = n => 1..Added = 1..n
                OBVIOUS
            <4> HIDE DEF n
            <4> QED BY <1>0, <2>1, <3>5, <4>1 DEF TreeInv, PathsInv
        <3>7. DOMAIN record \subseteq Path /\ DOMAIN record # {}
            <4>1. 1 \in 1..n
                BY <3>4
            <4> HIDE DEF n
            <4> QED BY <3>4, <3>6, <4>1
        <3> HIDE DEF root, n
        <3>8. AddsOnly(tree, root, record, tree')
            <4>1. AddsOnly(tree, root, record, Graft(tree, root, record))
                BY <3>2, <3>3, <3>7, FreshGraft
            <4> QED BY <3>1, <4>1
        <3>9. Stored(tree', root, request)
            <4>1. {root \o p : p \in DOMAIN record} = {root \o Clean(request[i].path) : i \in 1..n}
                BY <3>6 DEF PathOf
            <4>2. \A i \in 1..n : tree'[root \o Clean(request[i].path)] = request[i].content
                BY <3>6, <3>8 DEF AddsOnly, PathOf
            <4> QED BY <3>8, <4>1, <4>2 DEF Stored, AddsOnly, n
        <3>10. ASSUME NEW s \in DOMAIN written, s # r
               PROVE  /\ s \in Records /\ written[s] \in Requests /\ RequestOK(written[s])
                      /\ Stored(tree', RootOf[s], written[s])
            <4> DEFINE req == written[s]
                       other == RootOf[s]
            <4>1. s \in Records /\ req \in Requests /\ RequestOK(req) /\ Stored(tree, other, req)
                BY DEF TreeInv
            <4>2. other \in ValidRoots
                BY <4>1, RootsAssumption
            <4> HIDE DEF req, other
            <4>3. Len(req) \in Nat \ {0}
                BY <4>1, RequestFacts
            <4>4. /\ Below(tree, other) = {other \o Clean(req[i].path) : i \in 1..Len(req)}
                  /\ \A i \in 1..Len(req) : tree[other \o Clean(req[i].path)] = req[i].content
                BY <4>1 DEF Stored
            <4>5. other # root
                <5>1. 1 \in 1..Len(req)
                    BY <4>3
                <5>2. other \o Clean(req[1].path) \in Below(tree, other)
                    BY <4>4, <5>1
                <5>3. IsEntry(tree, other)
                    BY <5>2 DEF Below, IsEntry, IsDir
                <5> QED BY <3>2, <5>3 DEF root
            <4>6. Below(tree', other) = Below(tree, other)
                BY <3>8, <4>2, <4>5 DEF AddsOnly
            <4>7. \A q \in Below(tree, other) : tree'[q] = tree[q]
                BY <3>8 DEF AddsOnly, Below
            <4>8. \A i \in 1..Len(req) : tree'[other \o Clean(req[i].path)] = req[i].content
                BY <4>4, <4>7
            <4>9. Stored(tree', other, req)
                BY <4>4, <4>6, <4>8 DEF Stored
            <4> QED BY <4>1, <4>9 DEF req, other
        <3>11. DOMAIN written' = DOMAIN written \cup {r}
               /\ written'[r] = request /\ \A s \in DOMAIN written : s # r => written'[s] = written[s]
            BY <3>1 DEF With
        <3>12. ASSUME NEW s \in DOMAIN written'
               PROVE  /\ s \in Records /\ written'[s] \in Requests /\ RequestOK(written'[s])
                      /\ Stored(tree', RootOf[s], written'[s])
            <4>1. CASE s = r
                BY <3>2, <3>9, <3>11, <4>1 DEF root
            <4>2. CASE s # r
                <5>1. s \in DOMAIN written /\ written'[s] = written[s]
                    BY <3>11, <4>2
                <5> QED BY <3>10, <4>2, <5>1
            <4> QED BY <4>1, <4>2
        <3>13. \A p \in DOMAIN before : p \in DOMAIN tree' /\ tree'[p] = before[p]
            BY <3>8 DEF AddsOnly, TreeInv
        <3>14. WalkOK(before) => WalkOK(tree')
            BY <3>8 DEF AddsOnly, TreeInv
        <3>15. WalkRecords(tree') = WalkRecords(before) \cup {RootOf[s] : s \in DOMAIN written'}
            <4>1. {RootOf[s] : s \in DOMAIN written'} = {RootOf[s] : s \in DOMAIN written} \cup {root}
                BY <3>11 DEF root
            <4> QED BY <3>8, <4>1 DEF AddsOnly, TreeInv
        <3> QED BY <1>0, <2>1, <3>8, <3>12, <3>13, <3>14, <3>15 DEF AddsOnly, TreeInv
    <2> QED BY <2>2, <2>3
<1>4. CASE WriteFails
    <2>1. UNCHANGED <<tree, written, before>> /\ writing' = NoRecord
        BY <1>4 DEF WriteFails, WriteEnds
    <2> QED BY <1>0, <2>1, TreeInvIdle
<1>5. CASE UNCHANGED treeVars
    <2>1. UNCHANGED treeVars
        BY <1>5
    <2>2. UNCHANGED <<tree, written, before, writing, record, request, files>>
        BY <2>1 DEF treeVars
    <2>3. Added' = Added /\ \A i : PathOf(i)' = PathOf(i)
        BY <2>2 DEF Added, PathOf
    <2>4. writing # NoRecord =>
             /\ writing \in Records /\ request \in Requests
             /\ ~IsEntry(tree, RootOf[writing])
             /\ \A i \in 1..Added : record[PathOf(i)] = request[i].content
        BY DEF TreeInv
    <2> QED BY <1>0, <2>2, <2>3, <2>4, TreeInvIdle
<1> QED BY <1>1, <1>2, <1>3, <1>4, <1>5 DEF TreeNext

(* Whatever is on the branch and whatever was written before and after it, a
   record that WriteRecord acknowledged reads back as the files of its request,
   each also by the path the caller spelled; WalkRecords finds the records that
   were there and those that were written; nothing else changes. *)
THEOREM ReadsSeeWhatWasWrittenHolds == TreeSpec => []ReadsSeeWhatWasWritten
<1>1. ASSUME TreeInv PROVE ReadsSeeWhatWasWritten
    <2>1. ASSUME NEW r \in DOMAIN written
          PROVE  /\ ReadRecord(tree, r) = [verdict |-> "ok", files |-> FilesOf(written[r])]
                 /\ \A i \in DOMAIN written[r] :
                      ReadFileAtPath(tree, RootOf[r] \o written[r][i].path)
                        = [verdict |-> "ok", content |-> written[r][i].content]
        <3>1. /\ r \in Records /\ written[r] \in Requests /\ RequestOK(written[r])
              /\ Stored(tree, RootOf[r], written[r])
            BY <1>1 DEF TreeInv
        <3> QED BY <3>1, StoredIsRead
    <2> QED BY <1>1, <2>1 DEF TreeInv, ReadsSeeWhatWasWritten
<1> QED BY TreeInvInit, TreeInvStep, <1>1, PTL DEF TreeSpec
=============================================================================
