--------------------------- MODULE RefspecProofs ----------------------------
(***************************************************************************)
(* Proofs about Refspec, for any number of calls and of edits by the user. *)
(***************************************************************************)
EXTENDS Refspec, FiniteSetTheorems, SequenceTheorems, TLAPS

Phases == {"idle", "lock"} \cup Reading \cup Locked \cup Verdicts

(* The part of the type invariant that the lock rests on. *)
ControlOK ==
    /\ phase \in [Calls -> Phases]
    /\ out \in [Calls -> Verdicts]
    /\ holder \in Calls \cup {Nobody, Gone}

LockInv == ControlOK /\ LockCoversWrites

LEMMA HoldersDiffer == Nobody # Gone /\ \A c \in Calls : c # Nobody /\ c # Gone
  BY RefspecHolderAssumption

(* A step of call c that stays inside the locked phases, or outside of them, and
   leaves the lock alone, keeps the lock's invariant. *)
LEMMA SameSide ==
  ASSUME LockInv, NEW c \in Calls, NEW p \in Phases,
         phase' = [phase EXCEPT ![c] = p],
         p \in Locked <=> phase[c] \in Locked,
         holder' = holder, out' \in [Calls -> Verdicts]
  PROVE  LockInv'
  BY DEF LockInv, ControlOK, LockCoversWrites

LEMMA ConcludeKeeps ==
  ASSUME LockInv, NEW c \in Calls, NEW v \in Verdicts, Conclude(c, v), holder' = holder
  PROVE  LockInv'
<1>1. CASE phase[c] \in Locked
  <2>1. phase' = [phase EXCEPT ![c] = "release"] /\ out' \in [Calls -> Verdicts]
    BY <1>1 DEF Conclude, Goto, LockInv, ControlOK
  <2>2. "release" \in Phases /\ "release" \in Locked
    BY DEF Phases, Locked
  <2> QED BY <1>1, <2>1, <2>2, SameSide
<1>2. CASE phase[c] \notin Locked
  <2>1. phase' = [phase EXCEPT ![c] = v] /\ out' \in [Calls -> Verdicts]
    BY <1>2 DEF Conclude, Goto, LockInv, ControlOK
  <2>2. v \in Phases /\ v \notin Locked
    BY DEF Phases, Locked, Verdicts
  <2> QED BY <1>2, <2>1, <2>2, SameSide
<1> QED BY <1>1, <1>2

(* A call that takes the lock or gives it up changes sides with it. *)
LEMMA Release ==
  ASSUME LockInv, NEW c \in Calls, NEW p \in Phases \ Locked, phase[c] \in Locked,
         phase' = [phase EXCEPT ![c] = p],
         holder' \in {Nobody, Gone}, out' \in [Calls -> Verdicts]
  PROVE  LockInv'
  BY HoldersDiffer DEF LockInv, ControlOK, LockCoversWrites

LEMMA LockInvStep == LockInv /\ [Next]_vars => LockInv'
<1> SUFFICES ASSUME LockInv, [Next]_vars PROVE LockInv'
  OBVIOUS
<1> USE DEF LockInv, ControlOK
<1>1. ASSUME NEW c \in Calls, Begin(c) PROVE LockInv'
  <2>1. "check" \in Phases /\ "check" \notin Locked /\ phase[c] \notin Locked
    BY <1>1 DEF Begin, Phases, Reading, Locked
  <2> QED BY <1>1, <2>1, SameSide DEF Begin, Goto
<1>2. ASSUME NEW c \in Calls, ReadKey(c) PROVE LockInv'
  <2> DEFINE k == Reads[at[c]]
             seen == [got[c] EXCEPT ![k] = cfg[k]]
             verdict == IF phase[c] = "state" THEN StateVerdict(k, seen) ELSE PreflightVerdict(k, seen)
  <2>1. verdict \in Verdicts /\ holder' = holder
    BY <1>2 DEF ReadKey, StateVerdict, PreflightVerdict, Verdicts
  <2>2. CASE Conclude(c, verdict)
    <3> HIDE DEF verdict
    <3> QED BY <2>1, <2>2, ConcludeKeeps
  <2>3. CASE phase' = phase /\ out' = out
    BY <2>1, <2>3 DEF LockCoversWrites
  <2>4. CASE Goto(c, AfterReading(phase[c])) /\ out' = out
    <3>1. AfterReading(phase[c]) \in Phases /\ (AfterReading(phase[c]) \in Locked <=> phase[c] \in Locked)
      BY <1>2 DEF ReadKey, AfterReading, Reading, Phases, Locked
    <3>2. phase' = [phase EXCEPT ![c] = AfterReading(phase[c])]
      BY <2>4 DEF Goto
    <3> HIDE DEF LockInv, ControlOK
    <3>3. out' \in [Calls -> Verdicts] BY <2>4 DEF LockInv, ControlOK
    <3> QED BY <2>1, <3>1, <3>2, <3>3, SameSide
  <2> QED BY <1>2, <2>2, <2>3, <2>4 DEF ReadKey
<1>3. ASSUME NEW c \in Calls, ReadFails(c) PROVE LockInv'
  BY <1>3, ConcludeKeeps DEF ReadFails, Verdicts
<1>4. ASSUME NEW c \in Calls, AcquireRefspecLock(c) PROVE LockInv'
  <2>1. CASE Lock!Grab(c) /\ Goto(c, "recheck")
    <3>1. holder = Nobody /\ holder' = c /\ phase' = [phase EXCEPT ![c] = "recheck"] /\ out' = out
      BY <1>4, <2>1 DEF AcquireRefspecLock, Lock!Grab, Goto
    <3>2. "recheck" \in Phases /\ "recheck" \in Locked
      BY DEF Phases, Locked
    <3> QED BY <3>1, <3>2, HoldersDiffer DEF LockCoversWrites
  <2>2. CASE Goto(c, "timeout") /\ UNCHANGED holder
    <3>1. phase[c] \notin Locked /\ "timeout" \in Phases /\ "timeout" \notin Locked
      BY <1>4 DEF AcquireRefspecLock, Phases, Verdicts, Locked
    <3> QED BY <1>4, <2>2, <3>1, SameSide DEF AcquireRefspecLock, Goto
  <2> QED BY <1>4, <2>1, <2>2 DEF AcquireRefspecLock
<1>5. ASSUME NEW c \in Calls, AddExclusion(c) PROVE LockInv'
  <2>1. CASE Conclude(c, "failed")
    BY <1>5, <2>1, ConcludeKeeps DEF AddExclusion, Verdicts
  <2>2. CASE Goto(c, "write") /\ UNCHANGED out
    <3>1. phase[c] \in Locked /\ "write" \in Phases /\ "write" \in Locked
      BY <1>5 DEF AddExclusion, Phases, Locked
    <3> QED BY <1>5, <2>2, <3>1, SameSide DEF AddExclusion, Goto
  <2> QED BY <1>5, <2>1, <2>2 DEF AddExclusion, Write
<1>6. ASSUME NEW c \in Calls, Rewrite(c) PROVE LockInv'
  <2>1. CASE Conclude(c, "failed")
    BY <1>6, <2>1, ConcludeKeeps DEF Rewrite, Verdicts
  <2>2. CASE phase' = phase /\ UNCHANGED out
    BY <1>6, <2>2 DEF Rewrite, LockCoversWrites
  <2>3. CASE Goto(c, "state") /\ UNCHANGED out
    <3>1. phase[c] \in Locked /\ "state" \in Phases /\ "state" \in Locked
      BY <1>6 DEF Rewrite, Phases, Locked
    <3> QED BY <1>6, <2>3, <3>1, SameSide DEF Rewrite, Goto
  <2> QED BY <1>6, <2>1, <2>2, <2>3 DEF Rewrite, Write
<1>7. ASSUME NEW c \in Calls, ReleaseLock(c) PROVE LockInv'
  <2>1. phase[c] \in Locked /\ out' \in [Calls -> Verdicts]
    BY <1>7 DEF ReleaseLock, Reset, Locked, Verdicts
  <2>2. out[c] \in Phases \ Locked /\ "failed" \in Phases \ Locked
    BY DEF Phases, Verdicts, Locked
  <2>3. holder' \in {Nobody, Gone}
    BY <1>7 DEF ReleaseLock, Lock!Drop, Lock!Lose
  <2>4. PICK p \in Phases \ Locked : phase' = [phase EXCEPT ![c] = p]
    BY <1>7, <2>2 DEF ReleaseLock, Goto
  <2> QED BY <2>1, <2>3, <2>4, Release
<1>8. ASSUME NEW c \in Calls, Crash(c) PROVE LockInv'
  <2>1. phase' = [phase EXCEPT ![c] = "crashed"] /\ out' \in [Calls -> Verdicts]
    BY <1>8 DEF Crash, Goto, Reset, Verdicts
  <2>2. "crashed" \in Phases \ Locked
    BY DEF Phases, Verdicts, Locked
  <2>3. CASE Lock!Lose(c)
    <3>1. phase[c] \in Locked /\ holder' = Gone
      BY <2>3 DEF Lock!Lose, LockCoversWrites
    <3> QED BY <2>1, <2>2, <3>1, Release
  <2>4. CASE holder # c /\ holder' = holder
    <3>1. phase[c] \notin Locked
      BY <2>4 DEF LockCoversWrites
    <3> QED BY <2>1, <2>2, <2>4, <3>1, SameSide
  <2> QED BY <1>8, <2>3, <2>4 DEF Crash
<1>9. CASE UserEdits
  BY <1>9 DEF UserEdits, LockCoversWrites
<1>10. CASE ManualCleanup
  <2>1. holder = Gone /\ holder' = Nobody /\ phase' = phase /\ out' = out
    BY <1>10 DEF ManualCleanup, Lock!Reclaim
  <2> QED BY <2>1, HoldersDiffer DEF LockCoversWrites
<1>11. CASE UNCHANGED vars
  BY <1>11 DEF vars, LockCoversWrites
<1> QED BY <1>1, <1>2, <1>3, <1>4, <1>5, <1>6, <1>7, <1>8, <1>9, <1>10, <1>11 DEF Next, Advance

LEMMA LockInvInit == Init => LockInv
  BY HoldersDiffer DEF Init, LockInv, ControlOK, LockCoversWrites, Phases, Locked, Verdicts

(* In every reachable state, the calls between their second preflight and their
   release are exactly the holder of the lock file: ApplyRefspecPlan never
   writes without it and never returns with it, however many calls there are
   and whatever fails. *)
THEOREM LockCoversWritesHolds == Spec => []LockCoversWrites
<1>1. LockInv => LockCoversWrites
  BY DEF LockInv
<1> QED BY LockInvInit, LockInvStep, <1>1, PTL DEF Spec

-----------------------------------------------------------------------------
(* Whose lines are whose. *)

(* The configuration has a sequence of values, perhaps empty, for each key. *)
ConfigInv == cfg = [k \in Keys |-> cfg[k]]

OwnKeys == {"ofetch", "opush"}

(* What a step of a call may do to the configuration. *)
CallWrites ==
    \/ UNCHANGED cfg
    \/ cfg' = [cfg EXCEPT !.fetch = Append(@, "exclusion")]
    \/ \E k \in OwnKeys : \E new : cfg' = [cfg EXCEPT ![k] = new]

LEMMA CallsWrite ==
  ASSUME NEW c \in Calls, Begin(c) \/ Advance(c) \/ Crash(c)
  PROVE  CallWrites
<1>1. CASE AddExclusion(c)
  BY <1>1 DEF AddExclusion, Write, CallWrites
<1>2. CASE Rewrite(c)
  <2> DEFINE k == KeyOf(at[c])
             new == IF ValueOf(at[c]) = 0 THEN << >> ELSE Append(cfg[k], Plan[ValueOf(at[c])])
  <2>1. k \in OwnKeys
    BY DEF KeyOf, OwnKeys
  <2>2. cfg' = [cfg EXCEPT ![k] = new] \/ UNCHANGED cfg
    BY <1>2 DEF Rewrite, Write
  <2> HIDE DEF k, new
  <2> QED BY <2>1, <2>2 DEF CallWrites
<1>3. CASE Begin(c) \/ ReadKey(c) \/ ReadFails(c) \/ AcquireRefspecLock(c) \/ ReleaseLock(c) \/ Crash(c)
  BY <1>3 DEF Begin, ReadKey, ReadFails, AcquireRefspecLock, ReleaseLock, Crash, CallWrites
<1> QED BY <1>1, <1>2, <1>3 DEF Advance

LEMMA ConfigInvStep == ConfigInv /\ [Next]_vars => ConfigInv'
<1> SUFFICES ASSUME ConfigInv, [Next]_vars PROVE ConfigInv'
  OBVIOUS
<1>1. ASSUME NEW c \in Calls, Begin(c) \/ Advance(c) \/ Crash(c) PROVE ConfigInv'
  BY <1>1, CallsWrite DEF CallWrites, ConfigInv, OwnKeys, Keys
<1>2. CASE UserEdits
  BY <1>2 DEF UserEdits, Edited, ConfigInv, Keys
<1>3. CASE ManualCleanup \/ UNCHANGED vars
  BY <1>3 DEF ManualCleanup, vars, ConfigInv
<1> QED BY <1>1, <1>2, <1>3 DEF Next

LEMMA ConfigInvInit == Init => ConfigInv
  BY DEF Init, ConfigInv, Keys

(* However the user edits .git/config between a call's reads and its writes, no
   step of any call drops, reorders or rewrites a fetch line, or touches the
   push lines, the mirror flag or the remote. *)
THEOREM UserLinesStayHolds == Spec => UserLinesStay
<1> DEFINE A == phase' # phase \/ at' # at =>
                    /\ cfg'.fetch \in {cfg.fetch, Append(cfg.fetch, "exclusion")}
                    /\ cfg'.push = cfg.push /\ cfg'.mirror = cfg.mirror /\ cfg'.url = cfg.url
<1>1. ASSUME ConfigInv, [Next]_vars PROVE [A]_vars
  <2>1. ASSUME NEW c \in Calls, Begin(c) \/ Advance(c) \/ Crash(c) PROVE A
    <3>1. "fetch" \in DOMAIN cfg /\ "fetch" \notin OwnKeys /\ "push" \notin OwnKeys
            /\ "mirror" \notin OwnKeys /\ "url" \notin OwnKeys
            /\ {"push", "mirror", "url"} \subseteq DOMAIN cfg
      BY <1>1 DEF ConfigInv, Keys, OwnKeys
    <3> QED BY <2>1, <3>1, CallsWrite DEF CallWrites
  <2>2. CASE UserEdits
    BY <2>2 DEF UserEdits
  <2>3. CASE ManualCleanup
    BY <2>3 DEF ManualCleanup
  <2> QED BY <1>1, <2>1, <2>2, <2>3 DEF Next, vars
<1>2. Spec => [][A]_vars
  BY <1>1, ConfigInvInit, ConfigInvStep, PTL DEF Spec
<1> QED BY <1>2 DEF UserLinesStay

-----------------------------------------------------------------------------
(* Counting lines. *)

LEMMA OccurrencesNat ==
  ASSUME NEW S, NEW s \in Seq(S), NEW l
  PROVE  Occurrences(s, l) \in Nat
<1>1. IsFiniteSet(1..Len(s)) /\ {i \in 1..Len(s) : s[i] = l} \subseteq 1..Len(s)
  BY FS_Interval
<1>2. IsFiniteSet({i \in 1..Len(s) : s[i] = l})
  BY <1>1, FS_Subset
<1> QED BY <1>2, FS_CardinalityType DEF Occurrences

LEMMA HoldsMeans ==
  ASSUME NEW S, NEW s \in Seq(S), NEW l
  PROVE  Holds(s, l) <=> \E i \in 1..Len(s) : s[i] = l
<1> DEFINE I == {i \in 1..Len(s) : s[i] = l}
<1>1. IsFiniteSet(1..Len(s)) /\ I \subseteq 1..Len(s)
  BY FS_Interval
<1>2. IsFiniteSet(I)
  BY <1>1, FS_Subset
<1>3. Cardinality(I) \in Nat /\ (Cardinality(I) = 0 <=> I = {})
  BY <1>2, FS_CardinalityType, FS_EmptySet
<1>4. Holds(s, l) <=> Cardinality(I) > 0
  BY DEF Holds, Occurrences
<1>5. I # {} <=> \E i \in 1..Len(s) : s[i] = l
  OBVIOUS
<1> HIDE DEF I
<1> QED BY <1>3, <1>4, <1>5

(* A line that is appended where it was missing is there once; nothing else is
   there that was not. *)
LEMMA AppendMissing ==
  ASSUME NEW S, NEW s \in Seq(S), NEW l \in S, ~Holds(s, l)
  PROVE  /\ Append(s, l) \in Seq(S)
         /\ Occurrences(Append(s, l), l) = 1
         /\ \A o \in S \ {l} : ~Holds(s, o) => ~Holds(Append(s, l), o)
<1>1. Append(s, l) \in Seq(S) /\ Len(Append(s, l)) = Len(s) + 1 /\ Len(s) \in Nat
  OBVIOUS
<1>2. \A i \in 1..Len(s) : Append(s, l)[i] = s[i]
  OBVIOUS
<1>3. Append(s, l)[Len(s) + 1] = l
  OBVIOUS
<1>4. {i \in 1..Len(Append(s, l)) : Append(s, l)[i] = l} = {Len(s) + 1}
  BY <1>1, <1>2, <1>3, HoldsMeans
<1>5. Occurrences(Append(s, l), l) = 1
  BY <1>4, FS_Singleton DEF Occurrences
<1>6. ASSUME NEW o \in S \ {l}, ~Holds(s, o)
      PROVE  ~Holds(Append(s, l), o)
  <2>1. \A i \in 1..Len(s) : s[i] # o
    BY <1>6, HoldsMeans
  <2>2. \A i \in 1..Len(Append(s, l)) : Append(s, l)[i] # o
    BY <1>1, <1>2, <1>3, <2>1
  <2> QED BY <1>1, <2>2, HoldsMeans
<1> QED BY <1>1, <1>5, <1>6

-----------------------------------------------------------------------------
(* Convergence. *)

(* Every value that the configuration may hold. *)
Lines == {"url", "true", "junk", "branch", "opax", "notes", "+branch", "+opax", "+notes"}
            \cup FetchLines \cup PushLines

LEMMA SequencesOf ==
  ASSUME NEW S, NEW l \in S
  PROVE  << >> \in Seq(S) /\ <<l>> \in Seq(S) /\ \A s \in Seq(S) : Append(s, l) \in Seq(S)
  OBVIOUS

(* The first n values of the plan. *)
Part(n) == [i \in 1..n |-> Plan[i]]

FetchFine(values) == Occurrences(values, "exclusion") <= 1 /\ ~Holds(values, "wide")
PlainFine == ~Holds(cfg.mirror, "true") /\ ~Holds(cfg.push, "toOpax")

(* What a call that the user has left alone since it took the lock knows of the
   configuration, phase by phase. *)
Rechecked(c) ==
    /\ at[c] > 2 => FetchFine(cfg.fetch) /\ got[c].fetch = cfg.fetch
    /\ at[c] > 3 => got[c].push = cfg.push
    /\ at[c] > 4 => PlainFine

Written(c) ==
    /\ at[c] \in 2..4 => cfg.ofetch = Part(at[c] - 2)
    /\ at[c] > 4 => cfg.ofetch = Plan
    /\ at[c] > 5 => cfg.opush = Part(at[c] - 6)

Configured == cfg.ofetch = Plan /\ cfg.opush = Plan

Reported(c) ==
    /\ at[c] > 2 => got[c].fetch = cfg.fetch
    /\ at[c] > 3 => got[c].push = cfg.push
    /\ at[c] > 4 => got[c].mirror = cfg.mirror

Knows(c) ==
    /\ phase[c] = "recheck" => Rechecked(c)
    /\ phase[c] = "exclude" => FetchFine(cfg.fetch) /\ got[c].fetch = cfg.fetch /\ PlainFine
    /\ phase[c] = "write" => Isolated(cfg) /\ Written(c)
    /\ phase[c] = "state" => Isolated(cfg) /\ Configured /\ Reported(c)
    /\ phase[c] = "release" /\ out[c] = "ok" => Isolated(cfg) /\ Configured /\ Isolated(got[c])

DataOK ==
    /\ at \in [Calls -> Nat]
    /\ \A c \in Calls : /\ phase[c] \in Reading => at[c] \in 1..6
                        /\ phase[c] = "write" => at[c] \in 1..8
    /\ got \in [Calls -> [Keys -> Seq(Lines)]]
    /\ cfg \in [Keys -> Seq(Lines)]
    /\ edits \in Nat
    /\ base \in [Calls -> Nat]
    /\ \A c \in Calls : base[c] <= edits

KnowInv == \A c \in Calls : phase[c] \in Locked /\ edits = base[c] => Knows(c)

IInv == LockInv /\ DataOK /\ KnowInv

LEMMA PlanFacts ==
  /\ Len(Plan) = 3 /\ \A i \in 1..3 : Plan[i] \in Lines
  /\ CommandsPerKey = 4 /\ Commands = 8 /\ Len(Reads) = 6
  /\ \A i \in 1..6 : Reads[i] \in Keys
<1>1. Plan = <<"+branch", "+opax", "+notes">> /\ Reads = <<"url", "fetch", "push", "mirror", "ofetch", "opush">>
  BY DEF Plan, Reads
<1>2. Len(Plan) = 3 /\ Plan[1] = "+branch" /\ Plan[2] = "+opax" /\ Plan[3] = "+notes"
  BY <1>1
<1>3. \A i \in 1..3 : Plan[i] \in Lines
  BY <1>2 DEF Lines
<1>4. Len(Reads) = 6 /\ \A i \in 1..6 : Reads[i] \in Keys
  BY <1>1 DEF Keys
<1> QED BY <1>2, <1>3, <1>4 DEF CommandsPerKey, Commands

LEMMA ConcludeData ==
  ASSUME DataOK, LockInv, NEW c \in Calls, NEW v \in Verdicts, Conclude(c, v),
         UNCHANGED <<edits, base>>, cfg' \in [Keys -> Seq(Lines)]
  PROVE  DataOK'
<1>1. got' \in [Calls -> [Keys -> Seq(Lines)]]
  BY DEF Conclude, Forget, NoValues, DataOK
<1>2. PICK p : phase' = [phase EXCEPT ![c] = p] /\ at' = [at EXCEPT ![c] = 1] /\ p \in {"release", v}
  BY DEF Conclude, Goto
<1> QED BY <1>1, <1>2 DEF DataOK, LockInv, ControlOK, Reading, Verdicts

(* A step that starts a phase at its first command. *)
LEMMA GotoData ==
  ASSUME DataOK, LockInv, NEW c \in Calls, NEW p, Goto(c, p),
         got' \in [Calls -> [Keys -> Seq(Lines)]], cfg' \in [Keys -> Seq(Lines)],
         edits' = edits, base' \in [Calls -> Nat], \A d \in Calls : base'[d] <= edits
  PROVE  DataOK'
<1>1. at' \in [Calls -> Nat] /\ at'[c] = 1
  BY DEF DataOK, Goto
<1>2. \A d \in Calls \ {c} : phase'[d] = phase[d] /\ at'[d] = at[d]
  BY DEF DataOK, Goto, LockInv, ControlOK
<1>3. ASSUME NEW d \in Calls
      PROVE  (phase'[d] \in Reading => at'[d] \in 1..6) /\ (phase'[d] = "write" => at'[d] \in 1..8)
  <2>1. CASE d = c
    BY <1>1, <2>1
  <2>2. CASE d # c
    BY <1>2, <2>2 DEF DataOK
  <2> QED BY <2>1, <2>2
<1> QED BY <1>1, <1>3 DEF DataOK

LEMMA DataStep == LockInv /\ DataOK /\ [Next]_vars => DataOK'
<1> SUFFICES ASSUME LockInv, DataOK, [Next]_vars PROVE DataOK'
  OBVIOUS
<1>0. /\ \A c \in Calls : [got EXCEPT ![c] = NoValues] \in [Calls -> [Keys -> Seq(Lines)]]
      /\ \A c \in Calls : [base EXCEPT ![c] = 0] \in [Calls -> Nat]
      /\ \A c, d \in Calls : [base EXCEPT ![c] = 0][d] <= edits
  BY DEF DataOK, NoValues
<1>1. ASSUME NEW c \in Calls, Begin(c) PROVE DataOK'
  BY <1>1, GotoData DEF Begin, DataOK
<1>2. ASSUME NEW c \in Calls, ReadKey(c) PROVE DataOK'
  <2> DEFINE k == Reads[at[c]]
             seen == [got[c] EXCEPT ![k] = cfg[k]]
             verdict == IF phase[c] = "state" THEN StateVerdict(k, seen) ELSE PreflightVerdict(k, seen)
  <2>1. verdict \in Verdicts
    BY DEF StateVerdict, PreflightVerdict, Verdicts
  <2>2. at[c] \in 1..6 /\ k \in Keys
    BY <1>2, PlanFacts DEF ReadKey, DataOK
  <2>3. seen \in [Keys -> Seq(Lines)]
    BY <2>2 DEF DataOK
  <2>4. UNCHANGED <<cfg, edits, base>>
    BY <1>2 DEF ReadKey
  <2>5. CASE Conclude(c, verdict)
    <3> HIDE DEF verdict
    <3> QED BY <2>1, <2>4, <2>5, ConcludeData DEF DataOK
  <2>6. CASE got' \in {got, [got EXCEPT ![c] = seen]} /\ Goto(c, AfterReading(phase[c]))
    <3>1. got' \in [Calls -> [Keys -> Seq(Lines)]]
      BY <2>3, <2>6 DEF DataOK
    <3> QED BY <2>4, <2>6, <3>1, GotoData DEF DataOK
  <2>7. CASE /\ got' \in {got, [got EXCEPT ![c] = seen]}
             /\ at[c] < 6 /\ at' = [at EXCEPT ![c] = @ + 1] /\ phase' = phase
    <3>1. got' \in [Calls -> [Keys -> Seq(Lines)]]
      BY <2>3, <2>7 DEF DataOK
    <3>2. phase[c] # "write"
      BY <1>2 DEF ReadKey, Reading
    <3>3. at' \in [Calls -> Nat] /\ at'[c] \in 1..6 /\ \A d \in Calls \ {c} : at'[d] = at[d]
      BY <2>2, <2>7 DEF DataOK
    <3>4. \A d \in Calls : (phase'[d] \in Reading => at'[d] \in 1..6) /\ (phase'[d] = "write" => at'[d] \in 1..8)
      BY <2>7, <3>2, <3>3 DEF DataOK
    <3> HIDE DEF k, seen, verdict
    <3> QED BY <2>4, <3>1, <3>3, <3>4 DEF DataOK
  <2> HIDE DEF verdict, seen
  <2> QED BY <1>2, <2>5, <2>6, <2>7, PlanFacts DEF ReadKey, verdict, seen
<1>3. ASSUME NEW c \in Calls, ReadFails(c) PROVE DataOK'
  BY <1>3, ConcludeData DEF ReadFails, Verdicts, DataOK
<1>4. ASSUME NEW c \in Calls, AcquireRefspecLock(c) PROVE DataOK'
  <2>1. got' \in [Calls -> [Keys -> Seq(Lines)]]
    BY <1>0, <1>4 DEF AcquireRefspecLock, Forget
  <2>2. base' \in [Calls -> Nat] /\ \A d \in Calls : base'[d] <= edits
    <3>1. base' = base \/ base' = [base EXCEPT ![c] = edits]
      BY <1>4 DEF AcquireRefspecLock
    <3>2. edits \in Nat /\ base \in [Calls -> Nat] /\ \A d \in Calls : base[d] <= edits
      BY DEF DataOK
    <3>3. base' \in [Calls -> Nat]
      BY <3>1, <3>2
    <3>4. \A d \in Calls : base'[d] = base[d] \/ base'[d] = edits
      BY <3>1, <3>2
    <3> QED BY <3>2, <3>3, <3>4
  <2>3. UNCHANGED <<cfg, edits>> /\ (Goto(c, "recheck") \/ Goto(c, "timeout"))
    BY <1>4 DEF AcquireRefspecLock
  <2> QED BY <2>1, <2>2, <2>3, GotoData DEF DataOK
<1>5. ASSUME NEW c \in Calls, AddExclusion(c) PROVE DataOK'
  <2>1. UNCHANGED <<edits, base>>
    BY <1>5 DEF AddExclusion
  <2>2. cfg' \in [Keys -> Seq(Lines)]
    <3>1. cfg.fetch \in Seq(Lines) /\ Append(cfg.fetch, "exclusion") \in Seq(Lines)
      BY SequencesOf DEF DataOK, Keys, Lines, FetchLines
    <3> QED BY <1>5, <3>1 DEF AddExclusion, Write, DataOK
  <2>3. CASE Conclude(c, "failed")
    BY <2>1, <2>2, <2>3, ConcludeData DEF Verdicts
  <2>4. CASE Forget(c) /\ Goto(c, "write")
    BY <1>0, <2>1, <2>2, <2>4, GotoData DEF Forget, DataOK
  <2> QED BY <1>5, <2>3, <2>4 DEF AddExclusion, Write
<1>6. ASSUME NEW c \in Calls, Rewrite(c) PROVE DataOK'
  <2>1. UNCHANGED <<edits, base>> /\ phase[c] = "write" /\ at[c] \in 1..8
    BY <1>6 DEF Rewrite, DataOK
  <2>2. cfg' \in [Keys -> Seq(Lines)]
    <3> DEFINE k == KeyOf(at[c])
               v == ValueOf(at[c])
               new == IF v = 0 THEN << >> ELSE Append(cfg[k], Plan[v])
    <3>1. k \in Keys /\ v \in 0..3
      BY <2>1, PlanFacts DEF KeyOf, Keys, ValueOf
    <3>2. cfg[k] \in Seq(Lines) /\ (v # 0 => Plan[v] \in Lines)
      <4>1. v # 0 => v \in 1..3
        BY <3>1
      <4> HIDE DEF k, v
      <4> QED BY <3>1, <4>1, PlanFacts DEF DataOK
    <3>3. new \in Seq(Lines)
      <4> HIDE DEF k, v
      <4> QED BY <3>2, SequencesOf
    <3>4. cfg' = [cfg EXCEPT ![k] = new] \/ cfg' = cfg
      BY <1>6 DEF Rewrite, Write
    <3> HIDE DEF k, new
    <3> QED BY <3>1, <3>3, <3>4 DEF DataOK
  <2>3. CASE Conclude(c, "failed")
    BY <2>1, <2>2, <2>3, ConcludeData DEF Verdicts
  <2>4. CASE Forget(c) /\ Goto(c, "state")
    BY <1>0, <2>1, <2>2, <2>4, GotoData DEF Forget, DataOK
  <2>5. CASE Forget(c) /\ at[c] < 8 /\ at' = [at EXCEPT ![c] = @ + 1] /\ phase' = phase
    BY <1>0, <2>1, <2>2, <2>5 DEF Forget, DataOK, Reading
  <2> QED BY <1>6, <2>3, <2>4, <2>5, PlanFacts DEF Rewrite, Write
<1>7. ASSUME NEW c \in Calls, ReleaseLock(c) PROVE DataOK'
  BY <1>0, <1>7, GotoData DEF ReleaseLock, Reset, Forget, DataOK
<1>8. ASSUME NEW c \in Calls, Crash(c) PROVE DataOK'
  BY <1>0, <1>8, GotoData DEF Crash, Reset, Forget, DataOK
<1>9. CASE UserEdits
  <2>1. cfg' \in [Keys -> Seq(Lines)]
    <3>1. \A k \in Keys, l \in Lines : cfg[k] \in Seq(Lines) /\ Append(cfg[k], l) \in Seq(Lines)
      BY SequencesOf DEF DataOK
    <3>2. \A l \in Lines : << >> \in Seq(Lines) /\ <<l>> \in Seq(Lines)
      BY SequencesOf
    <3>3. \A k \in Keys, new \in Seq(Lines) : [cfg EXCEPT ![k] = new] \in [Keys -> Seq(Lines)]
      BY DEF DataOK
    <3>4. CASE \E k \in Keys, l \in Lines : cfg' = [cfg EXCEPT ![k] = Append(cfg[k], l)]
      BY <3>1, <3>3, <3>4
    <3>5. CASE \E k \in Keys, l \in Lines : cfg' = [cfg EXCEPT ![k] = <<l>>]
      BY <3>2, <3>3, <3>5
    <3>6. CASE \E k \in Keys : cfg' = [cfg EXCEPT ![k] = << >>]
      <4>1. << >> \in Seq(Lines)
        OBVIOUS
      <4> QED BY <3>3, <3>6, <4>1
    <3>7. CASE cfg' = [cfg EXCEPT !.url = << >>, !.fetch = << >>, !.push = << >>, !.mirror = << >>]
      <4>1. << >> \in Seq(Lines)
        OBVIOUS
      <4> QED BY <3>7, <4>1 DEF DataOK, Keys
    <3> QED BY <1>9, <3>4, <3>5, <3>6, <3>7 DEF UserEdits, Edited, Keys, Lines, FetchLines, PushLines
  <2>2. UNCHANGED <<phase, at, got, base>> /\ edits' = edits + 1
    BY <1>9 DEF UserEdits
  <2>3. \A c \in Calls : base[c] <= edits + 1
    BY DEF DataOK
  <2> QED BY <2>1, <2>2, <2>3 DEF DataOK
<1>10. CASE ManualCleanup \/ UNCHANGED vars
  BY <1>10 DEF ManualCleanup, vars, DataOK
<1> QED BY <1>1, <1>2, <1>3, <1>4, <1>5, <1>6, <1>7, <1>8, <1>9, <1>10 DEF Next, Advance

(* What a step of call c leaves alone. *)
OthersAlone(c) ==
    /\ edits' = edits
    /\ \A d \in Calls \ {c} :
            /\ phase'[d] = phase[d] /\ at'[d] = at[d] /\ got'[d] = got[d]
            /\ out'[d] = out[d] /\ base'[d] = base[d]
    /\ phase[c] \notin Locked => cfg' = cfg

LEMMA CallsAreApart ==
  ASSUME LockInv, DataOK, NEW c \in Calls, Begin(c) \/ Advance(c) \/ Crash(c)
  PROVE  OthersAlone(c)
<1> USE DEF OthersAlone, LockInv, ControlOK, DataOK
<1>1. CASE Begin(c)
  BY <1>1 DEF Begin, Goto
<1>2. CASE ReadKey(c)
  <2> DEFINE k == Reads[at[c]]
             seen == [got[c] EXCEPT ![k] = cfg[k]]
             verdict == IF phase[c] = "state" THEN StateVerdict(k, seen) ELSE PreflightVerdict(k, seen)
  <2>1. UNCHANGED <<cfg, edits, base>>
    BY <1>2 DEF ReadKey
  <2>2. CASE Conclude(c, verdict)
    <3> HIDE DEF verdict
    <3> QED BY <2>1, <2>2 DEF Conclude, Forget, Goto
  <2>3. CASE /\ got' \in {got, [got EXCEPT ![c] = seen]} /\ out' = out
             /\ Goto(c, AfterReading(phase[c])) \/ (at' = [at EXCEPT ![c] = @ + 1] /\ phase' = phase)
    <3> HIDE DEF seen
    <3> QED BY <2>1, <2>3 DEF Goto
  <2> QED BY <1>2, <2>2, <2>3 DEF ReadKey
<1>3. CASE ReadFails(c)
  BY <1>3 DEF ReadFails, Conclude, Forget, Goto
<1>4. CASE AcquireRefspecLock(c)
  BY <1>4 DEF AcquireRefspecLock, Forget, Goto
<1>5. CASE AddExclusion(c)
  BY <1>5 DEF AddExclusion, Write, Conclude, Forget, Goto, Locked
<1>6. CASE Rewrite(c)
  <2>1. edits' = edits /\ base' = base /\ phase[c] \in Locked
    BY <1>6 DEF Rewrite, Locked
  <2>2. CASE Conclude(c, "failed")
    BY <2>1, <2>2 DEF Conclude, Forget, Goto
  <2>3. CASE /\ Forget(c) /\ out' = out
             /\ Goto(c, "state") \/ (at' = [at EXCEPT ![c] = @ + 1] /\ phase' = phase)
    BY <2>1, <2>3 DEF Forget, Goto
  <2> QED BY <1>6, <2>2, <2>3 DEF Rewrite, Write
<1>7. CASE ReleaseLock(c)
  BY <1>7 DEF ReleaseLock, Reset, Forget, Goto
<1>8. CASE Crash(c)
  BY <1>8 DEF Crash, Reset, Forget, Goto
<1> QED BY <1>1, <1>2, <1>3, <1>4, <1>5, <1>6, <1>7, <1>8 DEF Advance

(* While one call holds the lock, a step of another takes nothing from what the
   first one knows. *)
LEMMA OthersKnow ==
  ASSUME IInv, NEW c \in Calls, OthersAlone(c),
         NEW d \in Calls \ {c}, phase'[d] \in Locked, edits' = base'[d]
  PROVE  Knows(d)'
<1>1. phase[d] \in Locked /\ edits = base[d] /\ Knows(d)
  BY DEF OthersAlone, IInv, KnowInv
<1>2. phase[c] \notin Locked
  BY <1>1 DEF IInv, LockInv, LockCoversWrites
<1>3. cfg' = cfg /\ phase'[d] = phase[d] /\ at'[d] = at[d] /\ got'[d] = got[d] /\ out'[d] = out[d]
  BY <1>2 DEF OthersAlone
<1> QED BY <1>1, <1>3 DEF Knows, Rechecked, Written, Reported, Configured, PlainFine

-----------------------------------------------------------------------------
(* What a call learns and does itself. *)

LEMMA ConcludeKnows ==
  ASSUME IInv, NEW c \in Calls, NEW v \in Verdicts \ {"ok"}, Conclude(c, v)
  PROVE  phase'[c] \in Locked => Knows(c)'
<1>1. CASE phase[c] \in Locked
  <2>1. phase'[c] = "release" /\ out'[c] = v
    BY <1>1 DEF Conclude, Goto, IInv, LockInv, ControlOK
  <2> QED BY <2>1 DEF Knows
<1>2. CASE phase[c] \notin Locked
  <2>1. phase'[c] = v
    BY <1>2 DEF Conclude, Goto, IInv, LockInv, ControlOK
  <2> QED BY <2>1 DEF Verdicts, Locked
<1> QED BY <1>1, <1>2

(* What a preflight or a final read that goes on has seen. *)
LEMMA PreflightSees ==
  ASSUME NEW k \in Keys, NEW seen \in [Keys -> Seq(Lines)], PreflightVerdict(k, seen) = "ok"
  PROVE  /\ k = "fetch" => FetchFine(seen.fetch)
         /\ k = "mirror" => ~Holds(seen.mirror, "true") /\ ~Holds(seen.push, "toOpax")
<1>1. CASE k = "fetch"
  <2>1. ~Invalid(k, seen) /\ ~FetchReachesOpax(seen.fetch, TRUE)
    BY <1>1 DEF PreflightVerdict
  <2>2. Occurrences(seen.fetch, "exclusion") \in Nat
    BY <1>1, OccurrencesNat DEF Keys
  <2> QED BY <1>1, <2>1, <2>2 DEF Invalid, FetchReachesOpax, FetchFine
<1>2. CASE k = "mirror"
  BY <1>2 DEF PreflightVerdict, Invalid
<1>3. CASE k # "fetch" /\ k # "mirror"
  BY <1>3
<1> QED BY <1>1, <1>2, <1>3

LEMMA RecheckKnows ==
  ASSUME IInv, NEW c \in Calls, ReadKey(c), phase[c] = "recheck", edits = base[c]
  PROVE  phase'[c] \in Locked => Knows(c)'
<1> DEFINE k == Reads[at[c]]
           seen == [got[c] EXCEPT ![k] = cfg[k]]
<1>1. at[c] \in 1..6 /\ k \in Keys /\ seen \in [Keys -> Seq(Lines)] /\ cfg' = cfg
  <2>1. at[c] \in 1..6
    BY DEF IInv, DataOK, Reading
  <2>2. k \in Keys
    BY <2>1, PlanFacts
  <2> HIDE DEF k
  <2> QED BY <2>1, <2>2 DEF IInv, DataOK, ReadKey
<1>2. Rechecked(c)
  BY DEF IInv, KnowInv, Knows, Locked
<1>3. CASE PreflightVerdict(k, seen) # "ok"
  <2>1. PreflightVerdict(k, seen) \in Verdicts \ {"ok"} /\ Conclude(c, PreflightVerdict(k, seen))
    BY <1>3 DEF ReadKey, PreflightVerdict, Verdicts
  <2> HIDE DEF k, seen
  <2> QED BY <2>1, ConcludeKnows
<1>4. CASE PreflightVerdict(k, seen) = "ok"
  <2>1. /\ IF k \in Kept THEN got' = [got EXCEPT ![c] = seen] ELSE got' = got
        /\ IF at[c] < 6
           THEN at' = [at EXCEPT ![c] = @ + 1] /\ phase' = phase
           ELSE Goto(c, "exclude")
    BY <1>4, PlanFacts DEF ReadKey, AfterReading
  <2>2. /\ k = "fetch" => FetchFine(cfg.fetch)
        /\ k = "mirror" => ~Holds(cfg.mirror, "true") /\ ~Holds(got[c].push, "toOpax")
    <3>1. seen[k] = cfg[k] /\ \A o \in Keys \ {k} : seen[o] = got[c][o]
      BY <1>1 DEF IInv, DataOK
    <3> HIDE DEF k, seen
    <3> QED BY <1>1, <1>4, <3>1, PreflightSees DEF Keys
  <2>3. /\ Reads[1] = "url" /\ Reads[2] = "fetch" /\ Reads[3] = "push" /\ Reads[4] = "mirror"
        /\ Reads[5] = "ofetch" /\ Reads[6] = "opush"
    BY DEF Reads
  <2>4. got'[c] = IF k \in Kept THEN seen ELSE got[c]
    <3> HIDE DEF k, seen
    <3> QED BY <2>1 DEF IInv, DataOK
  <2>5. /\ got'[c].fetch = IF k = "fetch" THEN cfg.fetch ELSE got[c].fetch
        /\ got'[c].push = IF k = "push" THEN cfg.push ELSE got[c].push
    <3>1. got[c] \in [Keys -> Seq(Lines)]
      BY DEF IInv, DataOK
    <3> QED BY <1>1, <2>4, <3>1 DEF Kept, Keys
  <2>6. CASE at[c] < 6
    <3>1. at'[c] = at[c] + 1 /\ phase'[c] = "recheck"
      BY <2>1, <2>6 DEF IInv, DataOK
    <3>2. Rechecked(c)'
      <4> HIDE DEF seen
      <4> QED BY <1>1, <1>2, <2>2, <2>3, <2>5, <3>1 DEF Rechecked, PlainFine
    <3> QED BY <3>1, <3>2 DEF Knows
  <2>7. CASE at[c] = 6
    <3>1. phase'[c] = "exclude"
      BY <2>1, <2>7 DEF Goto, IInv, LockInv, ControlOK
    <3>2. FetchFine(cfg'.fetch) /\ got'[c].fetch = cfg'.fetch /\ PlainFine'
      BY <1>1, <1>2, <2>3, <2>5, <2>7 DEF Rechecked, PlainFine
    <3> QED BY <3>1, <3>2 DEF Knows
  <2> QED BY <1>1, <2>6, <2>7
<1> QED BY <1>3, <1>4

LEMMA StateKnows ==
  ASSUME IInv, NEW c \in Calls, ReadKey(c), phase[c] = "state", edits = base[c]
  PROVE  phase'[c] \in Locked => Knows(c)'
<1> DEFINE k == Reads[at[c]]
           seen == [got[c] EXCEPT ![k] = cfg[k]]
<1>1. at[c] \in 1..6 /\ k \in Keys /\ seen \in [Keys -> Seq(Lines)] /\ cfg' = cfg
  <2>1. at[c] \in 1..6
    BY DEF IInv, DataOK, Reading
  <2>2. k \in Keys
    BY <2>1, PlanFacts
  <2> HIDE DEF k
  <2> QED BY <2>1, <2>2 DEF IInv, DataOK, ReadKey
<1>2. Isolated(cfg) /\ Configured /\ Reported(c)
  BY DEF IInv, KnowInv, Knows, Locked
<1>3. CASE StateVerdict(k, seen) # "ok"
  <2>1. StateVerdict(k, seen) \in Verdicts \ {"ok"} /\ Conclude(c, StateVerdict(k, seen))
    BY <1>3 DEF ReadKey, StateVerdict, Verdicts
  <2> HIDE DEF k, seen
  <2> QED BY <2>1, ConcludeKnows
<1>4. CASE StateVerdict(k, seen) = "ok"
  <2>1. /\ IF k \in Kept THEN got' = [got EXCEPT ![c] = seen] ELSE got' = got
        /\ IF at[c] < 6
           THEN at' = [at EXCEPT ![c] = @ + 1] /\ phase' = phase
           ELSE Goto(c, "release")
    BY <1>4, PlanFacts DEF ReadKey, AfterReading
  <2>2. /\ Reads[1] = "url" /\ Reads[2] = "fetch" /\ Reads[3] = "push" /\ Reads[4] = "mirror"
        /\ Reads[5] = "ofetch" /\ Reads[6] = "opush"
    BY DEF Reads
  <2>3. got'[c] = IF k \in Kept THEN seen ELSE got[c]
    <3> HIDE DEF k, seen
    <3> QED BY <2>1 DEF IInv, DataOK
  <2>4. /\ got'[c].fetch = IF k = "fetch" THEN cfg.fetch ELSE got[c].fetch
        /\ got'[c].push = IF k = "push" THEN cfg.push ELSE got[c].push
        /\ got'[c].mirror = IF k = "mirror" THEN cfg.mirror ELSE got[c].mirror
    <3>1. got[c] \in [Keys -> Seq(Lines)]
      BY DEF IInv, DataOK
    <3> QED BY <1>1, <2>3, <3>1 DEF Kept, Keys
  <2>5. CASE at[c] < 6
    <3>1. at'[c] = at[c] + 1 /\ phase'[c] = "state"
      BY <2>1, <2>5 DEF IInv, DataOK
    <3>2. Reported(c)'
      <4> HIDE DEF seen
      <4> QED BY <1>1, <1>2, <2>2, <2>4, <3>1 DEF Reported
    <3> QED BY <1>1, <1>2, <3>1, <3>2 DEF Knows, Configured
  <2>6. CASE at[c] = 6
    <3>1. phase'[c] = "release"
      BY <2>1, <2>6 DEF Goto, IInv, LockInv, ControlOK
    <3>2. got'[c].fetch = cfg.fetch /\ got'[c].push = cfg.push /\ got'[c].mirror = cfg.mirror
      BY <1>1, <1>2, <2>2, <2>4, <2>6 DEF Reported
    <3>3. Isolated(got'[c])
      BY <1>2, <3>2 DEF Isolated
    <3> QED BY <1>1, <1>2, <3>1, <3>3 DEF Knows, Configured
  <2> QED BY <1>1, <2>5, <2>6
<1> QED BY <1>3, <1>4

LEMMA ExclusionKnows ==
  ASSUME IInv, NEW c \in Calls, AddExclusion(c), edits = base[c]
  PROVE  /\ phase'[c] \in Locked => Knows(c)'
         /\ cfg' = cfg \/ Occurrences(cfg'.fetch, "exclusion") <= 1
<1>1. FetchFine(cfg.fetch) /\ got[c].fetch = cfg.fetch /\ PlainFine
  BY DEF AddExclusion, IInv, KnowInv, Knows, Locked
<1>2. cfg.fetch \in Seq(Lines) /\ "exclusion" \in Lines /\ "wide" \in Lines \ {"exclusion"}
      /\ cfg \in [Keys -> Seq(Lines)]
  BY DEF IInv, DataOK, Keys, Lines, FetchLines
<1>3. CASE cfg' = cfg /\ Conclude(c, "failed")
  BY <1>3, ConcludeKnows DEF Verdicts
<1>4. CASE Goto(c, "write")
  <2>1. phase'[c] = "write" /\ at'[c] = 1
    BY <1>4 DEF Goto, IInv, LockInv, ControlOK, DataOK
  <2>2. Written(c)'
    BY <2>1 DEF Written
  <2>3. CASE cfg' = [cfg EXCEPT !.fetch = Append(@, "exclusion")] /\ ~Holds(got[c].fetch, "exclusion")
    <3>1. /\ cfg'.fetch = Append(cfg.fetch, "exclusion")
          /\ cfg'.mirror = cfg.mirror /\ cfg'.push = cfg.push
      BY <1>2, <2>3 DEF Keys
    <3>2. /\ Occurrences(Append(cfg.fetch, "exclusion"), "exclusion") = 1
          /\ ~Holds(Append(cfg.fetch, "exclusion"), "wide")
      BY <1>1, <1>2, <2>3, AppendMissing DEF FetchFine
    <3>3. Isolated(cfg')
      BY <1>1, <3>1, <3>2 DEF Isolated, FetchReachesOpax, PlainFine
    <3> QED BY <2>1, <2>2, <3>1, <3>2, <3>3 DEF Knows
  <2>4. CASE cfg' = cfg /\ Holds(got[c].fetch, "exclusion")
    <3>1. Occurrences(cfg.fetch, "exclusion") \in Nat
      BY <1>2, OccurrencesNat
    <3>2. Occurrences(cfg.fetch, "exclusion") = 1
      BY <1>1, <2>4, <3>1 DEF Holds, FetchFine
    <3>3. Isolated(cfg')
      BY <1>1, <2>4, <3>2 DEF Isolated, FetchFine, FetchReachesOpax, PlainFine
    <3> QED BY <2>1, <2>2, <2>4, <3>3 DEF Knows
  <2> QED BY <1>4, <2>3, <2>4, <1>3 DEF AddExclusion, Write
<1> QED BY <1>3, <1>4 DEF AddExclusion, Write

LEMMA PartFacts ==
  /\ Part(0) = << >> /\ Part(3) = Plan
  /\ \A n \in 0..2 : Append(Part(n), Plan[n + 1]) = Part(n + 1)
<1>1. Part(0) = << >>
  BY DEF Part
<1>2. Part(3) = Plan
  BY PlanFacts DEF Part, Plan
<1>3. ASSUME NEW n \in 0..2 PROVE Append(Part(n), Plan[n + 1]) = Part(n + 1)
  BY DEF Part
<1> QED BY <1>1, <1>2, <1>3

LEMMA RewriteKnows ==
  ASSUME IInv, NEW c \in Calls, Rewrite(c), edits = base[c]
  PROVE  phase'[c] \in Locked => Knows(c)'
<1> DEFINE n == at[c]
           k == KeyOf(n)
           v == ValueOf(n)
<1>1. Isolated(cfg) /\ Written(c) /\ n \in 1..8 /\ phase[c] = "write" /\ cfg \in [Keys -> Seq(Lines)]
  BY DEF Rewrite, IInv, DataOK, KnowInv, Knows, Locked
<1>2. CASE Conclude(c, "failed")
  BY <1>2, ConcludeKnows DEF Verdicts
<1>3. CASE /\ cfg' = [cfg EXCEPT ![k] = IF v = 0 THEN << >> ELSE Append(@, Plan[v])]
           /\ IF n < 8 THEN at' = [at EXCEPT ![c] = @ + 1] /\ phase' = phase ELSE Goto(c, "state")
  <2>1. /\ n <= 4 => k = "ofetch" /\ v = n - 1
        /\ n > 4 => k = "opush" /\ v = n - 5
    BY <1>1, PlanFacts DEF KeyOf, ValueOf
  <2>2. cfg'.fetch = cfg.fetch /\ cfg'.mirror = cfg.mirror /\ cfg'.push = cfg.push
    BY <1>1, <1>3, <2>1 DEF Keys
  <2>3. Isolated(cfg')
    BY <1>1, <2>2 DEF Isolated
  <2>4. n <= 4 => cfg'.ofetch = Part(n - 1)
    <3>1. ASSUME n = 1 PROVE cfg'.ofetch = << >>
      BY <1>1, <1>3, <2>1, <3>1 DEF Keys
    <3>2. ASSUME n \in 2..4 PROVE cfg'.ofetch = Append(Part(n - 2), Plan[n - 1])
      BY <1>1, <1>3, <2>1, <3>2 DEF Keys, Written
    <3>3. ASSUME n \in 2..4 PROVE Append(Part(n - 2), Plan[n - 1]) = Part(n - 1)
      <4>1. n - 2 \in 0..2 /\ (n - 2) + 1 = n - 1
        BY <3>3
      <4> HIDE DEF n
      <4> QED BY <4>1, PartFacts
    <3>4. n = 1 => Part(n - 1) = << >>
      <4>1. n = 1 => n - 1 = 0
        BY <1>1
      <4> QED BY <4>1, PartFacts
    <3>5. n <= 4 => n = 1 \/ n \in 2..4
      BY <1>1
    <3> HIDE DEF n, k, v
    <3> QED BY <3>1, <3>2, <3>3, <3>4, <3>5
  <2>5. n > 4 => cfg'.ofetch = Plan /\ cfg'.opush = Part(n - 5)
    <3>1. ASSUME n > 4 PROVE cfg'.ofetch = Plan
      BY <1>1, <1>3, <2>1, <3>1 DEF Keys, Written
    <3>2. ASSUME n = 5 PROVE cfg'.opush = << >>
      BY <1>1, <1>3, <2>1, <3>2 DEF Keys
    <3>3. ASSUME n \in 6..8 PROVE cfg'.opush = Append(Part(n - 6), Plan[n - 5])
      <4>1. cfg.opush = Part(n - 6)
        BY <1>1, <3>3 DEF Written
      <4>2. k = "opush" /\ v = n - 5 /\ v # 0
        BY <2>1, <3>3
      <4> HIDE DEF n, k, v
      <4>3. cfg'.opush = Append(cfg.opush, Plan[v])
        BY <1>1, <1>3, <4>2 DEF Keys
      <4> QED BY <4>1, <4>2, <4>3
    <3>4. ASSUME n \in 6..8 PROVE Append(Part(n - 6), Plan[n - 5]) = Part(n - 5)
      <4>1. n - 6 \in 0..2 /\ (n - 6) + 1 = n - 5
        BY <3>4
      <4> HIDE DEF n
      <4> QED BY <4>1, PartFacts
    <3>5. n = 5 => Part(n - 5) = << >>
      <4>1. n = 5 => n - 5 = 0
        BY <1>1
      <4> QED BY <4>1, PartFacts
    <3>6. n > 4 => n = 5 \/ n \in 6..8
      BY <1>1
    <3> HIDE DEF n, k, v
    <3> QED BY <3>1, <3>2, <3>3, <3>4, <3>5, <3>6
  <2>6. CASE n < 8
    <3>1. at'[c] = n + 1 /\ phase'[c] = "write"
      BY <1>1, <1>3, <2>6 DEF IInv, DataOK
    <3>2. Written(c)'
      <4> HIDE DEF k, v
      <4> QED BY <1>1, <2>4, <2>5, <2>6, <3>1, PartFacts DEF Written
    <3> QED BY <2>3, <3>1, <3>2 DEF Knows
  <2>7. CASE n = 8
    <3>1. phase'[c] = "state" /\ at'[c] = 1
      BY <1>3, <2>7 DEF Goto, IInv, LockInv, ControlOK, DataOK
    <3>2. Configured'
      BY <2>5, <2>7, PartFacts DEF Configured
    <3> QED BY <2>3, <3>1, <3>2 DEF Knows, Reported
  <2> QED BY <1>1, <2>6, <2>7
<1> QED BY <1>2, <1>3, PlanFacts DEF Rewrite, Write

LEMMA CallKnows ==
  ASSUME IInv, NEW c \in Calls, Begin(c) \/ Advance(c) \/ Crash(c),
         phase'[c] \in Locked, edits' = base'[c]
  PROVE  Knows(c)'
<1> USE DEF IInv, LockInv, ControlOK, DataOK
<1>1. CASE Begin(c)
  <2>1. phase'[c] = "check"
    BY <1>1 DEF Begin, Goto
  <2> QED BY <2>1 DEF Locked
<1>2. CASE ReadKey(c)
  <2>1. edits' = edits /\ base' = base /\ phase[c] \in Reading
    BY <1>2 DEF ReadKey
  <2>2. CASE phase[c] = "check"
    <3> DEFINE k == Reads[at[c]]
               seen == [got[c] EXCEPT ![k] = cfg[k]]
    <3>1. PreflightVerdict(k, seen) \in Verdicts
      BY DEF PreflightVerdict, Verdicts
    <3>2. \/ PreflightVerdict(k, seen) # "ok" /\ Conclude(c, PreflightVerdict(k, seen))
          \/ phase' = phase
          \/ Goto(c, "lock")
      BY <1>2, <2>2 DEF ReadKey, AfterReading
    <3> HIDE DEF k, seen
    <3>3. phase'[c] \in Verdicts \cup {"check", "lock"}
      BY <2>2, <3>1, <3>2 DEF Conclude, Goto, Locked
    <3> QED BY <3>3 DEF Locked, Verdicts
  <2>3. CASE phase[c] = "recheck"
    BY <1>2, <2>1, <2>3, RecheckKnows
  <2>4. CASE phase[c] = "state"
    BY <1>2, <2>1, <2>4, StateKnows
  <2> QED BY <2>1, <2>2, <2>3, <2>4 DEF Reading
<1>3. CASE ReadFails(c)
  BY <1>3, ConcludeKnows DEF ReadFails, Verdicts
<1>4. CASE AcquireRefspecLock(c)
  <2>1. (phase'[c] = "recheck" \/ phase'[c] = "timeout") /\ at'[c] = 1
    BY <1>4 DEF AcquireRefspecLock, Goto
  <2> QED BY <2>1 DEF Knows, Rechecked, Locked
<1>5. CASE AddExclusion(c)
  <2>1. edits' = edits /\ base' = base
    BY <1>5 DEF AddExclusion
  <2> QED BY <1>5, <2>1, ExclusionKnows
<1>6. CASE Rewrite(c)
  <2>1. edits' = edits /\ base' = base
    BY <1>6 DEF Rewrite
  <2> QED BY <1>6, <2>1, RewriteKnows
<1>7. CASE ReleaseLock(c)
  <2>1. phase'[c] \in Verdicts
    BY <1>7 DEF ReleaseLock, Goto, Verdicts
  <2> QED BY <2>1 DEF Verdicts, Locked
<1>8. CASE Crash(c)
  <2>1. phase'[c] = "crashed"
    BY <1>8 DEF Crash, Goto
  <2> QED BY <2>1 DEF Locked
<1> QED BY <1>1, <1>2, <1>3, <1>4, <1>5, <1>6, <1>7, <1>8 DEF Advance

LEMMA KnowStep == IInv /\ [Next]_vars => KnowInv'
<1> SUFFICES ASSUME IInv, [Next]_vars,
                    NEW d \in Calls, phase'[d] \in Locked, edits' = base'[d]
             PROVE  Knows(d)'
  BY DEF KnowInv
<1>1. ASSUME NEW c \in Calls, Begin(c) \/ Advance(c) \/ Crash(c) PROVE Knows(d)'
  <2>1. OthersAlone(c)
    BY <1>1, CallsAreApart DEF IInv
  <2>2. CASE d = c
    BY <1>1, <2>2, CallKnows
  <2>3. CASE d # c
    BY <2>1, <2>3, OthersKnow
  <2> QED BY <2>2, <2>3
<1>2. CASE UserEdits
  <2>1. edits' = edits + 1 /\ base'[d] = base[d] /\ edits \in Nat /\ base[d] \in Nat /\ base[d] <= edits
    BY <1>2 DEF UserEdits, IInv, DataOK
  <2>2. \A e, f \in Nat : f <= e => e + 1 # f
    OBVIOUS
  <2>3. edits + 1 # base[d]
    BY <2>1, <2>2
  <2> QED BY <2>1, <2>3
<1>3. CASE ManualCleanup \/ UNCHANGED vars
  <2>1. UNCHANGED <<cfg, phase, at, got, out, edits, base>>
    BY <1>3 DEF ManualCleanup, vars
  <2>2. Knows(d)
    BY <2>1 DEF IInv, KnowInv
  <2> QED BY <2>1, <2>2 DEF Knows, Rechecked, Written, Reported, Configured, PlainFine
<1> QED BY <1>1, <1>2, <1>3 DEF Next

LEMMA IInvStep == IInv /\ [Next]_vars => IInv'
  BY LockInvStep, DataStep, KnowStep DEF IInv

LEMMA IInvInit == Init => IInv
<1> SUFFICES ASSUME Init PROVE IInv
  OBVIOUS
<1>1. LockInv
  BY LockInvInit
<1>2. DataOK
  <2>1. /\ << >> \in Seq(Lines) /\ <<"url">> \in Seq(Lines)
        /\ <<"branches", "tags">> \in Seq(Lines) /\ <<"branches", "exclusion">> \in Seq(Lines)
        /\ <<"notes", "+notes", "branch">> \in Seq(Lines)
    BY DEF Lines, FetchLines
  <2>2. cfg \in [Keys -> Seq(Lines)]
    <3>1. ASSUME NEW f \in Seq(Lines), NEW o \in Seq(Lines), NEW u \in Seq(Lines), NEW e \in Seq(Lines),
                 cfg = [url |-> u, fetch |-> f, push |-> e, mirror |-> e, ofetch |-> o, opush |-> e]
          PROVE  cfg \in [Keys -> Seq(Lines)]
      BY <3>1 DEF Keys
    <3>2. \/ cfg = [url |-> <<"url">>, fetch |-> <<"branches", "tags">>, push |-> << >>,
                    mirror |-> << >>, ofetch |-> << >>, opush |-> << >>]
          \/ cfg = [url |-> <<"url">>, fetch |-> <<"branches", "exclusion">>, push |-> << >>,
                    mirror |-> << >>, ofetch |-> <<"notes", "+notes", "branch">>, opush |-> << >>]
      BY DEF Init
    <3> QED BY <2>1, <3>1, <3>2
  <2>3. NoValues \in [Keys -> Seq(Lines)]
    BY <2>1 DEF NoValues
  <2> QED BY <2>2, <2>3 DEF Init, DataOK, Reading
<1>3. KnowInv
  BY DEF Init, KnowInv, Locked
<1> QED BY <1>1, <1>2, <1>3 DEF IInv

(* Whatever other calls ran, failed or died half way before, and however the
   user edited the configuration in the meantime, an ApplyRefspecPlan that is
   about to return success has left both Opax-owned keys canonical, exactly one
   exclusion and no delivery path for plain git, and reports so, unless the
   user interfered while it held the lock. *)
THEOREM OkMeansConfiguredHolds == Spec => []OkMeansConfigured
<1>1. IInv => OkMeansConfigured
  BY DEF IInv, KnowInv, Knows, Configured, OkMeansConfigured, Locked
<1> QED BY IInvInit, IInvStep, <1>1, PTL DEF Spec

LEMMA OneExclusionStep == IInv /\ OneExclusion /\ [Next]_vars => OneExclusion'
<1> SUFFICES ASSUME IInv, OneExclusion, [Next]_vars, edits' = 0
             PROVE  Occurrences(cfg'.fetch, "exclusion") <= 1
  BY DEF OneExclusion
<1>1. ASSUME NEW c \in Calls, AddExclusion(c)
      PROVE  Occurrences(cfg'.fetch, "exclusion") <= 1
  <2>1. edits = 0 /\ edits = base[c]
    BY <1>1 DEF AddExclusion, IInv, DataOK
  <2> QED BY <1>1, <2>1, ExclusionKnows DEF OneExclusion
<1>2. ASSUME NEW c \in Calls, Rewrite(c)
      PROVE  Occurrences(cfg'.fetch, "exclusion") <= 1
  <2>1. cfg'.fetch = cfg.fetch
    BY <1>2 DEF Rewrite, Write, KeyOf, IInv, DataOK, Keys
  <2> QED BY <1>2, <2>1 DEF Rewrite, OneExclusion
<1>3. ASSUME NEW c \in Calls,
             Begin(c) \/ ReadKey(c) \/ ReadFails(c) \/ AcquireRefspecLock(c) \/ ReleaseLock(c) \/ Crash(c)
      PROVE  Occurrences(cfg'.fetch, "exclusion") <= 1
  BY <1>3 DEF Begin, ReadKey, ReadFails, AcquireRefspecLock, ReleaseLock, Crash, OneExclusion
<1>4. ~UserEdits
  BY DEF UserEdits, IInv, DataOK
<1>5. CASE ManualCleanup \/ UNCHANGED vars
  BY <1>5 DEF ManualCleanup, vars, OneExclusion
<1> QED BY <1>1, <1>2, <1>3, <1>4, <1>5 DEF Next, Advance

LEMMA OneExclusionInit == Init => OneExclusion
<1> SUFFICES ASSUME Init PROVE Occurrences(cfg.fetch, "exclusion") <= 1
  BY DEF OneExclusion
<1>1. cfg.fetch = <<"branches", "tags">> \/ cfg.fetch = <<"branches", "exclusion">>
  BY DEF Init
<1>2. {i \in 1..Len(<<"branches", "tags">>) : <<"branches", "tags">>[i] = "exclusion"} = {}
  OBVIOUS
<1>3. {i \in 1..Len(<<"branches", "exclusion">>) : <<"branches", "exclusion">>[i] = "exclusion"} = {2}
  OBVIOUS
<1>4. Cardinality({}) = 0 /\ Cardinality({2}) = 1
  BY FS_EmptySet, FS_Singleton
<1>5. Occurrences(<<"branches", "tags">>, "exclusion") = 0
  BY <1>2, <1>4 DEF Occurrences
<1>6. Occurrences(<<"branches", "exclusion">>, "exclusion") = 1
  BY <1>3, <1>4 DEF Occurrences
<1>7. Occurrences(cfg.fetch, "exclusion") \in {0, 1}
  BY <1>1, <1>5, <1>6
<1> QED BY <1>7

(* Calls that run, fail or die beside each other never give the remote a second
   exclusion: what a call read under the lock is still true when it appends. *)
THEOREM OneExclusionHolds == Spec => []OneExclusion
<1>1. IInv /\ OneExclusion /\ [Next]_vars => (IInv /\ OneExclusion)'
  BY IInvStep, OneExclusionStep
<1> QED BY IInvInit, OneExclusionInit, <1>1, PTL DEF Spec

-----------------------------------------------------------------------------
(* What a refusal or a rewrite may rest on. *)

(* A configuration of which no read of the final state would be refused, apart
   from the number of exclusions. *)
Acceptable ==
    /\ cfg.url # << >>
    /\ ~Holds(cfg.mirror, "junk")
    /\ Parses(cfg.ofetch) /\ Parses(cfg.opush)

(* What a call that the user has left alone since it took the lock has made sure
   of before it writes, and still has. *)
Vetted(c) ==
    /\ phase[c] = "recheck" => /\ at[c] > 1 => cfg.url # << >>
                               /\ at[c] > 4 => ~Holds(cfg.mirror, "junk")
                               /\ at[c] > 5 => Parses(cfg.ofetch)
    /\ phase[c] \in {"exclude", "write", "state"} => Acceptable

VettedInv == \A c \in Calls : phase[c] \in Locked /\ edits = base[c] => Vetted(c)

(* A call has a verdict when it gives the lock back, and not before. *)
VerdictsComeLast == \A c \in Calls : phase[c] # "release" => out[c] = "ok"

(* A call that has written has passed its second preflight; if it refuses after
   that, somebody has interfered with it. *)
WriterOK(c) ==
    c \in wrote =>
        /\ phase[c] \in {"write", "state", "release"}
        /\ phase[c] = "release" /\ out[c] \in Refusals => edits > base[c]

RefusalInv == IInv /\ VettedInv /\ VerdictsComeLast /\ \A c \in Calls : WriterOK(c)

LEMMA ParsesFacts ==
  /\ Parses(<< >>)
  /\ \A s \in Seq(Lines), i \in 1..3 : Parses(s) => Parses(Append(s, Plan[i]))
  /\ \A s \in Seq(Lines) : Parses(s) => ~Holds(s, "junk")
<1>1. Parses(<< >>)
  BY DEF Parses
<1>2. ASSUME NEW s \in Seq(Lines), NEW i \in 1..3, Parses(s) PROVE Parses(Append(s, Plan[i]))
  <2>1. Plan[i] \in Recognised
    BY PlanFacts DEF Recognised
  <2> HIDE DEF Recognised
  <2>2. \A j \in 1..Len(Append(s, Plan[i])) : Append(s, Plan[i])[j] \in Recognised
    <3>1. Plan[i] \in Lines BY PlanFacts
    <3> DEFINE l == Plan[i]
    <3>2. l \in Recognised /\ l \in Lines BY <2>1, <3>1
    <3> HIDE DEF l
    <3>3. \A j \in 1..Len(Append(s, l)) : Append(s, l)[j] \in Recognised
      BY <1>2, <3>2 DEF Parses
    <3> QED BY <3>3 DEF l
  <2> QED BY <2>2 DEF Parses
<1>3. ASSUME NEW s \in Seq(Lines), Parses(s) PROVE ~Holds(s, "junk")
  <2>1. "junk" \notin Recognised
    BY PlanFacts DEF Recognised, Plan, Canonical
  <2> QED BY <1>3, <2>1, HoldsMeans DEF Parses
<1> QED BY <1>1, <1>2, <1>3

LEMMA ConcludeVets ==
  ASSUME IInv, NEW c \in Calls, NEW v \in Verdicts, Conclude(c, v)
  PROVE  /\ phase'[c] \in Locked => Vetted(c)'
         /\ phase[c] \in Locked => phase'[c] = "release" /\ out'[c] = v
<1>1. phase'[c] \in {"release", v} /\ (phase[c] \in Locked => phase'[c] = "release" /\ out'[c] = v)
  BY DEF Conclude, Goto, IInv, LockInv, ControlOK
<1>2. phase'[c] \notin {"recheck", "exclude", "write", "state"}
  BY <1>1 DEF Verdicts
<1> QED BY <1>1, <1>2 DEF Vetted

(* The second preflight vets what it reads. *)
LEMMA RecheckVets ==
  ASSUME IInv, VettedInv, NEW c \in Calls, ReadKey(c), phase[c] = "recheck", edits = base[c]
  PROVE  phase'[c] \in Locked => Vetted(c)'
<1> DEFINE k == Reads[at[c]]
           seen == [got[c] EXCEPT ![k] = cfg[k]]
<1>1. at[c] \in 1..6 /\ k \in Keys /\ seen \in [Keys -> Seq(Lines)] /\ seen[k] = cfg[k] /\ cfg' = cfg
  <2>1. at[c] \in 1..6
    BY DEF IInv, DataOK, Reading
  <2>2. k \in Keys
    BY <2>1, PlanFacts
  <2> HIDE DEF k
  <2> QED BY <2>1, <2>2 DEF IInv, DataOK, ReadKey
<1>2. Vetted(c)
  BY DEF VettedInv, Locked
<1>3. CASE PreflightVerdict(k, seen) # "ok"
  <2>1. PreflightVerdict(k, seen) \in Verdicts /\ Conclude(c, PreflightVerdict(k, seen))
    BY <1>3 DEF ReadKey, PreflightVerdict, Verdicts
  <2> HIDE DEF k, seen
  <2> QED BY <2>1, ConcludeVets
<1>4. CASE PreflightVerdict(k, seen) = "ok"
  <2>1. IF at[c] < 6
        THEN at' = [at EXCEPT ![c] = @ + 1] /\ phase' = phase
        ELSE Goto(c, "exclude")
    BY <1>4, PlanFacts DEF ReadKey, AfterReading
  <2>2. /\ k = "url" => cfg.url # << >>
        /\ k = "mirror" => ~Holds(cfg.mirror, "junk")
        /\ k = "ofetch" => Parses(cfg.ofetch)
        /\ k = "opush" => Parses(cfg.opush)
    <3> HIDE DEF k, seen
    <3>1. ~(k = "url" /\ seen.url = << >>) /\ ~Invalid(k, seen)
      BY <1>4 DEF PreflightVerdict, Invalid
    <3> QED BY <1>1, <3>1 DEF Invalid
  <2>3. /\ Reads[1] = "url" /\ Reads[4] = "mirror"
        /\ Reads[5] = "ofetch" /\ Reads[6] = "opush"
    BY DEF Reads
  <2>4. CASE at[c] < 6
    <3>1. at'[c] = at[c] + 1 /\ phase'[c] = "recheck"
      BY <2>1, <2>4 DEF IInv, DataOK
    <3> HIDE DEF seen
    <3> QED BY <1>1, <1>2, <2>2, <2>3, <2>4, <3>1 DEF Vetted
  <2>5. CASE at[c] = 6
    <3>1. phase'[c] = "exclude"
      BY <2>1, <2>5 DEF Goto, IInv, LockInv, ControlOK
    <3>2. Acceptable'
      BY <1>1, <1>2, <2>2, <2>3, <2>5 DEF Vetted, Acceptable
    <3> QED BY <3>1, <3>2 DEF Vetted
  <2> QED BY <1>1, <2>4, <2>5
<1> QED BY <1>3, <1>4

(* The final read of a configuration that was vetted refuses nothing. *)
LEMMA StateAccepts ==
  ASSUME IInv, VettedInv, NEW c \in Calls, ReadKey(c), phase[c] = "state", edits = base[c]
  PROVE  /\ phase' = phase \/ (Goto(c, "release") /\ out' = out)
         /\ Acceptable
         /\ out' = out
<1> DEFINE k == Reads[at[c]]
           seen == [got[c] EXCEPT ![k] = cfg[k]]
<1>1. at[c] \in 1..6 /\ k \in Keys /\ seen \in [Keys -> Seq(Lines)] /\ seen[k] = cfg[k]
  <2>1. at[c] \in 1..6
    BY DEF IInv, DataOK, Reading
  <2>2. k \in Keys
    BY <2>1, PlanFacts
  <2> HIDE DEF k
  <2> QED BY <2>1, <2>2 DEF IInv, DataOK
<1>2. Acceptable /\ Isolated(cfg)
  BY DEF VettedInv, Vetted, IInv, KnowInv, Knows, Locked
<1>3. StateVerdict(k, seen) = "ok"
  <2> HIDE DEF k, seen
  <2>1. ~(k = "url" /\ seen.url = << >>)
    BY <1>1, <1>2 DEF Acceptable
  <2>2. ~Invalid(k, seen)
    BY <1>1, <1>2 DEF Invalid, Acceptable, Isolated
  <2> QED BY <2>1, <2>2 DEF StateVerdict
<1>4. /\ out' = out
      /\ phase' = phase \/ Goto(c, "release")
  BY <1>3 DEF ReadKey, AfterReading
<1> QED BY <1>2, <1>4

(* Rewriting puts in nothing that Opax does not recognise. *)
LEMMA RewriteAccepts ==
  ASSUME IInv, NEW c \in Calls, Rewrite(c), Acceptable
  PROVE  Acceptable'
<1> DEFINE k == KeyOf(at[c])
           v == ValueOf(at[c])
<1>1. at[c] \in 1..8 /\ cfg \in [Keys -> Seq(Lines)]
  BY DEF Rewrite, IInv, DataOK
<1>2. k \in OwnKeys /\ v \in 0..3
  BY <1>1, PlanFacts DEF KeyOf, ValueOf, OwnKeys
<1>3. CASE cfg' = [cfg EXCEPT ![k] = IF v = 0 THEN << >> ELSE Append(@, Plan[v])]
  <2> HIDE DEF k, v
  <2>1. \A o \in Keys \ {k} : cfg'[o] = cfg[o]
    BY <1>1, <1>3
  <2>2. cfg'[k] = IF v = 0 THEN << >> ELSE Append(cfg[k], Plan[v])
    BY <1>1, <1>2, <1>3 DEF OwnKeys, Keys
  <2>3. Parses(cfg'[k])
    <3>1. Parses(cfg[k]) /\ cfg[k] \in Seq(Lines)
      BY <1>1, <1>2 DEF Acceptable, OwnKeys, Keys
    <3>2. v = 0 \/ v \in 1..3
      BY <1>2
    <3> QED BY <2>2, <3>1, <3>2, ParsesFacts
  <2> QED BY <1>2, <2>1, <2>3 DEF Acceptable, OwnKeys, Keys
<1>4. CASE cfg' = cfg
  BY <1>4 DEF Acceptable
<1> QED BY <1>3, <1>4 DEF Rewrite, Write

LEMMA CallVets ==
  ASSUME IInv, VettedInv, NEW c \in Calls, Begin(c) \/ Advance(c) \/ Crash(c),
         phase'[c] \in Locked, edits' = base'[c]
  PROVE  Vetted(c)'
<1> USE DEF IInv, LockInv, ControlOK, DataOK
<1>1. CASE Begin(c)
  <2>1. phase'[c] = "check"
    BY <1>1 DEF Begin, Goto
  <2> QED BY <2>1 DEF Locked
<1>2. CASE ReadKey(c)
  <2>1. edits' = edits /\ base' = base /\ phase[c] \in Reading /\ cfg' = cfg
    BY <1>2 DEF ReadKey
  <2>2. CASE phase[c] = "check"
    <3>1. phase'[c] \notin Locked
      <4>1. phase[c] \notin Locked
        BY <2>2 DEF Locked
      <4>2. holder # c /\ holder' = holder
        BY <1>2, <4>1 DEF LockCoversWrites, ReadKey
      <4>3. LockInv'
        BY <1>2, LockInvStep DEF Next, Advance
      <4> QED BY <4>2, <4>3 DEF LockCoversWrites
    <3> QED BY <3>1
  <2>3. CASE phase[c] = "recheck"
    BY <1>2, <2>1, <2>3, RecheckVets
  <2>4. CASE phase[c] = "state"
    <3>1. Acceptable' /\ phase'[c] \in {"state", "release"}
      BY <1>2, <2>1, <2>4, StateAccepts DEF Acceptable, Goto
    <3> QED BY <3>1 DEF Vetted
  <2> QED BY <2>1, <2>2, <2>3, <2>4 DEF Reading
<1>3. CASE ReadFails(c)
  BY <1>3, ConcludeVets DEF ReadFails, Verdicts
<1>4. CASE AcquireRefspecLock(c)
  <2>1. (phase'[c] = "recheck" \/ phase'[c] = "timeout") /\ at'[c] = 1
    BY <1>4 DEF AcquireRefspecLock, Goto
  <2> QED BY <2>1 DEF Vetted
<1>5. CASE AddExclusion(c)
  <2>1. edits' = edits /\ base' = base /\ phase[c] = "exclude"
    BY <1>5 DEF AddExclusion
  <2>2. CASE Conclude(c, "failed")
    BY <2>2, ConcludeVets DEF Verdicts
  <2>3. CASE Goto(c, "write") /\ cfg' \in {cfg, [cfg EXCEPT !.fetch = Append(@, "exclusion")]}
    <3>1. Acceptable
      BY <2>1 DEF VettedInv, Vetted, Locked
    <3>2. Acceptable'
      BY <2>3, <3>1 DEF Acceptable, Keys
    <3>3. phase'[c] = "write"
      BY <2>3 DEF Goto
    <3> QED BY <3>2, <3>3 DEF Vetted
  <2> QED BY <1>5, <2>2, <2>3 DEF AddExclusion, Write
<1>6. CASE Rewrite(c)
  <2>1. edits' = edits /\ base' = base /\ phase[c] = "write"
    BY <1>6 DEF Rewrite
  <2>2. Acceptable
    BY <2>1 DEF VettedInv, Vetted, Locked
  <2>3. Acceptable'
    BY <1>6, <2>2, RewriteAccepts
  <2>4. phase'[c] \in {"write", "state", "release"}
    BY <1>6, <2>1 DEF Rewrite, Write, Conclude, Goto, Locked
  <2> QED BY <2>3, <2>4 DEF Vetted
<1>7. CASE ReleaseLock(c)
  <2>1. phase'[c] \in Verdicts
    BY <1>7 DEF ReleaseLock, Goto, Verdicts
  <2> QED BY <2>1 DEF Verdicts, Locked
<1>8. CASE Crash(c)
  <2>1. phase'[c] = "crashed"
    BY <1>8 DEF Crash, Goto
  <2> QED BY <2>1 DEF Locked
<1> QED BY <1>1, <1>2, <1>3, <1>4, <1>5, <1>6, <1>7, <1>8 DEF Advance

LEMMA VettedStep == IInv /\ VettedInv /\ [Next]_vars => VettedInv'
<1> SUFFICES ASSUME IInv, VettedInv, [Next]_vars,
                    NEW d \in Calls, phase'[d] \in Locked, edits' = base'[d]
             PROVE  Vetted(d)'
  BY DEF VettedInv
<1>1. ASSUME NEW c \in Calls, Begin(c) \/ Advance(c) \/ Crash(c) PROVE Vetted(d)'
  <2>1. OthersAlone(c)
    BY <1>1, CallsAreApart DEF IInv
  <2>2. CASE d = c
    BY <1>1, <2>2, CallVets
  <2>3. CASE d # c
    <3>1. phase'[d] = phase[d] /\ at'[d] = at[d] /\ phase[d] \in Locked /\ edits = base[d]
      BY <2>1, <2>3 DEF OthersAlone
    <3>2. phase[c] \notin Locked
      BY <2>3, <3>1 DEF IInv, LockInv, LockCoversWrites
    <3>3. cfg' = cfg
      BY <2>1, <3>2 DEF OthersAlone
    <3> QED BY <3>1, <3>3 DEF VettedInv, Vetted, Acceptable
  <2> QED BY <2>2, <2>3
<1>2. CASE UserEdits
  <2>1. edits' = edits + 1 /\ base'[d] = base[d] /\ edits \in Nat /\ base[d] \in Nat /\ base[d] <= edits
    BY <1>2 DEF UserEdits, IInv, DataOK
  <2>2. \A e, f \in Nat : f <= e => e + 1 # f
    OBVIOUS
  <2>3. edits + 1 # base[d]
    BY <2>1, <2>2
  <2> QED BY <2>1, <2>3
<1>3. CASE ManualCleanup \/ UNCHANGED vars
  <2>1. UNCHANGED <<cfg, phase, at, edits, base>>
    BY <1>3 DEF ManualCleanup, vars
  <2> QED BY <2>1 DEF VettedInv, Vetted, Acceptable
<1> QED BY <1>1, <1>2, <1>3 DEF Next

LEMMA VerdictsStep == IInv /\ VerdictsComeLast /\ [Next]_vars => VerdictsComeLast'
<1> SUFFICES ASSUME IInv, VerdictsComeLast, [Next]_vars PROVE VerdictsComeLast'
  OBVIOUS
<1> USE DEF VerdictsComeLast, IInv, LockInv, ControlOK
<1>1. ASSUME NEW c \in Calls, NEW v, Conclude(c, v), phase[c] # "release" PROVE VerdictsComeLast'
  <2>1. CASE phase[c] \in Locked
    BY <1>1, <2>1 DEF Conclude, Goto
  <2>2. CASE phase[c] \notin Locked
    BY <1>1, <2>2 DEF Conclude, Goto
  <2> QED BY <2>1, <2>2
<1>2. ASSUME NEW c \in Calls, NEW p, phase[c] # "release", out' = out,
             phase' = phase \/ Goto(c, p)
      PROVE  VerdictsComeLast'
  BY <1>2 DEF Goto
<1>3. ASSUME NEW c \in Calls, Begin(c) \/ AcquireRefspecLock(c) PROVE VerdictsComeLast'
  BY <1>2, <1>3 DEF Begin, AcquireRefspecLock
<1>4. ASSUME NEW c \in Calls, ReadKey(c) PROVE VerdictsComeLast'
  <2>1. phase[c] # "release"
    BY <1>4 DEF ReadKey, Reading
  <2>2. \/ \E v : Conclude(c, v)
        \/ out' = out /\ (phase' = phase \/ Goto(c, AfterReading(phase[c])))
    BY <1>4 DEF ReadKey
  <2> QED BY <1>1, <1>2, <2>1, <2>2
<1>5. ASSUME NEW c \in Calls, ReadFails(c) PROVE VerdictsComeLast'
  BY <1>1, <1>5 DEF ReadFails, Reading
<1>6. ASSUME NEW c \in Calls, AddExclusion(c) PROVE VerdictsComeLast'
  BY <1>1, <1>2, <1>6 DEF AddExclusion, Write
<1>7. ASSUME NEW c \in Calls, Rewrite(c) PROVE VerdictsComeLast'
  BY <1>1, <1>2, <1>7 DEF Rewrite, Write
<1>8. ASSUME NEW c \in Calls, ReleaseLock(c) \/ Crash(c) PROVE VerdictsComeLast'
  BY <1>8 DEF ReleaseLock, Crash, Reset, Goto
<1>9. CASE UserEdits \/ ManualCleanup \/ UNCHANGED vars
  BY <1>9 DEF UserEdits, ManualCleanup, vars
<1> QED BY <1>3, <1>4, <1>5, <1>6, <1>7, <1>8, <1>9 DEF Next, Advance

LEMMA WriterStep ==
  ASSUME RefusalInv, NEW c \in Calls, Begin(c) \/ Advance(c) \/ Crash(c)
  PROVE  WriterOK(c)'
<1> USE DEF RefusalInv, IInv, LockInv, ControlOK, DataOK
<1>0. WriterOK(c) /\ (phase[c] # "release" => out[c] = "ok")
  BY DEF VerdictsComeLast
<1>1. CASE Begin(c) \/ AcquireRefspecLock(c)
  <2>1. phase[c] \in {"idle", "lock"} /\ wrote' = wrote
    BY <1>1 DEF Begin, AcquireRefspecLock
  <2> QED BY <1>0, <2>1 DEF WriterOK
<1>2. CASE ReadKey(c)
  <2>1. wrote' = wrote /\ edits' = edits /\ base' = base /\ phase[c] \in Reading
    BY <1>2 DEF ReadKey
  <2>2. ASSUME c \in wrote
        PROVE  /\ phase'[c] \in {"state", "release"}
               /\ phase'[c] = "release" /\ out'[c] \in Refusals => edits > base[c]
    <3> DEFINE k == Reads[at[c]]
               seen == [got[c] EXCEPT ![k] = cfg[k]]
               verdict == StateVerdict(k, seen)
    <3>1. phase[c] = "state"
      BY <1>0, <2>1, <2>2 DEF WriterOK, Reading
    <3>2. Conclude(c, verdict) \/ phase' = phase \/ Goto(c, "release")
      BY <1>2, <3>1 DEF ReadKey, AfterReading
    <3>3. phase'[c] \in {"state", "release"}
      <4> HIDE DEF verdict
      <4> QED BY <3>1, <3>2 DEF Conclude, Goto, Locked
    <3>4. CASE edits = base[c]
      <4>1. out' = out
        BY <1>2, <3>1, <3>4, StateAccepts
      <4>2. out[c] \notin Refusals
        BY <1>0, <3>1 DEF Refusals
      <4> QED BY <3>3, <4>1, <4>2
    <3>5. CASE edits # base[c]
      <4>1. edits \in Nat /\ base[c] \in Nat /\ base[c] <= edits
        OBVIOUS
      <4> QED BY <3>3, <3>5, <4>1
    <3> QED BY <3>4, <3>5
  <2> QED BY <2>1, <2>2 DEF WriterOK
<1>3. CASE ReadFails(c)
  <2>1. wrote' = wrote /\ phase[c] \in Reading /\ Conclude(c, "failed")
    BY <1>3 DEF ReadFails
  <2>2. ASSUME c \in wrote PROVE phase'[c] = "release" /\ out'[c] = "failed"
    <3>1. phase[c] \in Locked
      BY <1>0, <2>1, <2>2 DEF WriterOK, Reading, Locked
    <3> QED BY <2>1, <3>1, ConcludeVets DEF Verdicts
  <2> QED BY <2>1, <2>2 DEF WriterOK, Refusals
<1>4. ASSUME phase[c] \in Locked, Conclude(c, "failed") PROVE WriterOK(c)'
  <2>1. phase'[c] = "release" /\ out'[c] = "failed"
    BY <1>4, ConcludeVets DEF Verdicts
  <2> QED BY <2>1 DEF WriterOK, Refusals
<1>5. CASE AddExclusion(c)
  <2>1. CASE Conclude(c, "failed")
    BY <1>4, <1>5, <2>1 DEF AddExclusion, Locked
  <2>2. CASE Goto(c, "write")
    <3>1. phase'[c] = "write"
      BY <2>2 DEF Goto
    <3> QED BY <3>1 DEF WriterOK
  <2> QED BY <1>5, <2>1, <2>2 DEF AddExclusion, Write
<1>6. CASE Rewrite(c)
  <2>1. CASE Conclude(c, "failed")
    BY <1>4, <1>6, <2>1 DEF Rewrite, Locked
  <2>2. CASE phase' = phase \/ Goto(c, "state")
    <3>1. phase'[c] \in {"write", "state"}
      BY <1>6, <2>2 DEF Rewrite, Goto
    <3> QED BY <3>1 DEF WriterOK
  <2> QED BY <1>6, <2>1, <2>2 DEF Rewrite, Write
<1>7. CASE ReleaseLock(c) \/ Crash(c)
  BY <1>7 DEF ReleaseLock, Crash, Reset, WriterOK
<1> QED BY <1>1, <1>2, <1>3, <1>5, <1>6, <1>7 DEF Advance

LEMMA RefusalStep == RefusalInv /\ [Next]_vars => RefusalInv'
<1> SUFFICES ASSUME RefusalInv, [Next]_vars PROVE RefusalInv'
  OBVIOUS
<1>1. IInv' /\ VettedInv' /\ VerdictsComeLast'
  BY IInvStep, VettedStep, VerdictsStep DEF RefusalInv
<1>2. ASSUME NEW d \in Calls PROVE WriterOK(d)'
  <2>1. ASSUME NEW c \in Calls, Begin(c) \/ Advance(c) \/ Crash(c) PROVE WriterOK(d)'
    <3>1. CASE d = c
      BY <2>1, <3>1, WriterStep
    <3>2. CASE d # c
      <4>1. phase'[d] = phase[d] /\ out'[d] = out[d] /\ base'[d] = base[d] /\ edits' = edits
        BY <2>1, <3>2, CallsAreApart DEF OthersAlone, RefusalInv, IInv
      <4>2. d \in wrote' => d \in wrote
        BY <2>1, <3>2 DEF Advance, Begin, ReadKey, ReadFails, AcquireRefspecLock,
                          AddExclusion, Rewrite, Write, ReleaseLock, Crash, Reset
      <4> QED BY <4>1, <4>2 DEF RefusalInv, WriterOK
    <3> QED BY <3>1, <3>2
  <2>2. CASE UserEdits
    <3>1. UNCHANGED <<phase, out, base, wrote>> /\ edits' = edits + 1 /\ edits \in Nat /\ base[d] \in Nat
      BY <2>2 DEF UserEdits, RefusalInv, IInv, DataOK
    <3> QED BY <3>1 DEF RefusalInv, WriterOK
  <2>3. CASE ManualCleanup \/ UNCHANGED vars
    BY <2>3 DEF ManualCleanup, vars, RefusalInv, WriterOK
  <2> QED BY <2>1, <2>2, <2>3 DEF Next
<1> QED BY <1>1, <1>2 DEF RefusalInv

LEMMA RefusalInit == Init => RefusalInv
  BY IInvInit DEF Init, RefusalInv, VettedInv, VerdictsComeLast, WriterOK, Locked

(* An ApplyRefspecPlan that refuses the configuration has not changed it, unless
   the user interfered while it held the lock: whatever the final read could
   object to, the second preflight has looked at before anything was written,
   and neither the call's own commands nor those of other calls bring it in. *)
THEOREM RefusalsWriteNothingHolds == Spec => []RefusalsWriteNothing
<1>1. RefusalInv => RefusalsWriteNothing
  BY DEF RefusalInv, WriterOK, RefusalsWriteNothing
<1> QED BY RefusalInit, RefusalStep, <1>1, PTL DEF Spec

(* While a call rewrites the keys of Opax's own, they hold no value that Opax
   does not recognise, unless the user put it there under the lock: --unset-all
   clears away nothing that was not vetted. *)
THEOREM UnknownValuesStayHolds == Spec => UnknownValuesStay
<1> DEFINE A == \A c \in Calls, k \in {"ofetch", "opush"} :
                    phase[c] = "write" /\ edits = base[c] /\ Holds(cfg[k], "junk") => Holds(cfg'[k], "junk")
<1>1. RefusalInv => [A]_cfg
  <2> SUFFICES ASSUME RefusalInv, NEW c \in Calls, NEW k \in {"ofetch", "opush"},
                      phase[c] = "write", edits = base[c]
               PROVE  ~Holds(cfg[k], "junk")
    OBVIOUS
  <2>1. Acceptable
    BY DEF RefusalInv, VettedInv, Vetted, Locked
  <2>2. Parses(cfg[k]) /\ cfg[k] \in Seq(Lines)
    BY <2>1 DEF Acceptable, RefusalInv, IInv, DataOK, Keys
  <2> QED BY <2>2, ParsesFacts
<1>2. Spec => [][A]_cfg
  BY <1>1, RefusalInit, RefusalStep, PTL DEF Spec
<1> QED BY <1>2 DEF UnknownValuesStay

-----------------------------------------------------------------------------
(* The calls use the lock file as Mutex has it, which is what the module FileLock
   is proved to implement: of the lock they see no more than it promises, and do
   to it no more than it allows. *)
THEOREM CallsUseTheMutex == Spec => Lock!Spec
<1>1. Init => Lock!Init
  BY DEF Init, Lock!Init
<1>2. [Next]_vars => [Lock!Next]_holder
  <2> SUFFICES ASSUME [Next]_vars PROVE [Lock!Next]_holder
    OBVIOUS
  <2>1. ASSUME NEW c \in Calls, Begin(c) \/ Advance(c) \/ Crash(c)
        PROVE  [Lock!Next]_holder
    <3>1. \/ Lock!Grab(c) \/ Lock!Drop(c) \/ Lock!Lose(c)
          \/ UNCHANGED holder
      BY <2>1 DEF Advance, Begin, ReadKey, ReadFails, AcquireRefspecLock, AddExclusion,
                  Rewrite, ReleaseLock, Crash
    <3> QED BY <3>1 DEF Lock!Next
  <2>2. CASE UserEdits \/ ManualCleanup \/ UNCHANGED vars
    BY <2>2 DEF UserEdits, ManualCleanup, vars, Lock!Next
  <2> QED BY <2>1, <2>2 DEF Next
<1> QED BY <1>1, <1>2, PTL DEF Spec, Lock!Spec
=============================================================================
