--------------------------- MODULE LibraryProofs ---------------------------
(***************************************************************************)
(* Proofs about the parts of the library that share no state with the      *)
(* branch and the notes: the version gate, repository discovery and the    *)
(* source of IDs, as the hooks of CommitHook use them together; the save   *)
(* trailer those hooks put into a message and read back; the layering of   *)
(* configuration files.  RecordTreeProofs is extended for its facts about  *)
(* Keep.                                                                   *)
(***************************************************************************)
EXTENDS CommitHook, Config, RecordTreeProofs

-----------------------------------------------------------------------------
(* The version gate. *)

GateTypeOK ==
    /\ onPath \in Paths
    /\ cache \in [Paths -> Verdicts \cup {"none"}]
    /\ gate \in [Tasks -> Verdicts \cup Probing \cup {"none"}]
    /\ binary \in [Tasks -> Paths]
    /\ settled \in [Paths -> Verdicts \cup {"none"}]

(* Nobody probes a path about which the process has made up its mind. *)
NoLateProber ==
    \A t \in Tasks : gate[t] \in Probing => settled[binary[t]] = "none"

SeenIsSupported ==
    \A t \in Tasks : gate[t] = "sawPass" => binary[t] \in supported

GateInv == GateTypeOK /\ NoLateProber /\ SeenIsSupported /\ GateVerdictsSettle

LEMMA EnterGateKeeps ==
  ASSUME GateInv, NEW t \in Tasks, EnterGate(t)
  PROVE  GateInv'
<1> USE DEF GateInv, GateTypeOK
<1>1. /\ binary' = [binary EXCEPT ![t] = onPath]
      /\ gate' = [gate EXCEPT ![t] = IF cache[onPath] = "none" THEN "probe" ELSE cache[onPath]]
      /\ UNCHANGED <<onPath, cache, supported, settled>>
  BY DEF EnterGate
<1>2. GateTypeOK'
  BY <1>1 DEF Probing
<1>3. ASSUME NEW u \in Tasks
      PROVE  /\ gate'[u] \in Probing => settled'[binary'[u]] = "none"
             /\ gate'[u] \in {"pass", "sawPass"} => binary'[u] \in supported'
  <2>1. CASE u = t
    <3>1. binary'[t] = onPath
      BY <1>1
    <3>2. cache[onPath] = "none" => gate'[t] = "probe" /\ settled[onPath] = "none"
      BY <1>1 DEF GateVerdictsSettle
    <3>3. cache[onPath] # "none" => gate'[t] = cache[onPath] /\ gate'[t] \in Verdicts
      BY <1>1
    <3>4. cache[onPath] = "pass" => onPath \in supported
      BY DEF GateVerdictsSettle
    <3> QED BY <1>1, <2>1, <3>1, <3>2, <3>3, <3>4 DEF Verdicts, Probing
  <2>2. CASE u # t
    BY <1>1, <2>2 DEF NoLateProber, SeenIsSupported, GateVerdictsSettle
  <2> QED BY <2>1, <2>2
<1> QED BY <1>1, <1>2, <1>3 DEF NoLateProber, SeenIsSupported, GateVerdictsSettle

LEMMA PassGateKeeps ==
  ASSUME GateInv, NEW t \in Tasks, PassGate(t)
  PROVE  GateInv'
<1> USE DEF GateInv, GateTypeOK
<1>1. CASE Probe(t)
  <2>1. /\ gate[t] = "probe"
        /\ UNCHANGED <<onPath, cache, binary, settled>>
        /\ supported \subseteq supported'
        /\ \/ gate' = [gate EXCEPT ![t] = "sawPass"] /\ binary[t] \in supported'
           \/ gate' = [gate EXCEPT ![t] = "sawFail"]
    BY <1>1 DEF Probe
  <2>2. GateTypeOK'
    BY <2>1 DEF Probing
  <2>3. NoLateProber' /\ SeenIsSupported'
    BY <2>1 DEF NoLateProber, SeenIsSupported, Probing
  <2>4. GateVerdictsSettle'
    BY <2>1 DEF GateVerdictsSettle
  <2> QED BY <2>2, <2>3, <2>4
<1>2. CASE CacheGateResult(t)
  <2> DEFINE p == binary[t]
             verdict == IF gate[t] = "sawPass" THEN "pass" ELSE "fail"
  <2>1. /\ gate[t] \in Probing
        /\ cache' = [cache EXCEPT ![p] = verdict]
        /\ gate' = [gate EXCEPT ![t] = verdict]
        /\ UNCHANGED <<onPath, binary, supported>>
    BY <1>2 DEF CacheGateResult, Probing
  <2>2. p \in Paths /\ verdict \in Verdicts /\ (verdict = "pass" => p \in supported)
    BY DEF Verdicts, SeenIsSupported
  <2>3. settled[p] = "none"
    BY <2>1 DEF NoLateProber
  <2>4. \/ settled' = settled
        \/ /\ settled' = [settled EXCEPT ![p] = verdict]
           /\ \A u \in Tasks \ {t} : gate[u] \in Probing => binary[u] # p
    BY <1>2, <2>3 DEF CacheGateResult
  <2> HIDE DEF p, verdict
  <2>5. GateTypeOK'
    BY <2>1, <2>2, <2>4
  <2>6. \A u \in Tasks \ {t} : gate'[u] = gate[u]
    BY <2>1
  <2>7. gate'[t] = verdict /\ verdict \notin Probing
    BY <2>1, <2>2 DEF Verdicts, Probing
  <2>8. NoLateProber'
    <3>1. ASSUME NEW u \in Tasks \ {t}, gate[u] \in Probing PROVE settled'[binary[u]] = "none"
      BY <2>4, <3>1 DEF NoLateProber
    <3> QED BY <2>1, <2>6, <2>7, <3>1 DEF NoLateProber
  <2>9. SeenIsSupported'
    BY <2>1, <2>2, <2>6, <2>7 DEF SeenIsSupported, Probing
  <2>10. GateVerdictsSettle'
    <3>1. ASSUME NEW q \in Paths
          PROVE  /\ settled'[q] # "none" => cache'[q] = settled'[q]
                 /\ cache'[q] = "pass" => q \in supported'
      BY <2>1, <2>2, <2>3, <2>4 DEF GateVerdictsSettle
    <3>2. ASSUME NEW u \in Tasks PROVE gate'[u] = "pass" => binary'[u] \in supported'
      <4>1. CASE u = t
        BY <2>1, <2>2, <2>7, <4>1 DEF p
      <4>2. CASE u # t
        BY <2>1, <2>6, <4>2 DEF GateVerdictsSettle
      <4> QED BY <4>1, <4>2
    <3> QED BY <3>1, <3>2 DEF GateVerdictsSettle
  <2> QED BY <2>5, <2>8, <2>9, <2>10
<1> QED BY <1>1, <1>2 DEF PassGate

(* What a step of the hooks does to the gate. *)
LEMMA GateSteps ==
  ASSUME [HookNext]_hookVars
  PROVE  \/ UNCHANGED gateVars
         \/ InstallGit
         \/ \E t \in Tasks : EnterGate(t) \/ PassGate(t)
<1>1. CASE UNCHANGED hookVars
  BY <1>1 DEF hookVars, discoveryVars
<1>2. CASE Around
  BY <1>2 DEF Around, MoveRepo, discoveryVars
<1>3. ASSUME NEW t \in Tasks, RunHook(t)
      PROVE  UNCHANGED gateVars \/ EnterGate(t) \/ PassGate(t)
  <2>1. CASE DiscoverRepo(t)
    <3>1. CASE Discover(t)
      BY <3>1 DEF Discover
    <3>2. CASE DiscoverRepoCore(t)
      BY <3>2 DEF DiscoverRepoCore
    <3>3. CASE DiscoverWorkTreeRoot(t)
      BY <3>3 DEF DiscoverWorkTreeRoot
    <3>4. CASE LeaveGate(t) \/ StatOpaxDir(t) \/ MkdirAll(t) \/ DiscoveryFails(t)
      BY <3>4 DEF LeaveGate, StatOpaxDir, MkdirAll, DiscoveryFails
    <3> QED BY <2>1, <3>1, <3>2, <3>3, <3>4 DEF DiscoverRepo
  <2>2. CASE AllocateSaveID(t) \/ RewriteTrailers(t) \/ ParseSaveTrailerFromCommit(t)
    BY <2>2 DEF AllocateSaveID, RewriteTrailers, ParseSaveTrailerFromCommit, discoveryVars
  <2>3. CASE OpenRepoFromContext(t)
    BY <2>3 DEF OpenRepoFromContext
  <2> QED BY <1>3, <2>1, <2>2, <2>3 DEF RunHook
<1> QED BY <1>1, <1>2, <1>3 DEF HookNext

LEMMA GateInvStep == GateInv /\ [HookNext]_hookVars => GateInv'
<1> SUFFICES ASSUME GateInv, [HookNext]_hookVars PROVE GateInv'
  OBVIOUS
<1> USE DEF GateInv, GateTypeOK, NoLateProber, SeenIsSupported, GateVerdictsSettle
<1>1. CASE UNCHANGED gateVars
  BY <1>1 DEF gateVars
<1>2. CASE InstallGit
  BY <1>2 DEF InstallGit
<1> QED BY <1>1, <1>2, GateSteps, EnterGateKeeps, PassGateKeeps

LEMMA GateInvInit == HookInit => GateInv
  BY DEF HookInit, DiscoveryInit, GateInit, GateInv, GateTypeOK, NoLateProber,
         SeenIsSupported, GateVerdictsSettle, Probing

(* For any number of goroutines, installations and changes of what "git" resolves
   to: once the last goroutine that missed the cache together with others has
   stored its verdict on a path, ensureSupportedGitVersion never changes it, and
   it lets nobody through at a path where no probe has seen a supported version. *)
THEOREM GateVerdictsSettleHolds == HookSpec => []GateVerdictsSettle
<1>1. GateInv => GateVerdictsSettle
  BY DEF GateInv
<1> QED BY GateInvInit, GateInvStep, <1>1, PTL DEF HookSpec

-----------------------------------------------------------------------------
(* The source of IDs. *)

IDs == [ms : Nat, draw : Nat, inc : Nat, era : Nat]

IdentityTypeOK == clock \in Nat /\ era \in Nat /\ issued \in Seq(IDs)

(* IDs were minted in eras that follow each other, those of the present one not
   after what the clock shows. *)
ErasFollow ==
    /\ \A i \in 1..Len(issued) : /\ issued[i].era <= era
                                 /\ issued[i].era = era => issued[i].ms <= clock
    /\ \A i, j \in 1..Len(issued) : i < j => issued[i].era <= issued[j].era

(* Within an era milliseconds never go down, and random parts grow within the
   millisecond; across eras, a millisecond that comes again has another draw or
   goes on growing. *)
Grow(u, v) ==
    /\ u.era = v.era => u.ms <= v.ms
    /\ u.era = v.era /\ u.ms = v.ms => u.draw = v.draw
    /\ u.ms = v.ms /\ u.draw = v.draw => u.inc < v.inc

IdentityInv ==
    /\ IdentityTypeOK
    /\ ErasFollow
    /\ \A i, j \in 1..Len(issued) : i < j => Grow(issued[i], issued[j])

LEMMA IdentitySteps ==
  ASSUME [HookNext]_hookVars
  PROVE  UNCHANGED identityVars \/ NewULID \/ Tick
<1>1. CASE UNCHANGED hookVars
  BY <1>1 DEF hookVars
<1>2. CASE Around
  BY <1>2 DEF Around
<1>3. ASSUME NEW t \in Tasks, RunHook(t)
      PROVE  UNCHANGED identityVars \/ NewULID
  BY <1>3 DEF RunHook, AllocateSaveID, RewriteTrailers, OpenRepoFromContext, ParseSaveTrailerFromCommit
<1> QED BY <1>1, <1>2, <1>3 DEF HookNext

LEMMA GrowOn ==
  ASSUME NEW u \in IDs, NEW v \in IDs, NEW w \in IDs, Grow(u, v),
         u.era <= v.era, v.era <= w.era,
         w.ms = v.ms, w.draw = v.draw, w.inc = v.inc + 1
  PROVE  Grow(u, w)
<1>1. /\ {u.ms, v.ms, w.ms} \subseteq Nat /\ {u.inc, v.inc, w.inc} \subseteq Nat
      /\ {u.era, v.era, w.era} \subseteq Nat
  BY DEF IDs
<1>2. u.era = w.era => u.era = v.era
  BY <1>1
<1>3. u.era = w.era => u.ms <= w.ms
  BY <1>1, <1>2 DEF Grow
<1>4. u.era = w.era /\ u.ms = w.ms => u.draw = w.draw
  BY <1>1, <1>2 DEF Grow
<1>5. u.ms = w.ms /\ u.draw = w.draw => u.inc < w.inc
  BY <1>1 DEF Grow
<1> QED BY <1>3, <1>4, <1>5 DEF Grow

LEMMA GrowAnew ==
  ASSUME NEW u \in IDs, NEW w \in IDs,
         u.ms = w.ms => u.draw # w.draw,
         u.era = w.era => u.ms < w.ms
  PROVE  Grow(u, w)
<1>1. u.ms \in Nat /\ w.ms \in Nat
  BY DEF IDs
<1> QED BY <1>1 DEF Grow

(* The ID that follows those minted so far. *)
LEMMA NextGrows ==
  ASSUME IdentityInv, NEW u \in MonotonicNext(clock)
  PROVE  /\ u \in IDs /\ u.era = era /\ u.ms = clock
         /\ \A i \in 1..Len(issued) : Grow(issued[i], u)
<1> DEFINE n == Len(issued)
           last == issued[n]
<1> USE DEF IdentityInv, IdentityTypeOK
<1>0. n \in Nat /\ \A i \in 1..n : issued[i] \in IDs
  OBVIOUS
<1>00. u.era = era /\ u.ms = clock
  BY DEF MonotonicNext, Ulid
<1>000. issued # <<>> <=> n # 0
  OBVIOUS
<1>1. CASE issued # <<>> /\ last.ms = clock
  <2>1. u = Ulid(clock, last.draw, last.inc + 1)
    BY <1>1 DEF MonotonicNext
  <2>2. n \in 1..n /\ last \in IDs
    BY <1>0, <1>000, <1>1
  <2>3. u \in IDs /\ u.draw = last.draw /\ u.inc = last.inc + 1
    BY <2>1, <2>2 DEF Ulid, IDs
  <2>4. Grow(last, u)
    BY <1>1, <1>00, <2>2, <2>3 DEF Grow, IDs
  <2>5. ASSUME NEW i \in 1..n, i # n PROVE Grow(issued[i], u)
    <3>1. Grow(issued[i], last) /\ issued[i].era <= last.era /\ last.era <= era /\ issued[i] \in IDs
      BY <1>0, <2>2, <2>5 DEF ErasFollow
    <3> HIDE DEF last
    <3> QED BY <1>1, <1>00, <2>2, <2>3, <3>1, GrowOn
  <2> QED BY <1>00, <2>3, <2>4, <2>5
<1>2. CASE ~(issued # <<>> /\ last.ms = clock)
  <2>1. PICK d \in Draws : /\ u = Ulid(clock, d, 0)
                           /\ \A i \in DOMAIN issued : issued[i].ms = clock => issued[i].draw # d
    BY <1>2 DEF MonotonicNext
  <2>2. u \in IDs /\ u.draw = d
    BY <2>1, DrawsAssumption DEF Ulid, IDs
  <2>3. ASSUME NEW i \in 1..n PROVE Grow(issued[i], u)
    <3>1. issued[i] \in IDs /\ n \in 1..n /\ last \in IDs /\ last.ms # clock
      BY <1>0, <1>000, <1>2
    <3>2. issued[i].ms = clock => issued[i].draw # d
      BY <2>1
    <3>3. issued[i].era = era => issued[i].ms < clock
      <4> SUFFICES ASSUME issued[i].era = era PROVE issued[i].ms < clock
        OBVIOUS
      <4>1. issued[i].ms <= clock
        BY DEF ErasFollow
      <4>2. CASE i = n
        BY <3>1, <4>1, <4>2 DEF IDs
      <4>3. CASE i < n
        <5>1. Grow(issued[i], last) /\ issued[i].era <= last.era /\ last.era <= era
          BY <3>1, <4>3 DEF ErasFollow
        <5>2. last.era = era /\ last.ms <= clock /\ issued[i].ms <= last.ms
          <6>1. issued[i].era \in Nat /\ last.era \in Nat /\ era \in Nat
            BY <3>1 DEF IDs
          <6>2. last.era = era
            <7> HIDE DEF last
            <7> QED BY <5>1, <6>1
          <6>3. last.ms <= clock
            BY <3>1, <6>2 DEF ErasFollow
          <6> HIDE DEF last
          <6> QED BY <5>1, <6>2, <6>3 DEF Grow
        <5>3. last.ms \in Nat /\ issued[i].ms \in Nat
          BY <3>1 DEF IDs
        <5> HIDE DEF last
        <5> QED BY <3>1, <5>2, <5>3
      <4> QED BY <1>0, <4>2, <4>3
    <3> QED BY <1>00, <2>1, <2>2, <3>1, <3>2, <3>3, GrowAnew
  <2> QED BY <1>00, <2>2, <2>3
<1> QED BY <1>1, <1>2

LEMMA IdentityInvStep == IdentityInv /\ [HookNext]_hookVars => IdentityInv'
<1> SUFFICES ASSUME IdentityInv, [HookNext]_hookVars PROVE IdentityInv'
  OBVIOUS
<1> USE DEF IdentityInv, IdentityTypeOK
<1>1. CASE UNCHANGED identityVars
  BY <1>1 DEF identityVars, ErasFollow
<1>2. CASE NewULID
  <2>1. PICK u \in MonotonicNext(clock) : issued' = Append(issued, u) /\ UNCHANGED <<clock, era>>
    BY <1>2 DEF NewULID
  <2>2. u \in IDs /\ u.era = era /\ u.ms = clock /\ \A i \in 1..Len(issued) : Grow(issued[i], u)
    BY NextGrows
  <2>3. /\ issued' \in Seq(IDs) /\ Len(issued') = Len(issued) + 1
        /\ issued'[Len(issued) + 1] = u
        /\ \A i \in 1..Len(issued) : issued'[i] = issued[i]
    BY <2>1, <2>2
  <2>4. ErasFollow'
    BY <2>1, <2>2, <2>3 DEF ErasFollow
  <2>5. \A i, j \in 1..Len(issued') : i < j => Grow(issued'[i], issued'[j])
    BY <2>2, <2>3
  <2> QED BY <2>1, <2>3, <2>4, <2>5
<1>3. CASE Tick
  <2>1. issued' = issued /\ clock' \in Nat /\ era' \in Nat
        /\ ((era' = era /\ clock' = clock + 1) \/ era' = era + 1)
    BY <1>3 DEF Tick
  <2>2. ASSUME NEW i \in 1..Len(issued) PROVE issued[i].era \in Nat /\ issued[i].ms \in Nat
    <3>1. issued[i] \in IDs
      OBVIOUS
    <3> QED BY <3>1 DEF IDs
  <2>3. ASSUME NEW i \in 1..Len(issued)
        PROVE  issued[i].era <= era' /\ (issued[i].era = era' => issued[i].ms <= clock')
    <3>1. issued[i].era <= era /\ (issued[i].era = era => issued[i].ms <= clock)
      BY DEF ErasFollow
    <3> QED BY <2>1, <2>2, <3>1
  <2>4. ErasFollow'
    BY <2>1, <2>3 DEF ErasFollow
  <2> QED BY <2>1, <2>4
<1> QED BY <1>1, <1>2, <1>3, IdentitySteps

LEMMA IdentityInvInit == HookInit => IdentityInv
  BY DEF HookInit, IdentityInit, IdentityInv, IdentityTypeOK, ErasFollow

(* However many goroutines call NewULID, and whatever the clock does: no two IDs
   are equal, and as long as the clock is not set back, a later ID sorts after
   an earlier one. *)
THEOREM IdsAreOrderedHolds == HookSpec => []IdsAreOrdered
<1>1. IdentityInv => IdsAreOrdered
  <2> SUFFICES ASSUME IdentityInv, NEW i \in 1..Len(issued), NEW j \in 1..Len(issued), i < j
               PROVE  /\ Before(issued[i], issued[j]) \/ Before(issued[j], issued[i])
                      /\ issued[i].era = issued[j].era => Before(issued[i], issued[j])
    BY DEF IdsAreOrdered, IdentityInv, IdentityTypeOK
  <2>1. issued[i] \in IDs /\ issued[j] \in IDs /\ Grow(issued[i], issued[j])
    BY DEF IdentityInv, IdentityTypeOK
  <2> QED BY <2>1 DEF Grow, Before, IDs
<1> QED BY IdentityInvInit, IdentityInvStep, <1>1, PTL DEF HookSpec

-----------------------------------------------------------------------------
(* Repository discovery. *)

(* A context of a worktree of a repository. *)
IsContext(c) ==
    /\ c = [f \in {"gitDir", "common", "top", "linked"} |-> c[f]]
    /\ \E r \in Repos : \E worktree :
            c.gitDir = <<r, worktree>> /\ c.common = <<r, Main>> /\ c.linked = (worktree # Main)

RepoTypeOK ==
    /\ layout \in [Dirs -> UNION {Layouts[d] : d \in Dirs}]
    /\ \A d \in Dirs : layout[d] \in Layouts[d]
    /\ moves \in Nat
    /\ opaxDir \in [Repos -> {"absent", "file", "dir"}]
    /\ step \in [Tasks -> Steps \cup Refusals]
    /\ ctx = [t \in Tasks |-> ctx[t]]
    /\ between \in [Tasks -> Nat]

(* What t knows of the repository, step by step. *)
Discovered(t) ==
    /\ ctx[t] = NoContext \/ IsContext(ctx[t])
    /\ step[t] \in {"top", "stat", "mkdir", "ready"} => ctx[t] # NoContext
    /\ step[t] = "top" =>
          /\ between[t] <= moves
          /\ between[t] = moves => ctx[t].gitDir = GitDir(layout[StartDir[t]])
    /\ step[t] \in {"stat", "mkdir", "ready"} =>
          (ctx[t].top # ctx[t].gitDir => between[t] > 0)
    /\ step[t] = "ready" => opaxDir[OpaxDirOf(t)] = "dir"

RepoInv == RepoTypeOK /\ \A t \in Tasks : Discovered(t)

LEMMA ContextFacts ==
  ASSUME NEW c, IsContext(c)
  PROVE  /\ c # NoContext /\ c.gitDir # <<>> /\ c.common[1] \in Repos
         /\ c.common = <<c.gitDir[1], Main>> /\ c.linked = (c.gitDir[2] # Main)
         /\ \A new : /\ IsContext([c EXCEPT !.top = new])
                     /\ [c EXCEPT !.top = new].top = new
                     /\ [c EXCEPT !.top = new].gitDir = c.gitDir
<1>1. PICK r \in Repos : \E worktree :
            c.gitDir = <<r, worktree>> /\ c.common = <<r, Main>> /\ c.linked = (worktree # Main)
  BY DEF IsContext
<1>2. PICK worktree : c.gitDir = <<r, worktree>> /\ c.common = <<r, Main>> /\ c.linked = (worktree # Main)
  BY <1>1
<1>3. c.gitDir # <<>> /\ c.common[1] \in Repos /\ c.common = <<c.gitDir[1], Main>>
  BY <1>2
<1>4. c.linked = (c.gitDir[2] # Main)
  BY <1>2
<1>5. c # NoContext
  BY <1>3 DEF NoContext
<1>6. ASSUME NEW new
      PROVE  /\ IsContext([c EXCEPT !.top = new])
             /\ [c EXCEPT !.top = new].top = new
             /\ [c EXCEPT !.top = new].gitDir = c.gitDir
  <2>1. c = [f \in {"gitDir", "common", "top", "linked"} |-> c[f]]
    BY DEF IsContext
  <2> DEFINE n == [c EXCEPT !.top = new]
  <2>2. n.top = new /\ n.gitDir = c.gitDir /\ n.common = c.common /\ n.linked = c.linked
    BY <2>1
  <2>3. n = [f \in {"gitDir", "common", "top", "linked"} |-> n[f]]
    BY <2>1
  <2> HIDE DEF n
  <2>4. IsContext(n)
    BY <1>1, <2>2, <2>3 DEF IsContext
  <2> QED BY <2>2, <2>4 DEF n
<1> QED BY <1>3, <1>4, <1>5, <1>6

(* What discoverRepoCore reports of a worktree. *)
LEMMA CoreContext ==
  ASSUME NEW l, l.repo \in Repos, NEW c,
         c = [NoContext EXCEPT !.gitDir = GitDir(l), !.common = CommonGitDir(l),
                               !.linked = GitDir(l) # CommonGitDir(l)]
  PROVE  IsContext(c) /\ c.gitDir = GitDir(l)
<1>1. (GitDir(l) # CommonGitDir(l)) = (l.tree # Main)
  BY DEF GitDir, CommonGitDir
<1> DEFINE b == GitDir(l) # CommonGitDir(l)
<1>2. b = (l.tree # Main)
  BY <1>1
<1>3. c = [NoContext EXCEPT !.gitDir = GitDir(l), !.common = CommonGitDir(l), !.linked = b]
  OBVIOUS
<1> HIDE DEF b
<1>4. c.gitDir = GitDir(l) /\ c.common = CommonGitDir(l) /\ c.linked = b
  BY <1>3 DEF NoContext
<1>5. c = [f \in {"gitDir", "common", "top", "linked"} |-> c[f]]
  BY <1>3 DEF NoContext
<1> QED BY <1>2, <1>4, <1>5 DEF IsContext, GitDir, CommonGitDir

LEMMA LayoutFacts ==
  ASSUME RepoTypeOK, NEW t \in Tasks
  PROVE  layout[StartDir[t]].repo \in Repos
<1>1. StartDir[t] \in Dirs
  BY StartAssumption
<1>2. layout[StartDir[t]] \in UNION {Layouts[d] : d \in Dirs}
  BY <1>1 DEF RepoTypeOK
<1> QED BY <1>2 DEF Repos

(* A step of t that leaves the layout alone, and takes the directory opax from
   nobody, keeps what the others know. *)
LEMMA OthersDiscovered ==
  ASSUME RepoInv, NEW t \in Tasks, NEW u \in Tasks \ {t},
         UNCHANGED <<layout, moves>>,
         step'[u] = step[u], ctx'[u] = ctx[u], between'[u] = between[u],
         \A r \in Repos : opaxDir[r] = "dir" => opaxDir'[r] = "dir"
  PROVE  Discovered(u)'
<1>1. Discovered(u)
  BY DEF RepoInv
<1>2. step[u] = "ready" => OpaxDirOf(u) \in Repos
  BY <1>1, ContextFacts DEF Discovered, OpaxDirOf
<1> QED BY <1>1, <1>2 DEF Discovered, OpaxDirOf

LEMMA RefuseKeeps ==
  ASSUME RepoInv, NEW t \in Tasks, NEW v \in Refusals, Refuse(t, v),
         UNCHANGED <<layout, moves, opaxDir>>
  PROVE  RepoInv'
<1> USE DEF RepoInv, RepoTypeOK
<1>1. RepoTypeOK'
  BY DEF Refuse, GoTo
<1>2. Discovered(t)'
  <2>1. step'[t] = v /\ ctx'[t] = NoContext
    BY DEF Refuse, GoTo
  <2> QED BY <2>1 DEF Discovered, Refusals
<1>3. \A u \in Tasks \ {t} : Discovered(u)'
  BY OthersDiscovered DEF Refuse, GoTo
<1> QED BY <1>1, <1>2, <1>3

LEMMA DiscoverKeeps ==
  ASSUME RepoInv, NEW t \in Tasks, DiscoverRepo(t)
  PROVE  RepoInv'
<1> USE DEF RepoInv, RepoTypeOK
<1> DEFINE l == layout[StartDir[t]]
<1>0. l.repo \in Repos /\ Discovered(t)
  BY LayoutFacts
<1>1. CASE Discover(t) \/ LeaveGate(t)
  <2>1. PICK s \in {"gate", "core", "unsupported"} :
             step' = [step EXCEPT ![t] = s] /\ UNCHANGED <<layout, moves, opaxDir, ctx, between>>
    BY <1>1 DEF Discover, LeaveGate, GoTo
  <2>2. RepoTypeOK'
    BY <2>1 DEF Steps, Refusals
  <2>3. Discovered(t)'
    BY <1>0, <2>1 DEF Discovered
  <2>4. \A u \in Tasks \ {t} : Discovered(u)'
    BY <2>1, OthersDiscovered
  <2> QED BY <2>2, <2>3, <2>4
<1>2. CASE DiscoverRepoCore(t)
  <2>1. CASE /\ ctx' = [ctx EXCEPT ![t] = [NoContext EXCEPT
                            !.gitDir = GitDir(l), !.common = CommonGitDir(l),
                            !.linked = GitDir(l) # CommonGitDir(l)]]
             /\ between' = [between EXCEPT ![t] = moves]
             /\ GoTo(t, "top")
             /\ UNCHANGED <<layout, moves, opaxDir>>
    <3>2. RepoTypeOK'
      BY <2>1 DEF GoTo, Steps
    <3>3. Discovered(t)'
      <4>1. step'[t] = "top" /\ between'[t] = moves
        BY <2>1 DEF GoTo
      <4>2. IsContext(ctx'[t]) /\ ctx'[t] # NoContext /\ ctx'[t].gitDir = GitDir(l)
        <5> HIDE DEF l
        <5> QED BY <1>0, <2>1, CoreContext, ContextFacts
      <4> HIDE DEF l
      <4> QED BY <1>0, <2>1, <4>1, <4>2 DEF Discovered, l
    <3>4. \A u \in Tasks \ {t} : Discovered(u)'
      BY <2>1, OthersDiscovered DEF GoTo
    <3> QED BY <3>2, <3>3, <3>4
  <2>2. CASE \E v \in Refusals : Refuse(t, v) /\ UNCHANGED <<layout, moves, opaxDir>>
    BY <2>2, RefuseKeeps
  <2> QED BY <1>2, <2>1, <2>2 DEF DiscoverRepoCore, Refusals
<1>3. CASE DiscoverWorkTreeRoot(t)
  <2>1. CASE /\ ctx' = [ctx EXCEPT ![t].top = GitDir(l)]
             /\ between' = [between EXCEPT ![t] = moves - @]
             /\ GoTo(t, "stat")
             /\ step[t] = "top"
             /\ UNCHANGED <<layout, moves, opaxDir>>
    <3>1. IsContext(ctx[t])
      BY <1>0, <2>1 DEF Discovered
    <3>2. ctx'[t] = [ctx[t] EXCEPT !.top = GitDir(l)]
      BY <2>1
    <3>3. /\ IsContext(ctx'[t]) /\ ctx'[t] # NoContext
          /\ ctx'[t].top = GitDir(l) /\ ctx'[t].gitDir = ctx[t].gitDir
      <4> DEFINE c == ctx[t]
                 new == GitDir(l)
      <4>1. IsContext(c) /\ ctx'[t] = [c EXCEPT !.top = new]
        BY <3>1, <3>2
      <4> HIDE DEF c, new
      <4>2. /\ IsContext([c EXCEPT !.top = new])
            /\ [c EXCEPT !.top = new].top = new
            /\ [c EXCEPT !.top = new].gitDir = c.gitDir
        BY <4>1, ContextFacts
      <4>3. [c EXCEPT !.top = new] # NoContext
        <5> DEFINE d == [c EXCEPT !.top = new]
        <5>1. IsContext(d) BY <4>2
        <5> HIDE DEF d
        <5>2. d # NoContext BY <5>1, ContextFacts
        <5> QED BY <5>2 DEF d
      <4> QED BY <4>1, <4>2, <4>3 DEF c, new
    <3>4. between[t] <= moves /\ (between[t] = moves => ctx[t].gitDir = GitDir(l))
          /\ between[t] \in Nat /\ between'[t] = moves - between[t]
      BY <1>0, <2>1 DEF Discovered
    <3>5. RepoTypeOK'
      <4>1. between' \in [Tasks -> Nat]
        <5>1. moves - between[t] \in Nat
          BY <3>4
        <5> QED BY <2>1, <5>1
      <4>2. step' \in [Tasks -> Steps \cup Refusals]
        BY <2>1 DEF GoTo, Steps
      <4>3. ctx' = [u \in Tasks |-> ctx'[u]]
        BY <2>1
      <4> QED BY <2>1, <4>1, <4>2, <4>3
    <3>6. Discovered(t)'
      <4>1. step'[t] = "stat"
        BY <2>1 DEF GoTo
      <4>2. ctx'[t].top # ctx'[t].gitDir => between'[t] > 0
        BY <3>3, <3>4
      <4> QED BY <3>3, <4>1, <4>2 DEF Discovered
    <3>7. \A u \in Tasks \ {t} : Discovered(u)'
      BY <2>1, OthersDiscovered DEF GoTo
    <3> QED BY <3>5, <3>6, <3>7
  <2>2. CASE \E v \in Refusals : Refuse(t, v) /\ UNCHANGED <<layout, moves, opaxDir>>
    BY <2>2, RefuseKeeps
  <2> QED BY <1>3, <2>1, <2>2 DEF DiscoverWorkTreeRoot, Refusals
<1>4. CASE StatOpaxDir(t)
  <2>1. CASE /\ \/ GoTo(t, "ready") /\ opaxDir[OpaxDirOf(t)] = "dir"
                \/ GoTo(t, "mkdir")
             /\ step[t] = "stat"
             /\ UNCHANGED <<layout, moves, opaxDir, ctx, between>>
    <3>1. RepoTypeOK'
      BY <2>1 DEF GoTo, Steps
    <3>2. Discovered(t)'
      BY <1>0, <2>1 DEF Discovered, GoTo, OpaxDirOf
    <3>3. \A u \in Tasks \ {t} : Discovered(u)'
      BY <2>1, OthersDiscovered DEF GoTo
    <3> QED BY <3>1, <3>2, <3>3
  <2>2. CASE Refuse(t, "failed") /\ UNCHANGED <<layout, moves, opaxDir>>
    BY <2>2, RefuseKeeps DEF Refusals
  <2> QED BY <1>4, <2>1, <2>2 DEF StatOpaxDir
<1>5. CASE MkdirAll(t)
  <2>1. CASE /\ opaxDir' = [opaxDir EXCEPT ![OpaxDirOf(t)] = "dir"]
             /\ GoTo(t, "ready")
             /\ step[t] = "mkdir"
             /\ UNCHANGED <<layout, moves, ctx, between>>
    <3>1. RepoTypeOK'
      BY <2>1 DEF GoTo, Steps
    <3>2. OpaxDirOf(t) \in Repos
      BY <1>0, <2>1, ContextFacts DEF Discovered, OpaxDirOf
    <3>3. Discovered(t)'
      BY <1>0, <2>1, <3>2 DEF Discovered, GoTo, OpaxDirOf
    <3>4. \A u \in Tasks \ {t} : Discovered(u)'
      BY <2>1, OthersDiscovered DEF GoTo
    <3> QED BY <3>1, <3>3, <3>4
  <2>2. CASE Refuse(t, "failed") /\ UNCHANGED <<layout, moves, opaxDir>>
    BY <2>2, RefuseKeeps DEF Refusals
  <2> QED BY <1>5, <2>1, <2>2 DEF MkdirAll
<1>6. CASE DiscoveryFails(t)
  BY <1>6, RefuseKeeps DEF DiscoveryFails, Refusals
<1>7. CASE UNCHANGED repoVars
  BY <1>7 DEF repoVars, Discovered, OpaxDirOf
<1> QED BY <1>1, <1>2, <1>3, <1>4, <1>5, <1>6, <1>7 DEF DiscoverRepo

LEMMA MoveKeeps ==
  ASSUME RepoInv, MoveRepo
  PROVE  RepoInv'
<1> USE DEF RepoInv, RepoTypeOK
<1>1. /\ moves' = moves + 1 /\ UNCHANGED <<opaxDir, step, ctx, between>>
      /\ \E d \in Dirs : \E l \in Layouts[d] : layout' = [layout EXCEPT ![d] = l]
  BY DEF MoveRepo
<1>2. RepoTypeOK'
  BY <1>1
<1>3. ASSUME NEW t \in Tasks PROVE Discovered(t)'
  <2>1. Discovered(t) /\ between[t] \in Nat /\ moves \in Nat
    OBVIOUS
  <2> QED BY <1>1, <2>1 DEF Discovered, OpaxDirOf
<1> QED BY <1>2, <1>3

LEMMA RepoInvStep == RepoInv /\ [HookNext]_hookVars => RepoInv'
<1> SUFFICES ASSUME RepoInv, [HookNext]_hookVars PROVE RepoInv'
  OBVIOUS
<1>1. CASE UNCHANGED hookVars \/ Around
  <2>1. CASE UNCHANGED repoVars
    BY <2>1 DEF repoVars, RepoInv, RepoTypeOK, Discovered, OpaxDirOf
  <2>2. CASE MoveRepo
    BY <2>2, MoveKeeps
  <2> QED BY <1>1, <2>1, <2>2 DEF Around, hookVars, discoveryVars
<1>2. ASSUME NEW t \in Tasks, RunHook(t) PROVE RepoInv'
  <2>1. CASE DiscoverRepo(t)
    BY <2>1, DiscoverKeeps
  <2>2. CASE UNCHANGED repoVars
    BY <2>2 DEF repoVars, RepoInv, RepoTypeOK, Discovered, OpaxDirOf
  <2> QED BY <1>2, <2>1, <2>2 DEF RunHook, AllocateSaveID, RewriteTrailers,
          OpenRepoFromContext, ParseSaveTrailerFromCommit, discoveryVars
<1> QED BY <1>1, <1>2 DEF HookNext

LEMMA RepoInvInit == HookInit => RepoInv
  BY DEF HookInit, DiscoveryInit, RepoInv, RepoTypeOK, Discovered, Steps

(* However many goroutines discover repositories from whatever directories, and
   whatever the user rebuilds in the meantime: calls that found one repository
   agree on its common git directory, where the lock file is, and a call that is
   done has a directory opax there, knows a linked worktree from the main one,
   and pairs no git directory with another worktree's root, unless the layout
   changed between its two git commands. *)
THEOREM WorktreesShareTheLockHolds == HookSpec => []WorktreesShareTheLock
<1>1. RepoInv => WorktreesShareTheLock
  <2> SUFFICES ASSUME RepoInv PROVE WorktreesShareTheLock
    OBVIOUS
  <2>1. ASSUME NEW t \in Tasks, ctx[t].gitDir # <<>>
        PROVE  ctx[t].common = <<ctx[t].gitDir[1], Main>> /\ ctx[t].linked = (ctx[t].gitDir[2] # Main)
    <3>1. ctx[t] # NoContext
      BY <2>1 DEF NoContext
    <3> QED BY <3>1, ContextFacts DEF RepoInv, Discovered
  <2>2. ASSUME NEW t \in Tasks, step[t] = "ready"
        PROVE  /\ ctx[t].gitDir # <<>>
               /\ opaxDir[OpaxDirOf(t)] = "dir"
               /\ ctx[t].top # ctx[t].gitDir => between[t] > 0
    <3>1. Discovered(t)
      BY DEF RepoInv
    <3>2. ctx[t].gitDir # <<>>
      BY <2>2, <3>1, ContextFacts DEF Discovered
    <3> QED BY <2>2, <3>1, <3>2 DEF Discovered
  <2> QED BY <2>1, <2>2 DEF WorktreesShareTheLock
<1> QED BY RepoInvInit, RepoInvStep, <1>1, PTL DEF HookSpec

-----------------------------------------------------------------------------
(* The layers of the configuration. *)

HasLatest(S) == S # {} => \E i \in S : \A j \in S : j <= i

(* What the files merged so far make of the configuration. *)
Merged ==
    /\ \A f \in Fields \ {"lastCapture"} : config[f] = Layered(f)
    /\ DOMAIN config.lastCapture = Sources
    /\ \A s \in Sources : config.lastCapture[s] = layers[Latest(SourceSetters(s))].lastCapture[s]

ConfigInv ==
    /\ layers \in Seq(Layers)
    /\ \A f \in Fields : HasLatest(Setters(f))
    /\ \A s : HasLatest(SourceSetters(s))
    /\ Merged
    /\ loading \in {"team", "personal", "final", "ok", "invalid", "error"}
    /\ loading = "team" => config = Default
    /\ loading \in {"personal", "final", "ok"} => Validate(config)
    /\ loading = "invalid" => ~Validate(config) /\ layers # <<>>

LEMMA FieldsAre ==
  /\ Fields = {"version", "mode", "patterns", "enabled", "threshold", "hot", "prefix", "lastCapture"}
  /\ DOMAIN Default.lastCapture = {}
  BY DEF Fields, Default

LEMMA DefaultIsValid == Validate(Default)
<1>1. /\ Default.version = 1 /\ Default.mode = "redact" /\ Default.patterns = {}
      /\ Default.threshold = 4 /\ Default.hot = Period(30, "d") /\ Default.prefix = "Opax-"
  BY DEF Default
<1>2. Parses(Default.hot)
  <2>1. Default.hot.n = 30 /\ Default.hot.unit = "d"
    BY <1>1 DEF Period
  <2>2. "d" \in DOMAIN Units
    BY DEF Units
  <2>3. 30 < 2^(Width - 1)
    BY WidthAssumption
  <2> QED BY <2>1, <2>2, <2>3 DEF Parses
<1> QED BY <1>1, <1>2 DEF Validate, Modes

(* The last of some positions, when the next one is among them or is not. *)
LEMMA LatestOf ==
  ASSUME NEW n \in Nat, NEW S \in SUBSET (1..n), HasLatest(S)
  PROVE  /\ S # {} => Latest(S) \in S
         /\ HasLatest(S \cup {n + 1})
         /\ Latest(S \cup {n + 1}) = n + 1
<1>1. S # {} => Latest(S) \in S
  BY DEF HasLatest, Latest
<1>2. \A j \in S \cup {n + 1} : j <= n + 1
  OBVIOUS
<1>3. \A i \in S \cup {n + 1} : (\A j \in S \cup {n + 1} : j <= i) => i = n + 1
  OBVIOUS
<1> QED BY <1>1, <1>2, <1>3 DEF HasLatest, Latest

(* Positions that satisfy P, in a sequence that one more element is appended to,
   are what they were, and the new one if it satisfies P too. *)
LEMMA SettersAppend ==
  ASSUME layers \in Seq(Layers), NEW raw \in Layers, layers' = Append(layers, raw)
  PROVE  /\ \A f : Setters(f)' = Setters(f) \cup (IF f \in DOMAIN raw THEN {Len(layers) + 1} ELSE {})
         /\ \A s : SourceSetters(s)' = SourceSetters(s) \cup
                      (IF "lastCapture" \in DOMAIN raw /\ s \in DOMAIN raw.lastCapture
                       THEN {Len(layers) + 1} ELSE {})
         /\ Sources' = Sources \cup (IF "lastCapture" \in DOMAIN raw THEN DOMAIN raw.lastCapture ELSE {})
<1>1. /\ Len(layers) \in Nat /\ DOMAIN layers = 1..Len(layers)
      /\ DOMAIN layers' = 1..(Len(layers) + 1)
      /\ layers'[Len(layers) + 1] = raw
      /\ \A i \in 1..Len(layers) : layers'[i] = layers[i]
  OBVIOUS
<1>2. \A f : Setters(f)' = Setters(f) \cup (IF f \in DOMAIN raw THEN {Len(layers) + 1} ELSE {})
  BY <1>1 DEF Setters
<1>3. /\ Setters("lastCapture") \subseteq 1..Len(layers)
      /\ \A i \in Setters("lastCapture") : layers'[i] = layers[i]
  BY <1>1 DEF Setters
<1>4. ASSUME NEW s
      PROVE  SourceSetters(s)' = SourceSetters(s) \cup
                      (IF "lastCapture" \in DOMAIN raw /\ s \in DOMAIN raw.lastCapture
                       THEN {Len(layers) + 1} ELSE {})
  <2>1. Setters("lastCapture")'
          = Setters("lastCapture") \cup (IF "lastCapture" \in DOMAIN raw THEN {Len(layers) + 1} ELSE {})
    BY <1>2
  <2> QED BY <1>1, <1>3, <2>1 DEF SourceSetters
<1>5. Sources' = Sources \cup (IF "lastCapture" \in DOMAIN raw THEN DOMAIN raw.lastCapture ELSE {})
  <2>1. Setters("lastCapture")'
          = Setters("lastCapture") \cup (IF "lastCapture" \in DOMAIN raw THEN {Len(layers) + 1} ELSE {})
    BY <1>2
  <2>2. ASSUME NEW s
        PROVE  s \in Sources' <=>
                  s \in Sources \cup (IF "lastCapture" \in DOMAIN raw THEN DOMAIN raw.lastCapture ELSE {})
    <3>1. s \in Sources' <=> \E i \in Setters("lastCapture")' : s \in DOMAIN layers'[i].lastCapture
      BY DEF Sources
    <3>2. s \in Sources <=> \E i \in Setters("lastCapture") : s \in DOMAIN layers[i].lastCapture
      BY DEF Sources
    <3> QED BY <1>1, <1>3, <2>1, <3>1, <3>2
  <2> QED BY <2>2
<1> QED BY <1>2, <1>4, <1>5

(* mergeRaw keeps to the layering. *)
LEMMA MergeKeeps ==
  ASSUME ConfigInv, NEW raw \in Layers, LoadFile(raw)
  PROVE  /\ layers' \in Seq(Layers) /\ layers' # <<>>
         /\ \A f \in Fields : HasLatest(Setters(f)')
         /\ \A s : HasLatest(SourceSetters(s)')
         /\ Merged'
<1> DEFINE n == Len(layers)
<1>1. layers \in Seq(Layers) /\ layers' = Append(layers, raw) /\ config' = MergeRaw(config, raw)
  BY DEF ConfigInv, LoadFile
<1>2. /\ n \in Nat /\ layers' \in Seq(Layers) /\ layers' # <<>>
      /\ layers'[n + 1] = raw /\ \A i \in 1..n : layers'[i] = layers[i]
  BY <1>1
<1>3. \A f : Setters(f) \in SUBSET (1..n)
  BY <1>1 DEF Setters
<1>4. \A s : SourceSetters(s) \in SUBSET (1..n)
  BY <1>3 DEF SourceSetters
<1>5. ASSUME NEW f \in Fields PROVE HasLatest(Setters(f)')
  <2>1. HasLatest(Setters(f))
    BY DEF ConfigInv
  <2>2. Setters(f)' = Setters(f) \/ Setters(f)' = Setters(f) \cup {n + 1}
    BY <1>1, SettersAppend
  <2> QED BY <1>2, <1>3, <2>1, <2>2, LatestOf
<1>6. ASSUME NEW s PROVE HasLatest(SourceSetters(s)')
  <2>1. HasLatest(SourceSetters(s))
    BY DEF ConfigInv
  <2>2. SourceSetters(s)' = SourceSetters(s) \/ SourceSetters(s)' = SourceSetters(s) \cup {n + 1}
    BY <1>1, SettersAppend
  <2> QED BY <1>2, <1>4, <2>1, <2>2, LatestOf
<1>7. ASSUME NEW f \in Fields \ {"lastCapture"} PROVE config'[f] = Layered(f)'
  <2>1. HasLatest(Setters(f)) /\ config[f] = Layered(f)
    BY DEF ConfigInv, Merged
  <2>2. CASE f \in DOMAIN raw
    <3>1. config'[f] = raw[f]
      BY <1>1, <1>7, <2>2 DEF MergeRaw
    <3>2. Setters(f)' = Setters(f) \cup {n + 1}
      BY <1>1, <2>2, SettersAppend
    <3>3. Latest(Setters(f)') = n + 1
      BY <1>2, <1>3, <2>1, <3>2, LatestOf
    <3>4. Layered(f)' = layers'[Latest(Setters(f)')][f]
      BY <3>2 DEF Layered
    <3> QED BY <1>2, <3>1, <3>3, <3>4
  <2>3. CASE f \notin DOMAIN raw
    <3>1. config'[f] = config[f]
      BY <1>1, <1>7, <2>3 DEF MergeRaw
    <3>2. Setters(f)' = Setters(f)
      BY <1>1, <2>3, SettersAppend
    <3>3. Setters(f) # {} => Latest(Setters(f)) \in 1..n
      BY <1>2, <1>3, <2>1, LatestOf
    <3>4. Layered(f)' = IF Setters(f) = {} THEN Default[f] ELSE layers'[Latest(Setters(f))][f]
      BY <3>2 DEF Layered
    <3> QED BY <1>2, <2>1, <3>1, <3>3, <3>4 DEF Layered
  <2> QED BY <2>2, <2>3
<1>8. /\ DOMAIN config'.lastCapture = Sources'
      /\ \A s \in Sources' : config'.lastCapture[s] = layers'[Latest(SourceSetters(s)')].lastCapture[s]
  <2>1. /\ DOMAIN config.lastCapture = Sources
        /\ \A s \in Sources : config.lastCapture[s] = layers[Latest(SourceSetters(s))].lastCapture[s]
        /\ \A s : HasLatest(SourceSetters(s))
    BY DEF ConfigInv, Merged
  <2>2. "lastCapture" \in Fields
    BY FieldsAre
  <2>3. ASSUME NEW s \in Sources, SourceSetters(s)' = SourceSetters(s)
        PROVE  layers'[Latest(SourceSetters(s)')].lastCapture[s] = config.lastCapture[s]
    <3>1. SourceSetters(s) # {}
      BY <2>3 DEF Sources, SourceSetters
    <3>2. Latest(SourceSetters(s)) \in 1..n
      BY <1>2, <1>4, <2>1, <3>1, LatestOf
    <3> QED BY <1>2, <2>1, <2>3, <3>2
  <2>4. CASE "lastCapture" \notin DOMAIN raw
    <3>1. config'.lastCapture = config.lastCapture
      BY <1>1, <2>2, <2>4 DEF MergeRaw
    <3>2. Sources' = Sources /\ \A s : SourceSetters(s)' = SourceSetters(s)
      BY <1>1, <2>4, SettersAppend
    <3> QED BY <2>1, <2>3, <3>1, <3>2
  <2>5. CASE "lastCapture" \in DOMAIN raw
    <3> DEFINE new == raw.lastCapture
               old == config.lastCapture
    <3>1. config'.lastCapture = MergeMaps(new, old)
      BY <1>1, <2>2, <2>5 DEF MergeRaw
    <3>2. /\ DOMAIN config'.lastCapture = DOMAIN new \cup DOMAIN old
          /\ \A s \in DOMAIN new : config'.lastCapture[s] = new[s]
          /\ \A s \in DOMAIN old \ DOMAIN new : config'.lastCapture[s] = old[s]
      BY <3>1 DEF MergeMaps
    <3>3. Sources' = Sources \cup DOMAIN new
      BY <1>1, <2>5, SettersAppend
    <3>4. ASSUME NEW s \in DOMAIN new
          PROVE  layers'[Latest(SourceSetters(s)')].lastCapture[s] = new[s]
      <4>1. SourceSetters(s)' = SourceSetters(s) \cup {n + 1}
        BY <1>1, <2>5, <3>4, SettersAppend
      <4>2. Latest(SourceSetters(s)') = n + 1
        BY <1>2, <1>4, <2>1, <4>1, LatestOf
      <4> QED BY <1>2, <4>2
    <3>5. ASSUME NEW s \in Sources \ DOMAIN new
          PROVE  SourceSetters(s)' = SourceSetters(s)
      <4>1. ~("lastCapture" \in DOMAIN raw /\ s \in DOMAIN raw.lastCapture)
        BY <3>5
      <4>2. SourceSetters(s)' = SourceSetters(s) \cup {}
        <5> HIDE DEF new
        <5> QED BY <1>1, <4>1, SettersAppend
      <4> QED BY <4>2
    <3> HIDE DEF new, old
    <3>6. ASSUME NEW s \in Sources'
          PROVE  config'.lastCapture[s] = layers'[Latest(SourceSetters(s)')].lastCapture[s]
      <4>1. CASE s \in DOMAIN new
        BY <3>2, <3>4, <4>1
      <4>2. CASE s \in Sources \ DOMAIN new
        BY <2>1, <2>3, <3>2, <3>5, <4>2 DEF old
      <4> QED BY <3>3, <3>6, <4>1, <4>2
    <3> QED BY <2>1, <3>2, <3>3, <3>6 DEF old
  <2> QED BY <2>4, <2>5
<1> QED BY <1>2, <1>5, <1>6, <1>7, <1>8 DEF Merged

LEMMA ConfigInvStep == ConfigInv /\ [ConfigNext]_configVars => ConfigInv'
<1> SUFFICES ASSUME ConfigInv, [ConfigNext]_configVars PROVE ConfigInv'
  OBVIOUS
<1>1. ASSUME NEW raw \in Layers, LoadFile(raw) PROVE ConfigInv'
  <2>1. loading' = (IF Validate(config') THEN NextFile ELSE "invalid") /\ NextFile \in {"personal", "final"}
    BY <1>1 DEF LoadFile, NextFile
  <2> QED BY <1>1, <2>1, MergeKeeps DEF ConfigInv
<1>2. ASSUME UNCHANGED <<config, layers>> PROVE Merged' /\ UNCHANGED <<Validate(config)>>
               /\ (\A f \in Fields : HasLatest(Setters(f)')) /\ (\A s : HasLatest(SourceSetters(s)'))
  BY <1>2 DEF ConfigInv, Merged, Layered, Setters, SourceSetters, Sources
<1>3. CASE SkipFile
  <2>1. NextFile \in {"personal", "final"} /\ loading' = NextFile /\ UNCHANGED <<config, layers>>
        /\ loading \in {"team", "personal"}
    BY <1>3 DEF SkipFile, NextFile
  <2>2. Validate(config)
    BY <2>1, DefaultIsValid DEF ConfigInv
  <2> QED BY <1>2, <2>1, <2>2 DEF ConfigInv
<1>4. CASE FileFails
  BY <1>2, <1>4 DEF FileFails, ConfigInv
<1>5. CASE FinalValidate
  <2>1. loading' = "ok" /\ UNCHANGED <<config, layers>> /\ Validate(config)
    BY <1>5 DEF FinalValidate, ConfigInv
  <2> QED BY <1>2, <2>1 DEF ConfigInv
<1>6. CASE UNCHANGED configVars
  BY <1>2, <1>6 DEF configVars, ConfigInv
<1> QED BY <1>1, <1>3, <1>4, <1>5, <1>6 DEF ConfigNext

LEMMA ConfigInvInit == ConfigInit => ConfigInv
<1> SUFFICES ASSUME ConfigInit PROVE ConfigInv
  OBVIOUS
<1>1. loading = "team" /\ config = Default /\ layers = <<>>
  BY DEF ConfigInit
<1>2. \A f : Setters(f) = {}
  BY <1>1 DEF Setters
<1>3. (\A s : SourceSetters(s) = {}) /\ Sources = {}
  BY <1>2 DEF SourceSetters, Sources
<1>4. Merged
  BY <1>1, <1>2, <1>3, FieldsAre DEF Merged, Layered
<1> QED BY <1>1, <1>2, <1>3, <1>4 DEF ConfigInv, HasLatest

(* Whatever files there are: a configuration that Load returns is valid, the last
   file that sets a field decides about it, be it to zero or to false, and the
   keys of the map are merged; and one that is refused is invalid because of a
   file that was read. *)
THEOREM LoadIsLayeredHolds == ConfigSpec => []LoadIsLayered
<1>1. ConfigInv => LoadIsLayered
  BY DEF ConfigInv, Merged, LoadIsLayered
<1> QED BY ConfigInvInit, ConfigInvStep, <1>1, PTL DEF ConfigSpec

-----------------------------------------------------------------------------
(* The trailer of a save. *)

(* A set of positions in a sequence has a last one. *)
LEMMA MaxOfIndices ==
    ASSUME NEW n \in Nat, NEW I \in SUBSET (1..n), I # {}
    PROVE  Max(I) \in I
<1> DEFINE T == {k \in Nat : k <= n => \A i \in I : i <= n - k}
<1>1. \E x \in I : \A y \in I : x >= y
    <2> SUFFICES ASSUME \A x \in I : \E y \in I : ~(x >= y) PROVE FALSE
        OBVIOUS
    <2>1. 0 \in T
        OBVIOUS
    <2>2. ASSUME NEW k \in Nat, k \in T PROVE k + 1 \in T
        <3> SUFFICES ASSUME k + 1 <= n, NEW i \in I PROVE i <= n - (k + 1)
            OBVIOUS
        <3>1. \A j \in I : j <= n - k
            BY <2>2
        <3>2. PICK j \in I : ~(i >= j)
            OBVIOUS
        <3> QED BY <3>1, <3>2
    <2>3. \A k \in Nat : k \in T
        <3> HIDE DEF T
        <3> QED BY <2>1, <2>2, NatSetInduction
    <2>4. \A i \in I : i <= n - n
        <3>1. n \in T /\ n <= n
            BY <2>3
        <3> QED BY <3>1
    <2>5. PICK i \in I : TRUE
        OBVIOUS
    <2>6. i <= 0 /\ i \in 1..n
        BY <2>4
    <2> QED BY <2>6
<1> QED BY <1>1 DEF Max

(* What git makes of a message: every other trailer stays, and if there is one at
   most that git takes for the save ID, the new one is the only one. *)
LEMMA UpsertFacts ==
    ASSUME NEW m \in Seq(Trailer), NEW id \in Nat \ {0}
    PROVE  LET out == UpsertSaveTrailer(m, id)
           IN  /\ out \in Seq(Trailer)
               /\ Keep(out, OtherTrailers) = Keep(m, OtherTrailers)
               /\ Len(Keep(m, TakenForSave)) <= 1 =>
                     ParseSaveTrailer(out) = [verdict |-> "found", id |-> id]
<1> DEFINE new == [token |-> SaveToken, value |-> id]
           alike == {i \in DOMAIN m : m[i] \in TakenForSave}
           rest == IF alike = {} THEN m ELSE RemoveAt(m, Max(alike))
           out == Append(rest, new)
<1>0. Len(m) \in Nat /\ DOMAIN m = 1..Len(m)
    OBVIOUS
<1>1. /\ new \in Trailer /\ new \in SaveTrailers /\ new \notin OtherTrailers
      /\ OtherTrailers \cap TakenForSave = {} /\ SaveTrailers \subseteq TakenForSave
    BY SaveTokenAssumption, TokensAssumption
       DEF Trailer, TakenForSave, OtherTrailers, SaveTrailers, TrailersOf
<1> HIDE DEF new
<1>2. /\ rest \in Seq(Trailer)
      /\ Keep(rest, OtherTrailers) = Keep(m, OtherTrailers)
      /\ Len(Keep(m, TakenForSave)) <= 1 => Keep(rest, SaveTrailers) = <<>>
    <2>1. CASE alike = {}
        <3>1. \A i \in 1..Len(m) : m[i] \notin SaveTrailers
            BY <1>0, <1>1, <2>1
        <3>2. Keep(m, SaveTrailers) = <<>>
            BY <3>1, KeepEmptyIff
        <3> QED BY <2>1, <3>2
    <2>2. CASE alike # {}
        <3> DEFINE k == Max(alike)
                   x == UpTo(m, k)
                   y == From(m, k)
                   e == m[k]
        <3>1. k \in 1..Len(m) /\ e \in TakenForSave
            <4>1. alike \in SUBSET (1..Len(m))
                BY <1>0
            <4>2. k \in alike
                <5> HIDE DEF alike
                <5> QED BY <1>0, <2>2, <4>1, MaxOfIndices
            <4> QED BY <1>0, <4>2
        <3> HIDE DEF k
        <3>2. rest = x \o y
            BY <2>2 DEF RemoveAt, UpTo, From, k
        <3>3. x \in Seq(Trailer) /\ y \in Seq(Trailer) /\ e \in Trailer
            <4>1. e \in Trailer
                BY <3>1
            <4> QED BY <3>1, <4>1, Split
        <3>4. \A S : Keep(m, S) = Keep(x, S) \o ((IF e \in S THEN <<e>> ELSE <<>>) \o Keep(y, S))
            BY <3>1, KeepAround
        <3> HIDE DEF x, y, e, rest
        <3>5. \A S : /\ Keep(rest, S) = Keep(x, S) \o Keep(y, S)
                     /\ Keep(x, S) \in Seq(Trailer) /\ Keep(y, S) \in Seq(Trailer)
            <4> TAKE S
            <4>1. Keep(x \o y, S) = Keep(x, S) \o Keep(y, S)
                BY <3>3, KeepConcat
            <4>2. Keep(x, S) \in Seq(Trailer \cap S) /\ Keep(y, S) \in Seq(Trailer \cap S)
                BY <3>3, KeepType
            <4>3. Keep(x, S) \in Seq(Trailer) /\ Keep(y, S) \in Seq(Trailer)
                BY <4>2, SeqMonotonic
            <4> QED BY <3>2, <4>1, <4>3
        <3>6. rest \in Seq(Trailer)
            BY <3>2, <3>3, ConcatProperties
        <3>7. Keep(rest, OtherTrailers) = Keep(m, OtherTrailers)
            <4> DEFINE b == Keep(y, OtherTrailers)
            <4>1. e \notin OtherTrailers
                BY <1>1, <3>1
            <4>2. <<>> \o b = b
                BY <3>5, ConcatEmptySeq
            <4> HIDE DEF b
            <4>3. Keep(m, OtherTrailers) = Keep(x, OtherTrailers) \o b
                BY <3>4, <4>1, <4>2 DEF b
            <4>4. Keep(rest, OtherTrailers) = Keep(x, OtherTrailers) \o b
                BY <3>5 DEF b
            <4> QED BY <4>3, <4>4
        <3>8. ASSUME Len(Keep(m, TakenForSave)) <= 1 PROVE Keep(rest, SaveTrailers) = <<>>
            <4> DEFINE a == Keep(x, TakenForSave)
                       b == Keep(y, TakenForSave)
            <4>1. a \in Seq(Trailer) /\ b \in Seq(Trailer)
                BY <3>5
            <4>2. Keep(m, TakenForSave) = a \o (<<e>> \o b)
                BY <3>1, <3>4
            <4> HIDE DEF a, b
            <4>3. Len(a \o (<<e>> \o b)) = Len(a) + (1 + Len(b)) /\ Len(a) \in Nat /\ Len(b) \in Nat
                <5>1. <<e>> \in Seq(Trailer) /\ Len(<<e>>) = 1
                    BY <3>3
                <5>2. <<e>> \o b \in Seq(Trailer) /\ Len(<<e>> \o b) = 1 + Len(b)
                    BY <4>1, <5>1, ConcatProperties
                <5> QED BY <4>1, <5>2, ConcatProperties
            <4>4. Len(a) = 0 /\ Len(b) = 0
                BY <3>8, <4>2, <4>3
            <4>5. a = <<>> /\ b = <<>>
                BY <4>1, <4>4
            <4>6. \A i \in 1..Len(x) : x[i] \notin TakenForSave
                BY <3>3, <4>5, KeepEmptyIff DEF a
            <4>7. \A i \in 1..Len(y) : y[i] \notin TakenForSave
                BY <3>3, <4>5, KeepEmptyIff DEF b
            <4>8. Keep(x, SaveTrailers) = <<>>
                BY <1>1, <3>3, <4>6, KeepEmptyIff
            <4>9. Keep(y, SaveTrailers) = <<>>
                BY <1>1, <3>3, <4>7, KeepEmptyIff
            <4> QED BY <3>5, <4>8, <4>9
        <3> QED BY <3>6, <3>7, <3>8
    <2> QED BY <2>1, <2>2
<1> HIDE DEF rest
<1>3. out \in Seq(Trailer) /\ out = rest \o <<new>> /\ <<new>> \in Seq(Trailer)
    BY <1>1, <1>2, AppendProperties, AppendIsConcat
<1> HIDE DEF out
<1>4. ASSUME NEW S PROVE Keep(out, S) = Keep(rest, S) \o (IF new \in S THEN <<new>> ELSE <<>>)
    <2> DEFINE one == <<new>>
    <2>1. one \in Seq(Trailer) /\ out = rest \o one
        BY <1>3
    <2>2. Keep(one, S) = IF new \in S THEN <<new>> ELSE <<>>
        BY KeepOfOne
    <2> HIDE DEF one
    <2>3. Keep(rest \o one, S) = Keep(rest, S) \o Keep(one, S)
        <3>1. rest \in Seq(Trailer) /\ one \in Seq(Trailer)
            BY <1>2, <2>1
        <3> QED BY <3>1, KeepConcat
    <2>4. Keep(out, S) = Keep(rest, S) \o Keep(one, S)
        BY <2>1, <2>3
    <2> QED BY <2>2, <2>4
<1>5. Keep(out, OtherTrailers) = Keep(m, OtherTrailers)
    <2> DEFINE kept == Keep(rest, OtherTrailers)
    <2>1. kept \in Seq(Trailer \cap OtherTrailers)
        BY <1>2, KeepType
    <2> HIDE DEF kept
    <2>2. kept \o <<>> = kept
        BY <2>1, ConcatEmptySeq
    <2>3. Keep(out, OtherTrailers) = kept \o <<>>
        BY <1>1, <1>4 DEF kept
    <2> QED BY <1>2, <2>2, <2>3 DEF kept
<1>6. ASSUME Len(Keep(m, TakenForSave)) <= 1
      PROVE  ParseSaveTrailer(out) = [verdict |-> "found", id |-> id]
    <2>1. Keep(out, SaveTrailers) = <<>> \o <<new>>
        BY <1>1, <1>2, <1>4, <1>6
    <2>2. <<>> \o <<new>> = <<new>>
        OBVIOUS
    <2> DEFINE saves == Keep(out, SaveTrailers)
    <2>3. saves = <<new>>
        BY <2>1, <2>2
    <2> HIDE DEF saves
    <2>4. saves # <<>> /\ Len(saves) = 1 /\ saves[1].value = id
        BY <2>3 DEF new
    <2>5. id # NotAnID
        BY NotAnIDAssumption
    <2> QED BY <2>4, <2>5 DEF ParseSaveTrailer, saves
<1>7. out = UpsertSaveTrailer(m, id)
    BY DEF out, rest, new, UpsertSaveTrailer, InterpretTrailers
<1> QED BY <1>3, <1>5, <1>6, <1>7

(* The hooks, up to the answer of ParseSaveTrailerFromCommit. *)
IDNumber == Nat \ {0}
Rewritten == {"commit", "gate", "done"}

HookTypeOK ==
    /\ hook \in [Tasks -> {"discover", "rewrite", "failed"} \cup Rewritten]
    /\ given \in [Tasks -> Seq(Trailer)]
    /\ message \in [Tasks -> Seq(Trailer)]
    /\ saveID \in [Tasks -> IDNumber \cup {NotAnID}]
    /\ found = [t \in Tasks |-> found[t]]

(* What a hook has in hand: an ID from its allocation on, and once git rewrote
   the message, the message it was given with that ID. *)
InHand(t) ==
    /\ hook[t] = "rewrite" \/ hook[t] \in Rewritten => saveID[t] \in IDNumber
    /\ hook[t] \in Rewritten => message[t] = UpsertSaveTrailer(given[t], saveID[t])
    /\ hook[t] = "done" => found[t] = ParseSaveTrailer(message[t])

(* Every hook has that in hand, and whatever else was in the message is there. *)
SaveInv ==
    /\ HookTypeOK
    /\ \A t \in Tasks : InHand(t)
    /\ \A t \in Tasks : Keep(message[t], OtherTrailers) = Keep(given[t], OtherTrailers)

(* What a step of the library does to what the hooks have in hand. *)
LEMMA HookSteps ==
  ASSUME [HookNext]_hookVars
  PROVE  \/ UNCHANGED hookOnlyVars
         \/ \E t \in Tasks : \/ AllocateSaveID(t) \/ RewriteTrailers(t)
                             \/ OpenRepoFromContext(t) \/ ParseSaveTrailerFromCommit(t)
<1>1. CASE UNCHANGED hookVars
  BY <1>1 DEF hookVars
<1>2. CASE Around
  BY <1>2 DEF Around
<1>3. ASSUME NEW t \in Tasks, RunHook(t)
      PROVE  \/ UNCHANGED hookOnlyVars
             \/ AllocateSaveID(t) \/ RewriteTrailers(t)
             \/ OpenRepoFromContext(t) \/ ParseSaveTrailerFromCommit(t)
  BY <1>3 DEF RunHook
<1> QED BY <1>1, <1>2, <1>3 DEF HookNext

LEMMA SaveInvInit == HookInit => SaveInv
<1> SUFFICES ASSUME HookInit PROVE SaveInv
  OBVIOUS
<1>1. /\ hook = [t \in Tasks |-> "discover"]
      /\ given = [t \in Tasks |-> <<>>]
      /\ message = [t \in Tasks |-> <<>>]
      /\ saveID = [t \in Tasks |-> NotAnID]
      /\ found = [t \in Tasks |-> Nothing]
  BY DEF HookInit
<1>2. HookTypeOK
  BY <1>1 DEF HookTypeOK
<1>3. \A t \in Tasks : hook[t] = "discover" /\ message[t] = given[t]
  BY <1>1
<1> QED BY <1>2, <1>3 DEF SaveInv, InHand, Rewritten

LEMMA SaveInvStep == SaveInv /\ issued \in Seq(IDs) /\ [HookNext]_hookVars => SaveInv'
<1> SUFFICES ASSUME SaveInv, issued \in Seq(IDs), [HookNext]_hookVars PROVE SaveInv'
  OBVIOUS
<1>0. HookTypeOK /\ \A u \in Tasks : InHand(u) /\ Keep(message[u], OtherTrailers) = Keep(given[u], OtherTrailers)
  BY DEF SaveInv
<1>1. CASE UNCHANGED hookOnlyVars
  <2>1. UNCHANGED <<hook, given, message, saveID, found>>
    BY <1>1 DEF hookOnlyVars
  <2> QED BY <1>0, <2>1 DEF SaveInv, HookTypeOK, InHand
<1>2. ASSUME NEW t \in Tasks, AllocateSaveID(t) PROVE SaveInv'
  <2>1. /\ saveID' = [saveID EXCEPT ![t] = Len(issued')]
        /\ hook' = [hook EXCEPT ![t] = "rewrite"]
        /\ given' = given /\ message' = message /\ found' = found
    BY <1>2 DEF AllocateSaveID, Hook
  <2>2. Len(issued') \in IDNumber
    <3>1. PICK u \in MonotonicNext(clock) : issued' = Append(issued, u)
      BY <1>2 DEF AllocateSaveID, NewULID
    <3>2. Len(issued') = Len(issued) + 1 /\ Len(issued) \in Nat
      BY <3>1
    <3> QED BY <3>2 DEF IDNumber
  <2>3. HookTypeOK'
    BY <1>0, <2>1, <2>2 DEF HookTypeOK
  <2>4. ASSUME NEW u \in Tasks PROVE InHand(u)'
    BY <1>0, <2>1, <2>2 DEF HookTypeOK, InHand, Rewritten
  <2> QED BY <1>0, <2>1, <2>3, <2>4 DEF SaveInv
<1>3. ASSUME NEW t \in Tasks, RewriteTrailers(t) PROVE SaveInv'
  <2>0. hook[t] = "rewrite" /\ saveID' = saveID /\ found' = found
    BY <1>3 DEF RewriteTrailers
  <2>1. ASSUME NEW m \in Templates \cup {message[u] : u \in Tasks},
               given' = [given EXCEPT ![t] = m],
               message' = [message EXCEPT ![t] = UpsertSaveTrailer(m, saveID[t])],
               hook' = [hook EXCEPT ![t] = "commit"]
        PROVE  SaveInv'
    <3>1. m \in Seq(Trailer)
      BY <1>0, <2>1, TemplatesAssumption DEF HookTypeOK
    <3>2. saveID[t] \in IDNumber
      BY <1>0, <2>0 DEF InHand
    <3> DEFINE out == UpsertSaveTrailer(m, saveID[t])
    <3>3. out \in Seq(Trailer) /\ Keep(out, OtherTrailers) = Keep(m, OtherTrailers)
      BY <3>1, <3>2, UpsertFacts DEF IDNumber
    <3>4. given'[t] = m /\ message'[t] = out /\ hook'[t] = "commit"
      BY <1>0, <2>1 DEF HookTypeOK
    <3>5. \A u \in Tasks \ {t} : given'[u] = given[u] /\ message'[u] = message[u] /\ hook'[u] = hook[u]
      BY <1>0, <2>1 DEF HookTypeOK
    <3>6. HookTypeOK'
      <4> HIDE DEF out
      <4>1. message' = [message EXCEPT ![t] = out]
        BY <2>1 DEF out
      <4> QED BY <1>0, <2>0, <2>1, <3>1, <3>3, <4>1 DEF HookTypeOK, Rewritten
    <3>7. ASSUME NEW u \in Tasks
          PROVE  InHand(u)' /\ Keep(message'[u], OtherTrailers) = Keep(given'[u], OtherTrailers)
      <4>1. CASE u = t
        BY <2>0, <3>2, <3>3, <3>4, <4>1 DEF InHand
      <4>2. CASE u # t
        BY <1>0, <2>0, <3>5, <4>2 DEF InHand
      <4> QED BY <4>1, <4>2
    <3> QED BY <3>6, <3>7 DEF SaveInv
  <2>2. CASE hook' = [hook EXCEPT ![t] = "failed"] /\ UNCHANGED <<given, message>>
    <3>1. HookTypeOK'
      BY <1>0, <2>0, <2>2 DEF HookTypeOK
    <3>2. \A u \in Tasks : InHand(u)'
      BY <1>0, <2>0, <2>2 DEF HookTypeOK, InHand, Rewritten
    <3> QED BY <1>0, <2>2, <3>1, <3>2 DEF SaveInv
  <2> QED BY <1>3, <2>1, <2>2 DEF RewriteTrailers, Hook
<1>4. ASSUME NEW t \in Tasks, OpenRepoFromContext(t) PROVE SaveInv'
  <2>1. /\ hook[t] = "commit" /\ hook' = [hook EXCEPT ![t] = "gate"]
        /\ UNCHANGED <<given, message, saveID, found>>
    BY <1>4 DEF OpenRepoFromContext, Hook
  <2>2. HookTypeOK'
    BY <1>0, <2>1 DEF HookTypeOK, Rewritten
  <2>3. \A u \in Tasks : InHand(u)'
    BY <1>0, <2>1 DEF HookTypeOK, InHand, Rewritten
  <2> QED BY <1>0, <2>1, <2>2, <2>3 DEF SaveInv
<1>5. ASSUME NEW t \in Tasks, ParseSaveTrailerFromCommit(t) PROVE SaveInv'
  <2>1. hook[t] = "gate" /\ UNCHANGED <<given, message, saveID>>
    BY <1>5 DEF ParseSaveTrailerFromCommit
  <2>2. CASE /\ hook' = [hook EXCEPT ![t] = "done"]
             /\ found' = [found EXCEPT ![t] = ParseSaveTrailer(message[t])]
    <3> DEFINE answer == ParseSaveTrailer(message[t])
    <3> HIDE DEF answer
    <3>0. found' = [found EXCEPT ![t] = answer]
      BY <2>2 DEF answer
    <3>1. HookTypeOK'
      BY <1>0, <2>1, <2>2, <3>0 DEF HookTypeOK, Rewritten
    <3>2. found'[t] = answer /\ \A u \in Tasks \ {t} : found'[u] = found[u]
      BY <1>0, <3>0 DEF HookTypeOK
    <3>3. hook'[t] = "done" /\ \A u \in Tasks \ {t} : hook'[u] = hook[u]
      BY <1>0, <2>2 DEF HookTypeOK
    <3>4. ASSUME NEW u \in Tasks PROVE InHand(u)'
      <4>1. CASE u = t
        BY <1>0, <2>1, <3>2, <3>3, <4>1 DEF InHand, Rewritten, answer
      <4>2. CASE u # t
        BY <1>0, <2>1, <3>2, <3>3, <4>2 DEF InHand
      <4> QED BY <4>1, <4>2
    <3> QED BY <1>0, <2>1, <3>1, <3>4 DEF SaveInv
  <2>3. CASE hook' = [hook EXCEPT ![t] = "failed"] /\ UNCHANGED found
    <3>1. HookTypeOK'
      BY <1>0, <2>1, <2>3 DEF HookTypeOK
    <3>2. \A u \in Tasks : InHand(u)'
      BY <1>0, <2>1, <2>3 DEF HookTypeOK, InHand, Rewritten
    <3> QED BY <1>0, <2>1, <3>1, <3>2 DEF SaveInv
  <2> QED BY <1>5, <2>2, <2>3 DEF ParseSaveTrailerFromCommit, Hook
<1> QED BY <1>1, <1>2, <1>3, <1>4, <1>5, HookSteps

(* However many goroutines run the hooks, and whatever message they are given: if
   it has at most one trailer that git takes for the save ID, the commit has the
   ID that was allocated for it and ParseSaveTrailerFromCommit finds that one;
   and all the trailers that are not the save ID's stay, in their order. *)
THEOREM CommitsCarryTheirSaveHolds == HookSpec => []CommitsCarryTheirSave
<1>1. SaveInv => CommitsCarryTheirSave
  <2> SUFFICES ASSUME SaveInv, NEW t \in Tasks
               PROVE  hook[t] = "done" /\ Len(Keep(given[t], TakenForSave)) <= 1
                        => found[t] = [verdict |-> "found", id |-> saveID[t]]
    BY DEF SaveInv, CommitsCarryTheirSave
  <2>1. given[t] \in Seq(Trailer)
    BY DEF SaveInv, HookTypeOK
  <2>2. hook[t] = "done" => /\ saveID[t] \in Nat \ {0}
                            /\ message[t] = UpsertSaveTrailer(given[t], saveID[t])
                            /\ found[t] = ParseSaveTrailer(message[t])
    BY DEF SaveInv, InHand, Rewritten, IDNumber
  <2> QED BY <2>1, <2>2, UpsertFacts
<1>2. HookSpec => [](issued \in Seq(IDs))
  <2>1. IdentityInv => issued \in Seq(IDs)
    BY DEF IdentityInv, IdentityTypeOK
  <2> QED BY <2>1, IdentityInvInit, IdentityInvStep, PTL DEF HookSpec
<1> QED BY <1>1, <1>2, SaveInvInit, SaveInvStep, PTL DEF HookSpec
=============================================================================
