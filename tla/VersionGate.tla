----------------------------- MODULE VersionGate ----------------------------
(***************************************************************************)
(* internal/git/runtime_policy.go: before a goroutine works on a           *)
(* repository, `git version` must have shown a supported Git at the path   *)
(* that "git" resolves to.  The verdict is cached for the process, one for *)
(* each path.  The cache is looked up under a mutex, the probe runs        *)
(* without it, and its verdict, whatever it is, replaces what is cached.   *)
(* A probe may fail for reasons that have nothing to do with the version,  *)
(* and the Git at a path may be replaced, while the process runs.          *)
(***************************************************************************)
EXTENDS Naturals

CONSTANTS
    Tasks,      \* the goroutines of the process
    Paths,      \* where git binaries are installed, symbolic links resolved
    Versions,   \* what may be installed there: triples of numbers
    MaxInstalls \* bound: how often the user installs or relinks Git

ASSUME VersionsAssumption == Versions \subseteq Nat \X Nat \X Nat
ASSUME InstallsAssumption == MaxInstalls \in Nat

VARIABLES
    installed,  \* installed[p]: the version at path p
    onPath,     \* the path that "git" resolves to
    installs,   \* how often the user has changed either
    cache,      \* gitVersionGateCache: "none", or the verdict on a path
    gate,       \* gate[t]: where t is in ensureSupportedGitVersion, or its verdict
    binary,     \* binary[t]: the path t has resolved
    supported,  \* history: the paths at which a probe saw a supported version
    settled     \* history: the verdict on a path when its last prober had stored one

gateVars == <<installed, onPath, installs, cache, gate, binary, supported, settled>>

Verdicts == {"pass", "fail"}
Probing == {"probe", "sawPass", "sawFail"}

GateInit ==
    /\ installed \in [Paths -> Versions]
    /\ onPath \in Paths
    /\ installs = 0
    /\ cache = [p \in Paths |-> "none"]
    /\ gate = [t \in Tasks |-> "none"]
    /\ binary = [t \in Tasks |-> onPath]
    /\ supported = {}
    /\ settled = [p \in Paths |-> "none"]

Minimum == <<2, 30, 0>>     \* gitMinSupportedVersion

VersionLessThan(left, right) ==
    \E i \in 1..3 : left[i] < right[i] /\ \A j \in 1..(i - 1) : left[j] = right[j]

(* Mutant: a refusal is not believed, and asked for again. *)
EnterOrAskAgain(t) ==
    /\ binary' = [binary EXCEPT ![t] = onPath]
    /\ gate' = [gate EXCEPT ![t] = IF cache[onPath] = "pass" THEN "pass" ELSE "probe"]
    /\ UNCHANGED <<installed, onPath, installs, cache, supported, settled>>

(* newGitCommandRuntime resolves the binary, ensureSupportedGitVersion looks
   the path up in the cache. *)
EnterGate(t) ==
    /\ binary' = [binary EXCEPT ![t] = onPath]
    /\ gate' = [gate EXCEPT ![t] = IF cache[onPath] = "none" THEN "probe" ELSE cache[onPath]]
    /\ UNCHANGED <<installed, onPath, installs, cache, supported, settled>>

(* git version: it may fail, or answer what cannot be parsed. *)
Probe(t) ==
    /\ gate[t] = "probe"
    /\ \/ /\ ~VersionLessThan(installed[binary[t]], Minimum)
          /\ gate' = [gate EXCEPT ![t] = "sawPass"]
          /\ supported' = supported \cup {binary[t]}
       \/ gate' = [gate EXCEPT ![t] = "sawFail"] /\ UNCHANGED supported
    /\ UNCHANGED <<installed, onPath, installs, cache, binary, settled>>

(* cacheGitVersionGateResult stores the verdict and returns it. *)
CacheGateResult(t) ==
    LET p == binary[t]
        verdict == IF gate[t] = "sawPass" THEN "pass" ELSE "fail"
    IN  /\ gate[t] \in {"sawPass", "sawFail"}
        /\ cache' = [cache EXCEPT ![p] = verdict]
        /\ gate' = [gate EXCEPT ![t] = verdict]
        /\ settled' = IF \E u \in Tasks \ {t} : gate[u] \in Probing /\ binary[u] = p
                      THEN settled
                      ELSE [settled EXCEPT ![p] = IF @ = "none" THEN verdict ELSE @]
        /\ UNCHANGED <<installed, onPath, installs, binary, supported>>

PassGate(t) == Probe(t) \/ CacheGateResult(t)

(* The user installs another version at a path, or links another path. *)
InstallGit ==
    /\ installs < MaxInstalls
    /\ installs' = installs + 1
    /\ \/ \E p \in Paths, v \in Versions : installed' = [installed EXCEPT ![p] = v]
          /\ UNCHANGED onPath
       \/ onPath' \in Paths /\ UNCHANGED installed
    /\ UNCHANGED <<cache, gate, binary, supported, settled>>

(* Verdicts come from probes and settle: goroutines that missed the cache
   together may overwrite each other's verdict, a late failure a pass, but once
   the last of them has stored its own, the process never changes its mind
   about that path; and nobody is let through at a path where no probe has
   seen a supported version. *)
GateVerdictsSettle ==
    /\ \A p \in Paths : settled[p] # "none" => cache[p] = settled[p]
    /\ \A p \in Paths : cache[p] = "pass" => p \in supported
    /\ \A t \in Tasks : gate[t] = "pass" => binary[t] \in supported
=============================================================================
