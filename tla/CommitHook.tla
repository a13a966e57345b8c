----------------------------- MODULE CommitHook -----------------------------
(***************************************************************************)
(* Goroutines of one process that prepare commits: each discovers its      *)
(* repository, gives the commit message a save trailer                     *)
(* (UpsertSaveTrailer), and, once git has made the commit, reads the save  *)
(* ID back from it (ParseSaveTrailerFromCommit).  They share the verdicts  *)
(* on Git (VersionGate), the source of IDs (Identity) and, when they are   *)
(* in one repository, its opax directory (Discovery).                      *)
(***************************************************************************)
EXTENDS Discovery, Identity, Trailers

CONSTANTS
    Templates,  \* the messages that hooks are given, trailers only
    MaxEvents   \* bound: how much happens around the hooks, in all

ASSUME TemplatesAssumption == Templates \subseteq Seq(Trailer)

VARIABLES
    hook,       \* hook[t]: the step t is about to take, or how its call ended
    given,      \* given[t]: the message t was given
    message,    \* message[t]: the message of the commit
    saveID,     \* saveID[t]: the position in `issued` of the ID t was given
    found       \* found[t]: what ParseSaveTrailerFromCommit returned

hookOnlyVars == <<hook, given, message, saveID, found>>
hookVars == <<discoveryVars, identityVars, hookOnlyVars>>

Nothing == [verdict |-> "absent", id |-> NotAnID]

HookInit ==
    /\ DiscoveryInit
    /\ IdentityInit
    /\ hook = [t \in Tasks |-> "discover"]
    /\ given = [t \in Tasks |-> <<>>]
    /\ message = [t \in Tasks |-> <<>>]
    /\ saveID = [t \in Tasks |-> NotAnID]
    /\ found = [t \in Tasks |-> Nothing]

Hook(t, s) == hook' = [hook EXCEPT ![t] = s]

(* UpsertSaveTrailer allocates the ID, then git rewrites the message, without
   asking for a supported version.  A commit is amended, or a message reused,
   with the trailers it has. *)
AllocateSaveID(t) ==
    /\ step[t] = "ready" /\ hook[t] = "discover"
    /\ NewULID
    /\ saveID' = [saveID EXCEPT ![t] = Len(issued')]
    /\ Hook(t, "rewrite")
    /\ UNCHANGED <<discoveryVars, given, message, found>>

RewriteTrailers(t) ==
    /\ hook[t] = "rewrite"
    /\ \/ \E m \in Templates \cup {message[u] : u \in Tasks} :
            /\ given' = [given EXCEPT ![t] = m]
            /\ message' = [message EXCEPT ![t] = UpsertSaveTrailer(m, saveID[t])]
            /\ Hook(t, "commit")
       \/ Hook(t, "failed") /\ UNCHANGED <<given, message>>
    /\ UNCHANGED <<discoveryVars, identityVars, saveID, found>>

(* git makes the commit; ParseSaveTrailerFromCommit opens the repository again,
   with whatever "git" now resolves to. *)
OpenRepoFromContext(t) ==
    /\ hook[t] = "commit"
    /\ EnterGate(t)
    /\ Hook(t, "gate")
    /\ UNCHANGED <<repoVars, identityVars, given, message, saveID, found>>

ParseSaveTrailerFromCommit(t) ==
    /\ hook[t] = "gate"
    /\ gate[t] \in Verdicts
    /\ \/ gate[t] = "pass" /\ Hook(t, "done")
          /\ found' = [found EXCEPT ![t] = ParseSaveTrailer(message[t])]
       \/ Hook(t, "failed") /\ UNCHANGED found
    /\ UNCHANGED <<discoveryVars, identityVars, given, message, saveID>>

RunHook(t) ==
    \/ hook[t] = "discover" /\ DiscoverRepo(t) /\ UNCHANGED <<identityVars, hookOnlyVars>>
    \/ AllocateSaveID(t) \/ RewriteTrailers(t)
    \/ OpenRepoFromContext(t) \/ ParseSaveTrailerFromCommit(t)
    \/ hook[t] = "gate" /\ PassGate(t) /\ UNCHANGED <<repoVars, identityVars, hookOnlyVars>>

(* The user, and time. *)
Around ==
    /\ installs + moves + clock + era < MaxEvents
    /\ \/ InstallGit /\ UNCHANGED <<repoVars, identityVars, hookOnlyVars>>
       \/ MoveRepo /\ UNCHANGED <<identityVars, hookOnlyVars>>
       \/ Tick /\ UNCHANGED <<discoveryVars, hookOnlyVars>>

HookNext == Around \/ \E t \in Tasks : RunHook(t)

HookSpec == HookInit /\ [][HookNext]_hookVars

(* A hook that was given a message with no more than one trailer that git takes
   for Opax-Save makes a commit from which exactly the ID that it allocated is
   read back, whatever the message went through before, amended any number of
   times, and whatever else the process does; an error is not an answer.  All the
   other trailers are still in the message, in their order. *)
CommitsCarryTheirSave ==
    \A t \in Tasks :
        /\ hook[t] = "done" /\ Len(Keep(given[t], TakenForSave)) <= 1
              => found[t] = [verdict |-> "found", id |-> saveID[t]]
        /\ Keep(message[t], OtherTrailers) = Keep(given[t], OtherTrailers)

(* FEAT-0010 on a message with several Opax-Save trailers: "normalize to one on
   upsert".  A message that was rewritten has one. *)
OneSaveTrailer ==
    \A t \in Tasks : hook[t] = "commit" => Len(Keep(message[t], SaveTrailers)) = 1
=============================================================================
