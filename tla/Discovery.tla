------------------------------ MODULE Discovery -----------------------------
(***************************************************************************)
(* internal/git/discovery.go: DiscoverRepo asks git, in two commands, for  *)
(* the directories of the repository around a start directory; then        *)
(* EnsureOpaxDir makes the directory `opax` in the common git directory,   *)
(* which all worktrees of a repository share, and where the lock file is.  *)
(* The user may add, remove or convert repositories and worktrees in       *)
(* between.                                                                *)
(***************************************************************************)
EXTENDS VersionGate

CONSTANTS
    Dirs,       \* the directories calls start from
    StartDir,   \* StartDir[t]: the directory t starts from
    Layouts,    \* Layouts[d]: what git may find around d, as in Layout
    Main,       \* the name of a repository's main worktree
    MaxMoves    \* bound: how often the user changes what is found

ASSUME StartAssumption == StartDir \in [Tasks -> Dirs]
ASSUME MovesAssumption == MaxMoves \in Nat

VARIABLES
    layout,     \* layout[d]: what git finds around directory d now
    moves,      \* how often the user has changed it
    opaxDir,    \* opaxDir[r]: what is at <common git dir of r>/opax
    step,       \* step[t]: the step t is about to take, or how its call ended
    ctx,        \* ctx[t]: the RepoContext, as far as it is known
    between     \* history: between[t]: moves when git was first asked, and
                \* then how many of them came before it was asked again

repoVars == <<layout, moves, opaxDir, step, ctx, between>>
discoveryVars == <<gateVars, repoVars>>

(* A worktree of a repository, a bare repository, no repository, or a .git file
   or commondir file that leads nowhere. *)
Kinds == {"work", "bare", "none", "broken"}
Layout(kind, repo, tree) == [kind |-> kind, repo |-> repo, tree |-> tree]
Repos == {l.repo : l \in UNION {Layouts[d] : d \in Dirs}}

(* The directories git names: the git directory of a linked worktree lies in the
   common one, that of the main worktree is the common one. *)
GitDir(l) == <<l.repo, l.tree>>
CommonGitDir(l) == <<l.repo, Main>>
NoContext == [gitDir |-> <<>>, common |-> <<>>, top |-> <<>>, linked |-> FALSE]

Steps == {"idle", "gate", "core", "top", "stat", "mkdir", "ready"}
Refusals == {"notRepo", "bareRepo", "unsupported", "failed"}

DiscoveryInit ==
    /\ GateInit
    /\ layout \in {l \in [Dirs -> UNION {Layouts[d] : d \in Dirs}] :
                      \A d \in Dirs : l[d] \in Layouts[d]}
    /\ moves = 0
    /\ \E there \in {"absent", "file"} : opaxDir = [r \in Repos |-> there]
    /\ step = [t \in Tasks |-> "idle"]
    /\ ctx = [t \in Tasks |-> NoContext]
    /\ between = [t \in Tasks |-> 0]

GoTo(t, s) == step' = [step EXCEPT ![t] = s]

(* normalizeStartDir, then the version gate. *)
Discover(t) ==
    /\ step[t] = "idle"
    /\ EnterGate(t)
    /\ GoTo(t, "gate")
    /\ UNCHANGED <<layout, moves, opaxDir, ctx, between>>

LeaveGate(t) ==
    /\ step[t] = "gate"
    /\ gate[t] \in Verdicts
    /\ GoTo(t, IF gate[t] = "pass" THEN "core" ELSE "unsupported")
    /\ UNCHANGED <<gateVars, layout, moves, opaxDir, ctx, between>>

(* An error is returned without a context, and the caller gives up. *)
Refuse(t, verdict) ==
    /\ GoTo(t, verdict)
    /\ ctx' = [ctx EXCEPT ![t] = NoContext]
    /\ between' = [between EXCEPT ![t] = 0]

(* Mutant: the git directory is where the repository's files are. *)
CoreWithoutCommonDir(t) ==
    LET l == layout[StartDir[t]]
    IN  /\ step[t] = "core" /\ l.kind = "work"
        /\ ctx' = [ctx EXCEPT ![t] = [NoContext EXCEPT
                        !.gitDir = GitDir(l), !.common = GitDir(l)]]
        /\ between' = [between EXCEPT ![t] = moves]
        /\ GoTo(t, "top")
        /\ UNCHANGED <<gateVars, layout, moves, opaxDir>>

(* discoverRepoCore: git rev-parse --absolute-git-dir --git-common-dir
   --is-bare-repository.  What probeDiscoveryFailure reads after a failure only
   decides which error is returned. *)
DiscoverRepoCore(t) ==
    LET l == layout[StartDir[t]]
    IN  /\ step[t] = "core"
        /\ \/ /\ l.kind = "work"
              /\ ctx' = [ctx EXCEPT ![t] = [NoContext EXCEPT
                            !.gitDir = GitDir(l), !.common = CommonGitDir(l),
                            !.linked = GitDir(l) # CommonGitDir(l)]]
              /\ between' = [between EXCEPT ![t] = moves]
              /\ GoTo(t, "top")
           \/ l.kind = "bare" /\ Refuse(t, "bareRepo")
           \/ l.kind = "none" /\ Refuse(t, "notRepo")
           \/ l.kind = "broken" /\ Refuse(t, "failed")
        /\ UNCHANGED <<gateVars, layout, moves, opaxDir>>

(* discoverWorkTreeRoot: git rev-parse --show-toplevel, a command of its own. *)
DiscoverWorkTreeRoot(t) ==
    LET l == layout[StartDir[t]]
    IN  /\ step[t] = "top"
        /\ \/ /\ l.kind = "work"
              /\ ctx' = [ctx EXCEPT ![t].top = GitDir(l)]
              /\ between' = [between EXCEPT ![t] = moves - @]
              /\ GoTo(t, "stat")
           \/ l.kind = "none" /\ Refuse(t, "notRepo")
           \/ l.kind \in {"bare", "broken"} /\ Refuse(t, "failed")
        /\ UNCHANGED <<gateVars, layout, moves, opaxDir>>

(* EnsureOpaxDir looks for the directory, and makes it in another step. *)
OpaxDirOf(t) == ctx[t].common[1]

StatOpaxDir(t) ==
    /\ step[t] = "stat"
    /\ \/ opaxDir[OpaxDirOf(t)] = "dir" /\ GoTo(t, "ready") /\ UNCHANGED <<ctx, between>>
       \/ opaxDir[OpaxDirOf(t)] = "file" /\ Refuse(t, "failed")
       \/ opaxDir[OpaxDirOf(t)] = "absent" /\ GoTo(t, "mkdir") /\ UNCHANGED <<ctx, between>>
    /\ UNCHANGED <<gateVars, layout, moves, opaxDir>>

(* os.MkdirAll is content with a directory that is there by now. *)
MkdirAll(t) ==
    /\ step[t] = "mkdir"
    /\ \/ /\ opaxDir[OpaxDirOf(t)] # "file"
          /\ opaxDir' = [opaxDir EXCEPT ![OpaxDirOf(t)] = "dir"]
          /\ GoTo(t, "ready")
          /\ UNCHANGED <<ctx, between>>
       \/ opaxDir[OpaxDirOf(t)] = "file" /\ Refuse(t, "failed") /\ UNCHANGED opaxDir
    /\ UNCHANGED <<gateVars, layout, moves>>

(* There is no start directory or no git, or a git command or an access to the
   file system fails for any other reason. *)
DiscoveryFails(t) ==
    /\ step[t] \in {"idle", "core", "top", "stat", "mkdir"}
    /\ Refuse(t, "failed")
    /\ UNCHANGED <<gateVars, layout, moves, opaxDir>>

(* The user's doing: git worktree, git init, core.bare, .git files that are moved
   or spoiled.  Nobody takes the opax directory out of a repository. *)
MoveRepo ==
    /\ moves < MaxMoves
    /\ moves' = moves + 1
    /\ \E d \in Dirs : \E l \in Layouts[d] \ {layout[d]} :
            layout' = [layout EXCEPT ![d] = l]
    /\ UNCHANGED <<gateVars, opaxDir, step, ctx, between>>

DiscoverRepo(t) ==
    \/ Discover(t) \/ LeaveGate(t) \/ DiscoverRepoCore(t) \/ DiscoverWorkTreeRoot(t)
    \/ StatOpaxDir(t) \/ MkdirAll(t) \/ DiscoveryFails(t)
    \/ step[t] = "gate" /\ PassGate(t) /\ UNCHANGED repoVars

(* Calls that discover one repository, from whichever of its worktrees and at
   whatever time, agree on the common git directory, and so on the lock file
   that keeps them from each other, and on the directory EnsureOpaxDir has made
   there, and know a linked worktree from the main one.  Only a user who rebuilds
   the layout between the two git commands of one call can make it pair the git
   directory of one worktree with the root of another. *)
WorktreesShareTheLock ==
    /\ \A t, u \in Tasks :
          ctx[t].gitDir # <<>> /\ ctx[u].gitDir # <<>> /\ ctx[t].gitDir[1] = ctx[u].gitDir[1]
             => ctx[t].common = ctx[u].common
    /\ \A t \in Tasks : step[t] = "ready" =>
          /\ opaxDir[OpaxDirOf(t)] = "dir"
          /\ ctx[t].linked = (ctx[t].gitDir[2] # Main)
          /\ ctx[t].top # ctx[t].gitDir => between[t] > 0
=============================================================================
