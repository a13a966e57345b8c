----------------------------- MODULE MCLibrary ------------------------------
(* The parts of the library that share no state with each other, for TLC: each
   behaviour exercises one of them, so that their state spaces add up. *)
EXTENDS CommitHook, Config, RecordTree, TLC

CONSTANTS a, b, here, there, R, O, usr, opt

VARIABLE part

libraryVars == <<part, hookVars, configVars, treeVars>>

LibraryInit ==
    /\ part \in {"hook", "config", "tree"}
    /\ HookInit /\ ConfigInit /\ TreeInit
    /\ part # "hook" => layout[here].kind = "work" /\ layout[there].kind = "none"
                        /\ (\A r \in Repos : opaxDir[r] = "absent")
                        /\ (\A x \in Paths : installed[x] = Minimum)
    /\ part # "tree" => tree = Empty

LibraryNext ==
    \/ part = "hook" /\ HookNext /\ UNCHANGED <<part, configVars, treeVars>>
    \/ part = "config" /\ ConfigNext /\ UNCHANGED <<part, hookVars, treeVars>>
    \/ part = "tree" /\ TreeNext /\ UNCHANGED <<part, hookVars, configVars>>

LibrarySpec == LibraryInit /\ [][LibraryNext]_libraryVars

(* Hooks: a in the main worktree, b around a linked one; a message without
   trailers, one to be amended, one that git's comparison of tokens matters for,
   one that was squashed. *)
MCStartDir == (a :> here) @@ (b :> there)
MCVersions == {<<2, 29, 9>>, <<2, 30, 0>>}
MCLayouts ==
    (here :> {Layout("work", R, Main), Layout("bare", R, Main)})
    @@ (there :> {Layout("work", R, "linked"), Layout("work", O, Main),
                  Layout("none", O, Main), Layout("broken", R, "linked")})

Line(token, value) == [token |-> token, value |-> value]
MCTemplates == {
    <<>>,
    <<Line("opax-save", 100), Line("Signed-off-by", 0)>>,
    <<Line("Opax-Save-Extra", 0), Line("Signed-off-by", 0)>>,
    <<Line("Opax-Save", 100), Line("Opax-Save", 101)>>}

(* Files that set at most two fields. *)
Values == [version |-> {0, 2}, mode |-> {"warn", "loud"}, patterns |-> {{}, {"["}, {"k.*"}},
           enabled |-> BOOLEAN, threshold |-> {0, 7},
           hot |-> {NoPeriod, Period(0, "d"), Period(5, "w"), Period(9, "y"), Period(3, "q")},
           prefix |-> {"", "Opax-", "Opax"},
           lastCapture |-> {[s \in S |-> m] : S \in SUBSET {"cli", "ide"}, m \in {"old", "new"}}]
One(f) == {f :> v : v \in Values[f]}
MCLayers ==
    {[f \in {} |-> 0]} \cup UNION {One(f) : f \in Fields}
    \cup UNION {{l @@ m : l \in One(f), m \in One(g)} : f, g \in {"enabled", "threshold", "lastCapture"}}

(* Two records of one shard and one elsewhere; what others may have left. *)
MCRootOf == [s1 |-> <<"sessions", "0a", "s1">>, s2 |-> <<"sessions", "0a", "s2">>,
             e1 |-> <<"ext-x", "0b", "e1">>]
Meta == <<"meta", "version.json">> :> "sentinel"
MCForeign == {
    Empty, Meta,
    Meta @@ (<<"sessions", "0a", "s0", "a">> :> "x") @@ (<<"docs">> :> "y"),
    Meta @@ (<<"sessions", "0a">> :> "x"),
    Meta @@ (<<"sessions", "0a", "s2">> :> "x"),
    Meta @@ (<<"sessions", "0a", "s0", "a">> :> "x") @@ (<<"ext-x", "sub">> :> Link)}
MCBackslashed == {"a\\b"}
MCValidRoots == {MCRootOf[r] : r \in DOMAIN MCRootOf} \cup {<<"sessions", "0a", "s0">>}

Spelled == {<<"a">>, <<".", "a">>, <<"a", "", "b">>, <<"c", "">>}
Refused == {<<"..", "c">>, <<"a\\b">>, <<"">>, <<"", "c">>}
File(path, i) == [path |-> path, content |-> IF i = 1 THEN "x" ELSE "y"]
MCRequests ==
    {<<>>} \cup {<<File(f, 1)>> : f \in {<<"a">>, <<"a", "b", "c">>} \cup Refused}
    \cup {<<File(f, 1), File(g, 2)>> : f, g \in Spelled}
    \cup {<<File(<<"a", "b">>, 1), File(<<"c">>, 2), File(<<"a">>, 3)>>,
          <<File(<<"a">>, 1), File(<<"c">>, 2), File(<<"a", "b">>, 3)>>,
          <<File(<<"a", "b">>, 1), File(<<"c">>, 2), File(<<"a", "d">>, 3)>>}

(* Keep is what SelectSeq makes of its test. *)
ASSUME KeepIsSelectSeq ==
    \A s \in UNION {[1..n -> 1..3] : n \in 0..5}, S \in SUBSET (1..3) :
        Keep(s, S) = SelectSeq(s, LAMBDA e : e \in S)

Symmetry == Permutations({usr, opt})
=============================================================================
