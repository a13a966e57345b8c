------------------------------- MODULE Config -------------------------------
(***************************************************************************)
(* internal/config/config.go: a call of Load merges the team's file and    *)
(* the personal file, if they are there, over the defaults, one field at a *)
(* time, and validates after each.  A field of a file may be absent, which *)
(* is not the same as set to its zero value.  Of fields that are treated   *)
(* alike the model has one: `enabled` stands for both switches, `hot` for  *)
(* the three retention periods, `patterns` for whatever is compiled, and   *)
(* the lists, which are replaced whole, are like scalars.                  *)
(***************************************************************************)
EXTENDS Integers, Sequences

CONSTANTS
    Layers,     \* what a file may set: functions from some Fields to values
    Width,      \* the width of Go's int and time.Duration: 64 in the code
    Day         \* a day as a Duration: 86400 * 10^9 nanoseconds in the code

ASSUME WidthAssumption == Width \in Nat \ {0} /\ 30 < 2^(Width - 1)   \* the default period fits
ASSUME DayAssumption == Day \in Nat \ {0}

VARIABLES
    loading,    \* the file that Load reads next, or how it ended
    config,     \* the configuration merged so far
    layers      \* history: the files merged, in order

configVars == <<loading, config, layers>>

Modes == {"redact", "reject", "warn"}
Units == [d |-> Day, w |-> 7 * Day, m |-> 30 * Day, y |-> 365 * Day]
Period(n, unit) == [n |-> n, unit |-> unit]
NoPeriod == Period(0, "")

Default == [version |-> 1, mode |-> "redact", patterns |-> {}, enabled |-> TRUE,
            threshold |-> 4, hot |-> Period(30, "d"), prefix |-> "Opax-",
            lastCapture |-> [s \in {} |-> ""]]
Fields == DOMAIN Default

(* A field that no file may have makes readConfigFile fail. *)
ASSUME LayersAssumption == \A raw \in Layers : DOMAIN raw \subseteq Fields

ConfigInit == loading = "team" /\ config = Default /\ layers = <<>>

(* Go's arithmetic on signed integers of that width. *)
Wrap(n) == ((n + 2^(Width - 1)) % 2^Width) - 2^(Width - 1)

(* ParseDuration: what Atoi reads, if it fits, is multiplied without a check. *)
Parses(p) == p.n > 0 /\ p.n < 2^(Width - 1) /\ p.unit \in DOMAIN Units
ParseDuration(p) == Wrap(p.n * Units[p.unit])

Compiles(pattern) == pattern # "["

Validate(c) ==
    /\ c.version > 0
    /\ c.mode \in Modes
    /\ \A pattern \in c.patterns : Compiles(pattern)
    /\ c.enabled => c.threshold > 0
    /\ c.hot # NoPeriod => Parses(c.hot)
    /\ c.prefix \in {"", "Opax-"}       \* it ends with a dash

(* The keys of the new map are put into the old one. *)
MergeMaps(new, old) ==
    [s \in DOMAIN new \cup DOMAIN old |-> IF s \in DOMAIN new THEN new[s] ELSE old[s]]

(* Mutant: values that are Go's zero are taken for absent ones. *)
MergeNonZero(base, raw) ==
    [f \in Fields |->
        IF f \notin DOMAIN raw THEN base[f]
        ELSE IF f = "lastCapture" THEN MergeMaps(raw[f], base[f])
        ELSE IF f = "enabled" /\ ~raw.enabled THEN base[f]
        ELSE raw[f]]

(* mergeRaw: what a file sets replaces what was there, zero or not; only the
   map is merged key by key. *)
MergeRaw(base, raw) ==
    [f \in Fields |->
        IF f \notin DOMAIN raw THEN base[f]
        ELSE IF f = "lastCapture" THEN MergeMaps(raw[f], base[f])
        ELSE raw[f]]

NextFile == IF loading = "team" THEN "personal" ELSE "final"

(* readConfigFile: no such file. *)
SkipFile ==
    /\ loading \in {"team", "personal"}
    /\ loading' = NextFile
    /\ UNCHANGED <<config, layers>>

(* A file that can be decoded: nobody else reads it, so whatever its owner has
   made of it in the meantime is just what it holds now. *)
LoadFile(raw) ==
    /\ loading \in {"team", "personal"}
    /\ config' = MergeRaw(config, raw)
    /\ layers' = Append(layers, raw)
    /\ loading' = IF Validate(config') THEN NextFile ELSE "invalid"

(* A file that cannot be read or decoded, or has a field it should not; or the
   user has no home directory. *)
FileFails ==
    /\ loading \in {"team", "personal"}
    /\ loading' = "error"
    /\ UNCHANGED <<config, layers>>

FinalValidate ==
    /\ loading = "final"
    /\ loading' = IF Validate(config) THEN "ok" ELSE "invalid"
    /\ UNCHANGED <<config, layers>>

ConfigNext == SkipFile \/ (\E raw \in Layers : LoadFile(raw)) \/ FileFails \/ FinalValidate

ConfigSpec == ConfigInit /\ [][ConfigNext]_configVars

(* The value that a field of the result should have: the last file that sets it
   decides, for the map the last one that sets the key. *)
Setters(f) == {i \in DOMAIN layers : f \in DOMAIN layers[i]}
Latest(S) == CHOOSE i \in S : \A j \in S : j <= i
Layered(f) == IF Setters(f) = {} THEN Default[f] ELSE layers[Latest(Setters(f))][f]
SourceSetters(s) == {i \in Setters("lastCapture") : s \in DOMAIN layers[i].lastCapture}
Sources == UNION {DOMAIN layers[i].lastCapture : i \in Setters("lastCapture")}

(* A configuration that Load returns is valid, and in it the last file that sets
   a field decides about it, be it to zero, to false or to the empty list, while
   the keys of the map are kept unless a later file has them too.  An invalid
   one is refused as soon as a prefix of the files makes it so. *)
LoadIsLayered ==
    /\ loading = "ok" =>
          /\ Validate(config)
          /\ \A f \in Fields \ {"lastCapture"} : config[f] = Layered(f)
          /\ DOMAIN config.lastCapture = Sources
          /\ \A s \in Sources :
                config.lastCapture[s] = layers[Latest(SourceSetters(s))].lastCapture[s]
    /\ loading = "invalid" => ~Validate(config) /\ layers # <<>>

(* ParseDuration's own error says that a period "must be positive": the period
   that a valid configuration stands for is. *)
PeriodsArePositive ==
    loading = "ok" /\ config.hot # NoPeriod => ParseDuration(config.hot) > 0
=============================================================================
