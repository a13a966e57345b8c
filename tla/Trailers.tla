------------------------------ MODULE Trailers ------------------------------
(***************************************************************************)
(* internal/git/trailers.go, without state: a commit message is the        *)
(* sequence of its trailers, each a token and a value.  Git edits the      *)
(* message and finds the trailers; which of them is the save ID, and       *)
(* whether it is one, is decided in Go.                                    *)
(***************************************************************************)
EXTENDS Subsequence, SequencesExt

CONSTANTS
    SaveTokens,     \* "Opax-Save" in its spellings: lower case, upper case
    AlikeTokens,    \* tokens that begin with Opax-Save, or that it begins with
    OtherTokens,    \* any others, such as "Signed-off-by"
    SaveToken,      \* the spelling that Opax writes
    NotAnID         \* a value that is no save ID; save IDs are numbers from 1

ASSUME SaveTokenAssumption == SaveToken \in SaveTokens
ASSUME TokensAssumption ==
    /\ SaveTokens \cap AlikeTokens = {}
    /\ OtherTokens \cap (SaveTokens \cup AlikeTokens) = {}
ASSUME NotAnIDAssumption == NotAnID \notin Nat \ {0}

TrailersOf(tokens) == [token : tokens, value : Nat \cup {NotAnID}]
SaveTrailers == TrailersOf(SaveTokens)

(* git compares two tokens without regard to case and only up to the length of
   the shorter one. *)
TakenForSave == TrailersOf(SaveTokens \cup AlikeTokens)

OtherTrailers == TrailersOf(OtherTokens)
Trailer == TakenForSave \cup OtherTrailers

(* git interpret-trailers --if-exists replace --if-missing add: the last trailer
   that git takes for the same one goes, the new one is added at the end. *)
InterpretTrailers(message, id) ==
    LET alike == {i \in DOMAIN message : message[i] \in TakenForSave}
        rest == IF alike = {} THEN message ELSE RemoveAt(message, Max(alike))
    IN  Append(rest, [token |-> SaveToken, value |-> id])

(* Mutant: a message that has the trailer gets another one. *)
UpsertByAdding(message, id) == Append(message, [token |-> SaveToken, value |-> id])

(* UpsertSaveTrailer, once the ID is allocated. *)
UpsertSaveTrailer(message, id) == InterpretTrailers(message, id)

(* ParseSaveTrailer: no save trailer is an answer, a second one or one that is
   not an ID is an error. *)
ParseSaveTrailer(message) ==
    LET saves == Keep(message, SaveTrailers)
    IN  IF saves = <<>> THEN [verdict |-> "absent", id |-> NotAnID]
        ELSE IF Len(saves) = 1 /\ saves[1].value # NotAnID
             THEN [verdict |-> "found", id |-> saves[1].value]
        ELSE [verdict |-> "error", id |-> NotAnID]
=============================================================================
