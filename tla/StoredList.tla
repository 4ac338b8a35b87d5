----------------------------- MODULE StoredList -----------------------------
(***************************************************************************)
(* What a save of a Card List (SaveCardList, internal/storage/sqlite)      *)
(* promises whoever reads it: the rows, their search index and the hash of *)
(* the export change in one step to those of one new content.  "The        *)
(* replace is atomic (no window where the list reads empty)".              *)
(***************************************************************************)
CONSTANTS
    Contents,  \* the rows a list can have
    NoRows,    \* those of an absent list
    Hashes,    \* the hashes of exports, and the absence of one
    NoHash

VARIABLES
    rows,     \* card_lists
    index,    \* card_lists_fts
    hash,     \* card_list_hashes
    indexed   \* this process has a search index to maintain

vars == <<rows, index, hash, indexed>>

Init ==
    /\ rows \in Contents /\ index = rows
    /\ hash \in Hashes
    /\ indexed \in BOOLEAN

(* With another hash, or with none and no rows. *)
Replace ==
    /\ rows' \in Contents
    /\ index' = IF indexed THEN rows' ELSE index
    /\ hash' \in Hashes
    /\ IF hash' = NoHash THEN rows' = NoRows ELSE hash' # hash
    /\ UNCHANGED indexed

Next == Replace

Spec == Init /\ [][Next]_vars
=============================================================================
