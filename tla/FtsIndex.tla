------------------------------ MODULE FtsIndex ------------------------------
(***************************************************************************)
(* The search index card_lists_fts over the life of the database           *)
(* (internal/storage/sqlite/sqlite.go): ensureFtsTable looks at it when    *)
(* the process starts, rebuilds one with an old column layout, and decides *)
(* whether this process searches and maintains it (ftsEnabled).  Module    *)
(* Storage takes an enabled, complete index for granted; this module says  *)
(* when it is one.  The process may die at any point of it, and the next   *)
(* one may be another build: with a newer layout, or without FTS5.         *)
(***************************************************************************)
EXTENDS Naturals

CONSTANTS
    Lists,        \* Card Lists
    Bodies,       \* contents of a list
    NoCards,      \* no rows, a member of Bodies
    MaxUpgrades   \* bound on new layouts

ASSUME BodiesAssumption == NoCards \in Bodies
ASSUME MaxUpgradesAssumption == MaxUpgrades \in Nat

VARIABLES
    rows,       \* card_lists
    fts,        \* card_lists_fts
    table,      \* card_lists_fts in sqlite_master
    step,       \* of the process
    supported,  \* this build has FTS5
    enabled,    \* ftsEnabled
    upgrades,
    torn        \* history: the index missed something since it was last filled

database == <<rows, fts, table>>
vars == <<database, step, supported, enabled, upgrades, torn>>

Empty == [l \in Lists |-> NoCards]

TypeOK ==
    /\ rows \in [Lists -> Bodies] /\ fts \in [Lists -> Bodies]
    /\ table \in {"none", "outdated", "current"}
    /\ step \in {"down", "inspect", "create", "fill", "up"}
    /\ supported \in BOOLEAN /\ enabled \in BOOLEAN /\ torn \in BOOLEAN
    /\ upgrades \in 0 .. MaxUpgrades
    /\ enabled => step = "up" /\ table = "current"

(* A database from a build with another layout, or none yet. *)
Init ==
    /\ rows \in [Lists -> Bodies] /\ fts = Empty
    /\ table \in {"none", "outdated"}
    /\ step = "down"
    /\ supported = FALSE /\ enabled = FALSE
    /\ upgrades = 0
    /\ torn = FALSE

Up(on) == step' = "up" /\ enabled' = on

-----------------------------------------------------------------------------
(* Startup *)

Start ==
    /\ step = "down"
    /\ supported' \in BOOLEAN
    /\ step' = "inspect"
    /\ UNCHANGED <<database, enabled, upgrades, torn>>

Inspect ==
    /\ step = "inspect"
    /\ \/ table = "current" /\ Up(TRUE)
       \/ table = "none" /\ step' = "create" /\ UNCHANGED enabled
    /\ UNCHANGED <<database, supported, upgrades, torn>>

(* DROP TABLE, a transaction of its own. *)
Drop ==
    /\ step = "inspect"
    /\ table = "outdated" /\ supported
    /\ table' = "none"
    /\ fts' = Empty
    /\ step' = "create"
    /\ UNCHANGED <<rows, supported, enabled, upgrades, torn>>

Create ==
    /\ step = "create"
    /\ supported
    /\ table' = "current"
    /\ fts' = Empty
    /\ step' = "fill"
    /\ UNCHANGED <<rows, supported, enabled, upgrades, torn>>

(* repopulateFts: nobody else writes before New has returned. *)
Fill ==
    /\ step = "fill"
    /\ fts' = rows
    /\ torn' = FALSE
    /\ Up(TRUE)
    /\ UNCHANGED <<rows, table, supported, upgrades>>

(* Mutant: a failure is reported, but the index used all the same. *)
StatementFailsEnabled ==
    /\ step \in {"inspect", "create", "fill"}
    /\ torn' = (torn \/ step = "fill")
    /\ Up(TRUE)
    /\ UNCHANGED <<database, supported, upgrades>>

(* Any statement of ensureFtsTable may fail, and without FTS5 those on the *)
(* table do: it warns, and this process goes without the index.            *)
StatementFails ==
    /\ step \in {"inspect", "create", "fill"}
    /\ torn' = (torn \/ step = "fill")
    /\ Up(FALSE)
    /\ UNCHANGED <<database, supported, upgrades>>

Crash ==
    /\ step # "down"
    /\ step' = "down"
    /\ enabled' = FALSE
    /\ torn' = (torn \/ step = "fill")
    /\ UNCHANGED <<database, supported, upgrades>>

(* The next build has another column layout. *)
Upgrade ==
    /\ step = "down"
    /\ table = "current"
    /\ upgrades < MaxUpgrades
    /\ upgrades' = upgrades + 1
    /\ table' = "outdated"
    /\ UNCHANGED <<rows, fts, step, supported, enabled, torn>>

-----------------------------------------------------------------------------
(* Writes *)

(* Mutant: a list that comes back empty is cleared from card_lists only. *)
WriteKeepingIndex(l, body) ==
    /\ rows' = [rows EXCEPT ![l] = body]
    /\ fts' = IF enabled /\ body # NoCards THEN [fts EXCEPT ![l] = body] ELSE fts
    /\ torn' = (torn \/ (~enabled /\ table = "current"))

Write(l, body) ==
    /\ rows' = [rows EXCEPT ![l] = body]
    /\ fts' = IF enabled THEN [fts EXCEPT ![l] = body] ELSE fts
    /\ torn' = (torn \/ (~enabled /\ table = "current"))

(* SaveCardList skips an export that is stored already, and fails with the *)
(* statements on an index this build cannot use.                           *)
SaveCardList(l, body) ==
    /\ step = "up"
    /\ enabled => supported
    /\ rows[l] # body
    /\ Write(l, body)
    /\ UNCHANGED <<table, step, supported, enabled, upgrades>>

Next ==
    \/ Start \/ Inspect \/ Drop \/ Create \/ Fill \/ StatementFails
    \/ Crash \/ Upgrade
    \/ \E l \in Lists, body \in Bodies : SaveCardList(l, body)

Spec == Init /\ [][Next]_vars

-----------------------------------------------------------------------------
(* The index a process searches holds what card_lists holds, unless a      *)
(* rebuild was cut short or lists were saved while the index was off: no   *)
(* other order of starts, upgrades, failures, crashes and saves loses      *)
(* cards from search.                                                      *)
IncompleteOnlyIfTorn == enabled /\ ~torn => fts = rows

(* "A pre-existing table with an outdated column layout is dropped,        *)
(* recreated, and repopulated from card_lists" (sqlite.go:727): what is    *)
(* searched is complete.                                                   *)
EnabledIsComplete == enabled => fts = rows
=============================================================================
