------------------------------ MODULE Storage ------------------------------
(***************************************************************************)
(* The SQLite tables of the bot (internal/storage/sqlite) and the write    *)
(* transactions on them.  writeDB has exactly one connection, so write     *)
(* transactions are serial, and each of them commits or rolls back as a    *)
(* whole: one transaction is one operator over the tables here.  A         *)
(* transaction that fails changes nothing, so its failure is left to the   *)
(* caller.                                                                 *)
(*                                                                         *)
(* A Card List is <<login, slot>>: Deckbox gives a profile one fixed id    *)
(* for each of its inventory, tradelist and wishlist.  The cards of a list *)
(* are an abstract body: what one export parses to.  NoCards is both the   *)
(* empty export and the absence of rows, which no query tells apart.       *)
(* updated_at is kept as the window it falls in, not as a time.            *)
(***************************************************************************)
EXTENDS Naturals, FiniteSets

CONSTANTS
    Logins,     \* Deckbox logins
    Slots,      \* 1, 2, 3: inventory, tradelist, wishlist, in the order of fetching
    Bots,       \* chat accounts, each on one platform
    Platform,   \* [Bots -> the platform of that account]
    Bodies,     \* contents an export can have
    NoCards,    \* the empty content, a member of Bodies
    NoHash,     \* no stored body hash, and BodyHash 0 of a private list
    NoUser,     \* no deckbox_users row
    NoLogin     \* no users row

ASSUME SlotsAssumption == Slots \subseteq 1 .. 3
ASSUME BodiesAssumption == NoCards \in Bodies /\ NoHash \notin Bodies
ASSUME NoUserAssumption == \A S \in SUBSET Slots : NoUser # S
ASSUME NoLoginAssumption == NoLogin \notin Logins

VARIABLES
    users,      \* users: the login each chat account claims
    ids,        \* deckbox_users: the lists the stored profile shows
    updated,    \* deckbox_users.updated_at, as a window
    lastError,  \* deckbox_users.last_error is set
    rows,       \* card_lists
    fts,        \* card_lists_fts
    hash,       \* card_list_hashes
    snapshots   \* lists with a row in list_snapshots

db == <<users, ids, updated, lastError, rows, fts, hash, snapshots>>
content == <<rows, fts, hash>>

Lists == Logins \X Slots

(* "recent" is younger than the refresh window, "aged" past it but inside  *)
(* the freshness window of Suggest, "old" past both.  The defaults are 3   *)
(* and 24 hours.                                                           *)
Windows == {"never", "recent", "aged", "old"}

StorageTypeOK ==
    /\ users \in [Bots -> Logins \union {NoLogin}]
    /\ ids \in [Logins -> {NoUser} \union SUBSET Slots]
    /\ updated \in [Logins -> Windows]
    /\ lastError \in [Logins -> BOOLEAN]
    /\ rows \in [Lists -> Bodies]
    /\ fts \in [Lists -> Bodies]
    /\ hash \in [Lists -> Bodies \union {NoHash}]
    /\ snapshots \subseteq Lists

StorageInit ==
    /\ users = [b \in Bots |-> NoLogin]
    /\ ids = [u \in Logins |-> NoUser]
    /\ updated = [u \in Logins |-> "never"]
    /\ lastError = [u \in Logins |-> FALSE]
    /\ rows = [l \in Lists |-> NoCards]
    /\ fts = [l \in Lists |-> NoCards]
    /\ hash = [l \in Lists |-> NoHash]
    /\ snapshots = {}

Known(u) == ids[u] # NoUser
SlotsOf(u) == IF Known(u) THEN ids[u] ELSE {}
Referenced(l) == l[2] \in SlotsOf(l[1])

(* GetAllDeckboxUsersWithOldLists *)
StaleLogins == {u \in Logins : Known(u) /\ updated[u] # "recent"}

(* Mutants of DeleteLists: one table is forgotten. *)
DeleteListsKeepingHash(L) ==
    /\ rows' = [l \in Lists |-> IF l \in L THEN NoCards ELSE rows[l]]
    /\ fts' = [l \in Lists |-> IF l \in L THEN NoCards ELSE fts[l]]
    /\ hash' = hash
    /\ snapshots' = snapshots \ L

DeleteListsKeepingFts(L) ==
    /\ rows' = [l \in Lists |-> IF l \in L THEN NoCards ELSE rows[l]]
    /\ fts' = fts
    /\ hash' = [l \in Lists |-> IF l \in L THEN NoHash ELSE hash[l]]
    /\ snapshots' = snapshots \ L

(* deleteList, for every list of L in one transaction *)
DeleteLists(L) ==
    /\ rows' = [l \in Lists |-> IF l \in L THEN NoCards ELSE rows[l]]
    /\ fts' = [l \in Lists |-> IF l \in L THEN NoCards ELSE fts[l]]
    /\ hash' = [l \in Lists |-> IF l \in L THEN NoHash ELSE hash[l]]
    /\ snapshots' = snapshots \ L

(* PRIMARY KEY(platform, userId) and UNIQUE(platform, deckboxLogin)        *)
RegisterUser(b, u) ==
    /\ users[b] = NoLogin
    /\ \A c \in Bots : Platform[c] = Platform[b] => users[c] # u
    /\ users' = [users EXCEPT ![b] = u]
    /\ UNCHANGED <<ids, updated, lastError, rows, fts, hash, snapshots>>

(* Mutant: the upsert alone, as before private lists were deleted. *)
UpsertDeckboxUser(u, shownSlots) ==
    /\ ids' = [ids EXCEPT ![u] = shownSlots]
    /\ UNCHANGED <<users, updated, lastError, rows, fts, hash, snapshots>>

(* The lists the profile no longer shows are deleted with the upsert.      *)
SaveDeckboxUser(u, shownSlots) ==
    /\ ids' = [ids EXCEPT ![u] = shownSlots]
    /\ DeleteLists({u} \X (SlotsOf(u) \ shownSlots))
    /\ UNCHANGED <<users, updated, lastError>>

(* Mutant: an unknown hash leaves the stored one in place. *)
SaveCardListKeepingHash(l, cards, h) ==
    /\ \/ /\ h # NoHash
          /\ hash[l] = h
          /\ UNCHANGED content
       \/ /\ h = NoHash \/ hash[l] # h
          /\ rows' = [rows EXCEPT ![l] = cards]
          /\ fts' = [fts EXCEPT ![l] = cards]
          /\ hash' = [hash EXCEPT ![l] = IF h = NoHash THEN @ ELSE h]
    /\ UNCHANGED <<users, ids, updated, lastError, snapshots>>

(* h is the hash of the export the cards were parsed from, or NoHash.  An  *)
(* export whose hash is the stored one is not written again.               *)
SaveCardList(l, cards, h) ==
    /\ \/ /\ h # NoHash
          /\ hash[l] = h
          /\ UNCHANGED content
       \/ /\ h = NoHash \/ hash[l] # h
          /\ rows' = [rows EXCEPT ![l] = cards]
          /\ fts' = [fts EXCEPT ![l] = cards]
          /\ hash' = [hash EXCEPT ![l] = h]
    /\ UNCHANGED <<users, ids, updated, lastError, snapshots>>

(* saved stamps updated_at and clears last_error; otherwise only           *)
(* last_error is written.  Both are UPDATEs: without a deckbox_users row   *)
(* they change nothing.  The sizes are inserted either way.                *)
SaveRefreshOutcome(u, saved, err, sizes) ==
    /\ updated' = [updated EXCEPT ![u] = IF saved /\ Known(u) THEN "recent" ELSE @]
    /\ lastError' = [lastError EXCEPT ![u] = IF Known(u) THEN ~saved /\ err ELSE @]
    /\ snapshots' = snapshots \union ({u} \X sizes)
    /\ UNCHANGED <<users, ids, rows, fts, hash>>

PurgeDeckboxUser(u) ==
    /\ Known(u)
    /\ DeleteLists({u} \X ids[u])
    /\ ids' = [ids EXCEPT ![u] = NoUser]
    /\ updated' = [updated EXCEPT ![u] = "never"]
    /\ lastError' = [lastError EXCEPT ![u] = FALSE]
    /\ users' = [b \in Bots |-> IF users[b] = u THEN NoLogin ELSE users[b]]

UnlinkBotUser(b) ==
    /\ users[b] # NoLogin
    /\ users' = [users EXCEPT ![b] = NoLogin]
    /\ UNCHANGED <<ids, updated, lastError, rows, fts, hash, snapshots>>

(* At startup.  Only lists with card rows are looked at.                   *)
DeleteUnreferencedLists ==
    /\ DeleteLists({l \in Lists : rows[l] # NoCards /\ ~Referenced(l)})
    /\ UNCHANGED <<users, ids, updated, lastError>>
=============================================================================
