------------------------------ MODULE Refresh ------------------------------
(***************************************************************************)
(* Refreshes running against one database and one Deckbox                  *)
(* (internal/deckbox/handler.go).  Each task is a worker                   *)
(* goroutine of refreshUsers running refreshUser and record over one       *)
(* login; each of its storage transactions and each of its fetches is a    *)
(* step, and everything else may happen in between: other refreshes of the *)
(* same login, Purge, Unlink, the owner editing or hiding a list, a crash. *)
(* Every fetch and every transaction may fail, which also covers a context *)
(* that expires: from then on all of them fail.                            *)
(***************************************************************************)
EXTENDS Storage

CONSTANTS
    Tasks,       \* refreshes that can be in flight at once
    Ticker,      \* the task of RefreshStale, which runs one batch at a time
    Operations,  \* the operations users and operators perform here
    NotFound,    \* the answer of a hidden list's export
    MaxEvents    \* bound on owner edits and crashes together

ASSUME TickerAssumption == Ticker \in Tasks
ASSUME OperationsAssumption ==
    Operations \subseteq {"register", "suggest", "refreshNow", "purge", "unlink", "edit", "hide", "crash"}
ASSUME NotFoundAssumption == NotFound \notin Bodies
ASSUME MaxEventsAssumption == MaxEvents \in Nat

VARIABLES
    shown,      \* Deckbox: the lists each profile shows
    export,     \* Deckbox: the content of each list
    task,       \* the refreshes in flight
    batch,      \* stale logins the running RefreshStale has yet to refresh
    suggested,  \* toProcess: logins a Suggest found stale, and the tasks to refresh them
    events,     \* owner edits and crashes so far
    raced,      \* history: logins with overlapping refreshes, or purged during one
    withdrawn   \* history: lists their owner ever hid or emptied

deckbox == <<shown, export>>
waiting == <<batch, suggested>>
history == <<raced, withdrawn>>
vars == <<db, deckbox, task, waiting, events, history>>

(***************************************************************************)
(* A task: the profile it read, the lists of it still to fetch, the answer *)
(* it is about to save, and the RefreshOutcome it collects.                *)
(***************************************************************************)
Steps == {"idle", "fetchProfile", "saveUser", "fetchList", "saveList", "record"}
Task == [step : Steps, login : Logins \union {NoLogin},
         profile : SUBSET Slots, todo : SUBSET Slots, got : Bodies \union {NotFound},
         saved : BOOLEAN, err : BOOLEAN, sizes : SUBSET Slots]

IdleTask == [step |-> "idle", login |-> NoLogin, profile |-> {}, todo |-> {},
             got |-> NotFound, saved |-> FALSE, err |-> FALSE, sizes |-> {}]

Slot(t) == CHOOSE k \in task[t].todo : \A j \in task[t].todo : k <= j
List(t) == <<task[t].login, Slot(t)>>
Refreshing(u) == \E t \in Tasks : task[t].login = u

TypeOK ==
    /\ StorageTypeOK
    /\ shown \in [Logins -> SUBSET Slots]
    /\ export \in [Lists -> Bodies]
    /\ task \in [Tasks -> Task]
    /\ batch \subseteq Logins
    /\ suggested \subseteq Logins \X Tasks
    /\ events \in 0 .. MaxEvents
    /\ raced \subseteq Logins
    /\ withdrawn \subseteq Lists

Offered(l) == l[2] \in shown[l[1]] /\ export[l] # NoCards

Init ==
    /\ StorageInit
    /\ shown \in [Logins -> SUBSET Slots]
    /\ export \in [Lists -> Bodies]
    /\ task = [t \in Tasks |-> IdleTask]
    /\ batch = {} /\ suggested = {}
    /\ events = 0
    /\ raced = {}
    /\ withdrawn = {l \in Lists : ~Offered(l)}

-----------------------------------------------------------------------------
(* Who starts a refresh *)

Begin(t, u) ==
    /\ task[t].step = "idle"
    /\ task' = [task EXCEPT ![t] = [IdleTask EXCEPT !.step = "fetchProfile", !.login = u]]
    /\ raced' = IF Refreshing(u) THEN raced \union {u} ELSE raced
    /\ UNCHANGED <<deckbox, events, withdrawn>>

(* No Suggest is about to use the task. *)
Free(t) == \A u \in Logins : <<u, t>> \notin suggested

(* The registration is stored, then refreshed by a goroutine of its own.   *)
Register(b, u, t) ==
    /\ "register" \in Operations
    /\ t # Ticker /\ Free(t)
    /\ RegisterUser(b, u)
    /\ Begin(t, u)
    /\ UNCHANGED waiting

(* A login refreshed inside the freshness window is skipped.  The window   *)
(* is read for all logins of a Suggest before the first is refreshed.      *)
CheckFreshness(u, t) ==
    /\ "suggest" \in Operations
    /\ t # Ticker /\ Free(t) /\ task[t].step = "idle"
    /\ ~Known(u) \/ updated[u] \in {"never", "old"}
    /\ suggested' = suggested \union {<<u, t>>}
    /\ UNCHANGED <<db, deckbox, task, batch, events, history>>

Suggest(u, t) ==
    /\ <<u, t>> \in suggested
    /\ suggested' = suggested \ {<<u, t>>}
    /\ Begin(t, u)
    /\ UNCHANGED <<db, batch>>

RefreshNow(u, t) ==
    /\ "refreshNow" \in Operations
    /\ t # Ticker /\ Free(t)
    /\ Begin(t, u)
    /\ UNCHANGED <<db, waiting>>

(* main calls RefreshStale again only when the last call returned.         *)
ReadStale ==
    /\ batch = {}
    /\ task[Ticker].step = "idle"
    /\ StaleLogins # {}
    /\ batch' = StaleLogins
    /\ UNCHANGED <<db, deckbox, task, suggested, events, history>>

RefreshStale(u) ==
    /\ u \in batch
    /\ batch' = batch \ {u}
    /\ Begin(Ticker, u)
    /\ UNCHANGED <<db, suggested>>

-----------------------------------------------------------------------------
(* refreshUser and record *)

Goto(t, step) == [task[t] EXCEPT !.step = step]

(* The task with Slot(t) dealt with. *)
NextList(t, next) ==
    LET left == task[t].todo \ {Slot(t)}
    IN  [next EXCEPT !.todo = left, !.got = NotFound,
                     !.step = IF left = {} THEN "record" ELSE "fetchList"]

FetchProfile(t) ==
    /\ task[t].step = "fetchProfile"
    /\ task' = [task EXCEPT ![t] =
                  [Goto(t, "saveUser") EXCEPT !.profile = shown[task[t].login]]]
    /\ UNCHANGED <<db, deckbox, waiting, events, history>>

SaveUser(t) ==
    /\ task[t].step = "saveUser"
    /\ SaveDeckboxUser(task[t].login, task[t].profile)
    /\ task' = [task EXCEPT ![t] =
                  [Goto(t, IF task[t].profile = {} THEN "record" ELSE "fetchList")
                     EXCEPT !.saved = TRUE, !.todo = task[t].profile]]
    /\ UNCHANGED <<deckbox, waiting, events, history>>

(* Neither the profile nor the user could be read and stored. *)
ProfileFails(t) ==
    /\ task[t].step \in {"fetchProfile", "saveUser"}
    /\ task' = [task EXCEPT ![t] = [Goto(t, "record") EXCEPT !.err = TRUE]]
    /\ UNCHANGED <<db, deckbox, waiting, events, history>>

(* The export of a list that is hidden by now answers "not found". *)
FetchCardList(t) ==
    /\ task[t].step = "fetchList"
    /\ task' = [task EXCEPT ![t] =
                  [Goto(t, "saveList") EXCEPT
                     !.got = IF Slot(t) \in shown[task[t].login] THEN export[List(t)] ELSE NotFound]]
    /\ UNCHANGED <<db, deckbox, waiting, events, history>>

(* Mutant: "not found" is saved like an export. *)
SaveListAsExport(t) ==
    /\ task[t].step = "saveList"
    /\ SaveCardList(List(t), task[t].got, task[t].got)
    /\ task' = [task EXCEPT ![t] = NextList(t, [task[t] EXCEPT !.sizes = @ \union {Slot(t)}])]
    /\ UNCHANGED <<deckbox, waiting, events, history>>

(* A private list is saved empty with an unknown hash, and is not counted. *)
SaveList(t) ==
    /\ task[t].step = "saveList"
    /\ \/ /\ task[t].got = NotFound
          /\ SaveCardList(List(t), NoCards, NoHash)
          /\ task' = [task EXCEPT ![t] = NextList(t, task[t])]
       \/ /\ task[t].got # NotFound
          /\ SaveCardList(List(t), task[t].got, task[t].got)
          /\ task' = [task EXCEPT ![t] =
                        NextList(t, [task[t] EXCEPT !.sizes = @ \union {Slot(t)}])]
    /\ UNCHANGED <<deckbox, waiting, events, history>>

(* Mutant: a list that could not be fetched is cleared like a private one. *)
ListFailsAsPrivate(t) ==
    /\ task[t].step \in {"fetchList", "saveList"}
    /\ SaveCardList(List(t), NoCards, NoHash)
    /\ task' = [task EXCEPT ![t] = NextList(t, task[t])]
    /\ UNCHANGED <<deckbox, waiting, events, history>>

(* The fetch, or the save of what it fetched, fails: on to the next list. *)
ListFails(t) ==
    /\ task[t].step \in {"fetchList", "saveList"}
    /\ task' = [task EXCEPT ![t] = NextList(t, [task[t] EXCEPT !.err = TRUE])]
    /\ UNCHANGED <<db, deckbox, waiting, events, history>>

(* Mutant: only a refresh that saved a list counts as a success. *)
RecordUnlessEmpty(t) ==
    /\ task[t].step = "record"
    /\ SaveRefreshOutcome(task[t].login, task[t].saved /\ task[t].sizes # {}, task[t].err, task[t].sizes)
    /\ task' = [task EXCEPT ![t] = IdleTask]
    /\ UNCHANGED <<deckbox, waiting, events, history>>

(* A refresh that stored the profile is stamped, whatever its lists did. *)
Record(t) ==
    /\ task[t].step = "record"
    /\ SaveRefreshOutcome(task[t].login, task[t].saved, task[t].err, task[t].sizes)
    /\ task' = [task EXCEPT ![t] = IdleTask]
    /\ UNCHANGED <<deckbox, waiting, events, history>>

(* Only logged. *)
RecordFails(t) ==
    /\ task[t].step = "record"
    /\ task' = [task EXCEPT ![t] = IdleTask]
    /\ UNCHANGED <<db, deckbox, waiting, events, history>>

-----------------------------------------------------------------------------
(* The Admin Panel, the list owner, time and the process *)

Purge(u) ==
    /\ "purge" \in Operations
    /\ PurgeDeckboxUser(u)
    /\ raced' = IF Refreshing(u) THEN raced \union {u} ELSE raced
    /\ UNCHANGED <<deckbox, task, waiting, events, withdrawn>>

Unlink(b) ==
    /\ "unlink" \in Operations
    /\ UnlinkBotUser(b)
    /\ UNCHANGED <<deckbox, task, waiting, events, history>>

EditList(l, body) ==
    /\ "edit" \in Operations
    /\ events < MaxEvents
    /\ export[l] # body
    /\ export' = [export EXCEPT ![l] = body]
    /\ events' = events + 1
    /\ withdrawn' = IF body = NoCards THEN withdrawn \union {l} ELSE withdrawn
    /\ UNCHANGED <<db, shown, task, waiting, raced>>

HideOrShow(u, k) ==
    /\ "hide" \in Operations
    /\ events < MaxEvents
    /\ shown' = [shown EXCEPT ![u] = IF k \in @ THEN @ \ {k} ELSE @ \union {k}]
    /\ events' = events + 1
    /\ withdrawn' = IF k \in shown[u] THEN withdrawn \union {<<u, k>>} ELSE withdrawn
    /\ UNCHANGED <<db, export, task, waiting, raced>>

TimePasses(u) ==
    /\ updated[u] \in {"recent", "aged"}
    /\ updated' = [updated EXCEPT ![u] = IF @ = "recent" THEN "aged" ELSE "old"]
    /\ UNCHANGED <<users, ids, lastError, rows, fts, hash, snapshots,
                   deckbox, task, waiting, events, history>>

(* Every goroutine is lost; storage.New sweeps before anything else runs.  *)
Restart ==
    /\ "crash" \in Operations
    /\ events < MaxEvents
    /\ DeleteUnreferencedLists
    /\ task' = [t \in Tasks |-> IdleTask]
    /\ batch' = {} /\ suggested' = {}
    /\ events' = events + 1
    /\ UNCHANGED <<deckbox, history>>

-----------------------------------------------------------------------------
TaskStep(t) ==
    \/ FetchProfile(t) \/ SaveUser(t) \/ ProfileFails(t)
    \/ FetchCardList(t) \/ SaveList(t) \/ ListFails(t)
    \/ Record(t) \/ RecordFails(t)

Next ==
    \/ \E t \in Tasks : TaskStep(t)
    \/ \E u \in Logins, t \in Tasks :
          CheckFreshness(u, t) \/ Suggest(u, t) \/ RefreshNow(u, t) \/ \E b \in Bots : Register(b, u, t)
    \/ ReadStale
    \/ \E u \in Logins : RefreshStale(u) \/ Purge(u) \/ TimePasses(u)
    \/ \E b \in Bots : Unlink(b)
    \/ \E l \in Lists, body \in Bodies : EditList(l, body)
    \/ \E u \in Logins, k \in Slots : HideOrShow(u, k)
    \/ Restart

Spec == Init /\ [][Next]_vars

(* The ticker fires every 30 seconds, goroutines are scheduled and the     *)
(* clock moves.  The ticker's refreshes do not fail to read, store or      *)
(* stamp the profile every time they try, and no list fails every time:    *)
(* any refresh may stamp a login whose lists failed, and so keep the       *)
(* ticker from trying them.                                                *)
Fairness ==
    /\ WF_vars(ReadStale)
    /\ \A u \in Logins : WF_vars(RefreshStale(u)) /\ WF_vars(TimePasses(u))
    /\ \A t \in Tasks : WF_vars(TaskStep(t))
    /\ SF_vars(FetchProfile(Ticker))
    /\ SF_vars(SaveUser(Ticker))
    /\ SF_vars(Record(Ticker) /\ task[Ticker].saved)
    /\ \A t \in Tasks, k \in Slots :
          /\ SF_vars(FetchCardList(t) /\ Slot(t) = k)
          /\ SF_vars(SaveList(t) /\ Slot(t) = k)

FairSpec == Spec /\ Fairness

-----------------------------------------------------------------------------
(* A stored hash always describes the stored rows, across purges, private  *)
(* lists, overlapping refreshes and restarts: the unchanged-list skip of   *)
(* SaveCardList never keeps rows the export does not have.                 *)
HashDescribesRows == \A l \in Lists : hash[l] \in {NoHash, rows[l]}

(* The FTS rows of a list are its card rows whatever deletes or rewrites   *)
(* them, so an FTS search and a plain one see the same cards.              *)
FtsMirrorsRows == \A l \in Lists : fts[l] = rows[l]

Stored(l) == rows[l] # NoCards \/ hash[l] # NoHash \/ l \in snapshots

(* What is stored belongs to a list a stored profile shows, unless the     *)
(* login was refreshed twice at once or purged during a refresh: private   *)
(* and purged lists leave nothing behind in every other history, with      *)
(* failures and crashes at any point.                                      *)
StrandedOnlyByRace ==
    \A l \in Lists : Stored(l) /\ ~Referenced(l) => l[1] \in raced

(* Stored cards disappear only if the owner at some time hid or emptied    *)
(* the list, or the login was purged: a failed fetch, login or write       *)
(* keeps the last copy.                                                    *)
KeepsCopy == \A l \in Lists : rows[l] # NoCards /\ rows'[l] = NoCards =>
                l \in withdrawn \/ ~Known(l[1]) \/ ids'[l[1]] = NoUser

(* The same, of every step: KeepsCopy is never violated. *)
FailureKeepsCopy == [][KeepsCopy]_vars

(* A stale Deckbox User is refreshed or purged in the end, however many    *)
(* attempts fail.                                                          *)
StaleIsRefreshed ==
    \A u \in Logins : u \in StaleLogins ~> u \notin StaleLogins

(* Once the owner leaves the lists alone, what is stored for a shown list  *)
(* keeps coming back to what Deckbox exports: no skip and no late save of  *)
(* another refresh leaves it wrong for good.                               *)
StoredListsConverge ==
    \A l \in Lists : []<>(Known(l[1]) /\ Offered(l) => rows[l] = export[l])

-----------------------------------------------------------------------------
(* Stated by the documentation, and not true of the code. *)

(* A Purge removes everything about a login: what is stored belongs to a   *)
(* login that has a Deckbox User.                                          *)
PurgeLeavesNothing == \A l \in Lists : Stored(l) => Known(l[1])
=============================================================================
