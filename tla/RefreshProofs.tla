--------------------------- MODULE RefreshProofs ---------------------------
(***************************************************************************)
(* The safety properties of Refresh for every set of logins, tasks and     *)
(* bodies.  TaskOK says what a running task knows of itself; Serial, of a  *)
(* login that never raced, that its one task and the stored profile agree. *)
(***************************************************************************)
EXTENDS Refresh, TLAPS

USE DEF Lists, waiting

TaskOK ==
    \A t \in Tasks :
        /\ task[t].step # "idle" => task[t].login \in Logins
        /\ task[t].step = "idle" => task[t].login = NoLogin
        /\ task[t].step \in {"idle", "fetchProfile", "saveUser"}
              => task[t].todo = {} /\ task[t].sizes = {} /\ ~task[t].saved
        /\ task[t].step \in {"fetchList", "saveList"} => task[t].todo # {} /\ task[t].saved
        /\ task[t].todo \subseteq task[t].profile
        /\ task[t].sizes \subseteq task[t].profile
        /\ task[t].sizes # {} => task[t].saved

Serial ==
    \A u \in Logins \ raced :
        /\ \A s, t \in Tasks : task[s].login = u /\ task[t].login = u => s = t
        /\ \A t \in Tasks : task[t].login = u /\ task[t].saved => ids[u] = task[t].profile
        /\ \A k \in Slots : Stored(<<u, k>>) => Referenced(<<u, k>>)

(* What the bot has seen as hidden or empty was hidden or emptied. *)
Seen ==
    /\ \A l \in Lists : Offered(l) \/ l \in withdrawn
    /\ \A u \in Logins, k \in Slots : Known(u) /\ k \notin ids[u] => <<u, k>> \in withdrawn
    /\ \A t \in Tasks : task[t].step = "saveUser" =>
          \A k \in Slots \ task[t].profile : <<task[t].login, k>> \in withdrawn
    /\ \A t \in Tasks : task[t].step = "saveList" /\ task[t].got \in {NotFound, NoCards}
          => List(t) \in withdrawn

Consistent == HashDescribesRows /\ FtsMirrorsRows

-----------------------------------------------------------------------------
(* The next list to fetch is one of those left. *)
LEMMA SlotIsTodo ==
    ASSUME NEW t \in Tasks, task[t].todo \subseteq Slots, task[t].todo # {}
    PROVE  Slot(t) \in task[t].todo
<1>. DEFINE S == task[t].todo
<1>1. S \subseteq 1 .. 3
  BY SlotsAssumption
<1>2. \E k \in S : \A j \in S : k <= j
  <2>1. CASE 1 \in S
    BY <1>1, <2>1
  <2>2. CASE 1 \notin S /\ 2 \in S
    BY <1>1, <2>2
  <2>3. CASE 1 \notin S /\ 2 \notin S
    BY <1>1, <2>3
  <2>. QED  BY <2>1, <2>2, <2>3
<1>. QED  BY <1>2 DEF Slot

(* Where a task stands when it has dealt with a list: the fields NextList  *)
(* sets, and those it leaves alone.                                        *)
LEMMA NextListFields ==
    ASSUME task \in [Tasks -> Task], NEW t \in Tasks, NEW next \in Task
    PROVE  /\ NextList(t, next) \in Task
           /\ NextList(t, next).login = next.login
           /\ NextList(t, next).profile = next.profile
           /\ NextList(t, next).saved = next.saved
           /\ NextList(t, next).sizes = next.sizes
           /\ NextList(t, next).todo = task[t].todo \ {Slot(t)}
           /\ NextList(t, next).step \in {"record", "fetchList"}
           /\ NextList(t, next).step = "fetchList" => NextList(t, next).todo # {}
  BY NotFoundAssumption DEF NextList, Task, Steps

-----------------------------------------------------------------------------
(* Transactions keep the tables well typed. *)
LEMMA DeleteListsType ==
    ASSUME StorageTypeOK, NEW L \in SUBSET Lists, DeleteLists(L)
    PROVE  /\ rows' \in [Lists -> Bodies]
           /\ fts' \in [Lists -> Bodies]
           /\ hash' \in [Lists -> Bodies \union {NoHash}]
           /\ snapshots' \subseteq Lists
  BY BodiesAssumption DEF DeleteLists, StorageTypeOK

LEMMA SaveCardListType ==
    ASSUME StorageTypeOK, NEW l \in Lists, NEW c \in Bodies,
           NEW h \in Bodies \union {NoHash}, SaveCardList(l, c, h)
    PROVE  StorageTypeOK'
  BY DEF SaveCardList, StorageTypeOK, content


LEMMA BeginType ==
    ASSUME TypeOK, TaskOK, NEW t \in Tasks, NEW u \in Logins, Begin(t, u)
    PROVE  /\ task' \in [Tasks -> Task]
           /\ raced' \subseteq Logins
           /\ TaskOK'
<1>1. /\ IdleTask \in Task
      /\ [IdleTask EXCEPT !.step = "fetchProfile", !.login = u] \in Task
  BY DEF IdleTask, Task, Steps
<1>2. task' \in [Tasks -> Task] /\ raced' \subseteq Logins
  BY <1>1 DEF Begin, TypeOK
<1>3. TaskOK'
  BY <1>1, <1>2 DEF Begin, TypeOK, TaskOK, IdleTask
<1>. QED  BY <1>2, <1>3

(* Every step of a task leaves the task well formed. *)
LEMMA TaskStepType ==
    ASSUME TypeOK, TaskOK, NEW t \in Tasks, TaskStep(t)
    PROVE  task' \in [Tasks -> Task] /\ TaskOK'
<1>. USE DEF TypeOK
<1>1. task[t] \in Task /\ IdleTask \in Task
  BY DEF IdleTask, Task, Steps
<1>2. ASSUME NEW new \in Task, task' = [task EXCEPT ![t] = new],
             new.step = "idle" => new.login = NoLogin,
             new.step # "idle" => new.login \in Logins,
             new.step \in {"idle", "fetchProfile", "saveUser"}
                => new.todo = {} /\ new.sizes = {} /\ ~new.saved,
             new.step \in {"fetchList", "saveList"} => new.todo # {} /\ new.saved,
             new.todo \subseteq new.profile, new.sizes \subseteq new.profile,
             new.sizes # {} => new.saved
      PROVE  task' \in [Tasks -> Task] /\ TaskOK'
  BY <1>2 DEF TaskOK
<1>3. CASE FetchProfile(t)
  <2>1. task[t].login \in Logins
    BY <1>3 DEF FetchProfile, TaskOK
  <2>. DEFINE new == [Goto(t, "saveUser") EXCEPT !.profile = shown[task[t].login]]
  <2>2. new \in Task /\ new.step = "saveUser" /\ new.login \in Logins
    BY <1>1, <2>1 DEF Goto, Task, Steps
  <2>3. task' = [task EXCEPT ![t] = new]
    BY <1>3 DEF FetchProfile
  <2>. QED  BY <1>1, <1>2, <2>1, <2>2, <2>3, <1>3 DEF FetchProfile, TaskOK, Goto, Task
<1>4. CASE SaveUser(t)
  <2>. DEFINE new == [Goto(t, IF task[t].profile = {} THEN "record" ELSE "fetchList")
                        EXCEPT !.saved = TRUE, !.todo = task[t].profile]
  <2>1. new \in Task
    BY <1>1 DEF Goto, Task, Steps
  <2>2. task' = [task EXCEPT ![t] = new]
    BY <1>4 DEF SaveUser
  <2>. QED  BY <1>1, <1>2, <1>4, <2>1, <2>2 DEF SaveUser, TaskOK, Goto, Task
<1>5. CASE ProfileFails(t)
  <2>. DEFINE new == [Goto(t, "record") EXCEPT !.err = TRUE]
  <2>1. new \in Task
    BY <1>1 DEF Goto, Task, Steps
  <2>2. task' = [task EXCEPT ![t] = new]
    BY <1>5 DEF ProfileFails
  <2>. QED  BY <1>1, <1>2, <1>5, <2>1, <2>2 DEF ProfileFails, TaskOK, Goto, Task
<1>6. CASE FetchCardList(t)
  <2>1. List(t) \in Lists
    BY <1>6, SlotIsTodo DEF FetchCardList, TaskOK, List, Task
  <2>. DEFINE new == [Goto(t, "saveList") EXCEPT
                       !.got = IF Slot(t) \in shown[task[t].login] THEN export[List(t)] ELSE NotFound]
  <2>2. new \in Task
    BY <1>1, <2>1 DEF Goto, Task, Steps
  <2>3. task' = [task EXCEPT ![t] = new]
    BY <1>6 DEF FetchCardList
  <2>. QED  BY <1>1, <1>2, <1>6, <2>2, <2>3 DEF FetchCardList, TaskOK, Goto, Task
<1>7. ASSUME NEW next \in Task, task[t].step \in {"fetchList", "saveList"},
             task' = [task EXCEPT ![t] = NextList(t, next)],
             next.login = task[t].login, next.profile = task[t].profile,
             next.saved = task[t].saved, next.sizes \subseteq task[t].profile
      PROVE  task' \in [Tasks -> Task] /\ TaskOK'
  <2>1. task[t].saved /\ task[t].login \in Logins /\ task[t].todo \subseteq task[t].profile
    BY <1>7 DEF TaskOK
  <2>2. /\ NextList(t, next) \in Task
        /\ NextList(t, next).login = next.login
        /\ NextList(t, next).profile = next.profile
        /\ NextList(t, next).saved = next.saved
        /\ NextList(t, next).sizes = next.sizes
        /\ NextList(t, next).todo = task[t].todo \ {Slot(t)}
        /\ NextList(t, next).step \in {"record", "fetchList"}
        /\ NextList(t, next).step = "fetchList" => NextList(t, next).todo # {}
    BY <1>7, NextListFields
  <2>. QED  BY <1>2, <1>7, <2>1, <2>2
<1>8. CASE SaveList(t)
  <2>1. Slot(t) \in task[t].profile
    BY <1>1, <1>8, SlotIsTodo DEF SaveList, TaskOK, Task
  <2>2. CASE task' = [task EXCEPT ![t] = NextList(t, task[t])]
    BY <1>1, <1>7, <1>8, <2>2 DEF SaveList, TaskOK
  <2>3. CASE task' = [task EXCEPT ![t] = NextList(t, [task[t] EXCEPT !.sizes = @ \union {Slot(t)}])]
    <3>. DEFINE next == [task[t] EXCEPT !.sizes = @ \union {Slot(t)}]
    <3>1. /\ next \in Task /\ next.login = task[t].login /\ next.profile = task[t].profile
          /\ next.saved = task[t].saved /\ next.sizes \subseteq task[t].profile
      BY <1>1, <2>1 DEF Task, TaskOK
    <3>. QED  BY <1>7, <1>8, <2>3, <3>1 DEF SaveList
  <2>. QED  BY <1>8, <2>2, <2>3 DEF SaveList
<1>9. CASE ListFails(t)
  <2>. DEFINE next == [task[t] EXCEPT !.err = TRUE]
  <2>1. /\ next \in Task /\ next.login = task[t].login /\ next.profile = task[t].profile
        /\ next.saved = task[t].saved /\ next.sizes \subseteq task[t].profile
    BY <1>1 DEF Task, TaskOK
  <2>. QED  BY <1>7, <1>9, <2>1 DEF ListFails
<1>10. CASE Record(t) \/ RecordFails(t)
  BY <1>1, <1>2, <1>10 DEF Record, RecordFails, IdleTask
<1>. QED  BY <1>3, <1>4, <1>5, <1>6, <1>8, <1>9, <1>10 DEF TaskStep


-----------------------------------------------------------------------------
(* Every state of Refresh is well typed, and a running task has a login, a *)
(* profile its lists come from, and saved the user before any list: what   *)
(* the steps of refreshUser assume of each other.                          *)
LEMMA InitType == Init => TypeOK /\ TaskOK
  BY BodiesAssumption, MaxEventsAssumption
  DEF Init, StorageInit, TypeOK, StorageTypeOK, TaskOK, IdleTask, Task, Steps, Windows

LEMMA NextType ==
    ASSUME TypeOK, TaskOK, Next
    PROVE  TypeOK' /\ TaskOK'
<1>. USE DEF TypeOK
<1>1. ASSUME NEW t \in Tasks, TaskStep(t)
      PROVE  TypeOK' /\ TaskOK'
  <2>1. task' \in [Tasks -> Task] /\ TaskOK'
    BY <1>1, TaskStepType
  <2>2. task[t].login \in Logins \/ task[t].step = "idle"
    BY DEF TaskOK
  <2>3. UNCHANGED <<shown, export, waiting, events, raced, withdrawn>>
    BY <1>1 DEF TaskStep, FetchProfile, SaveUser, ProfileFails, FetchCardList, SaveList,
                ListFails, Record, RecordFails, deckbox, history
  <2>4. StorageTypeOK'
    <3>1. CASE UNCHANGED db
      BY <3>1 DEF db, StorageTypeOK
    <3>2. CASE SaveUser(t)
      <4>1. task[t].login \in Logins /\ task[t].profile \in SUBSET Slots
        BY <2>2, <3>2 DEF SaveUser, Task
      <4>2. DeleteLists({task[t].login} \X (SlotsOf(task[t].login) \ task[t].profile))
        BY <3>2 DEF SaveUser, SaveDeckboxUser
      <4>3. {task[t].login} \X (SlotsOf(task[t].login) \ task[t].profile) \in SUBSET Lists
        BY <4>1 DEF SlotsOf, Known, StorageTypeOK
      <4>. QED  BY <3>2, <4>1, <4>2, <4>3, DeleteListsType DEF SaveUser, SaveDeckboxUser, StorageTypeOK
    <3>3. CASE SaveList(t)
      <4>1. List(t) \in Lists
        BY <2>2, <3>3, SlotIsTodo DEF SaveList, TaskOK, List, Task
      <4>2. task[t].got \in Bodies \union {NotFound}
        BY DEF Task
      <4>. QED  BY <3>3, <4>1, <4>2, SaveCardListType, BodiesAssumption DEF SaveList
    <3>4. CASE Record(t)
      <4>1. /\ task[t].login \in Logins /\ task[t].sizes \in SUBSET Slots
            /\ task[t].saved \in BOOLEAN /\ task[t].err \in BOOLEAN
        BY <2>2, <3>4 DEF Record, Task
      <4>. QED  BY <3>4, <4>1 DEF Record, SaveRefreshOutcome, StorageTypeOK, Windows
    <3>. QED  BY <1>1, <3>1, <3>2, <3>3, <3>4
                 DEF TaskStep, FetchProfile, ProfileFails, FetchCardList, ListFails, RecordFails
  <2>. QED  BY <2>1, <2>3, <2>4
<1>2. ASSUME NEW u \in Logins, NEW t \in Tasks,
             Suggest(u, t) \/ RefreshNow(u, t) \/ \E b \in Bots : Register(b, u, t)
      PROVE  TypeOK' /\ TaskOK'
  <2>1. Begin(t, u) /\ UNCHANGED batch /\ suggested' \subseteq suggested
    BY <1>2 DEF Suggest, RefreshNow, Register
  <2>2. StorageTypeOK'
    BY <1>2 DEF Suggest, RefreshNow, Register, RegisterUser, StorageTypeOK, db
  <2>. QED  BY <2>1, <2>2, BeginType DEF Begin, deckbox
<1>3. CASE ReadStale \/ \E u \in Logins, t \in Tasks : CheckFreshness(u, t)
  BY <1>3 DEF ReadStale, CheckFreshness, StaleLogins, StorageTypeOK, TaskOK, db, deckbox, history
<1>4. ASSUME NEW u \in Logins, RefreshStale(u)
      PROVE  TypeOK' /\ TaskOK'
  <2>1. Begin(Ticker, u) /\ batch' \subseteq Logins /\ UNCHANGED <<db, suggested>>
    BY <1>4 DEF RefreshStale
  <2>2. StorageTypeOK'
    BY <2>1 DEF StorageTypeOK, db
  <2>. QED  BY <2>1, <2>2, BeginType, TickerAssumption DEF Begin, deckbox
<1>5. ASSUME NEW u \in Logins, Purge(u)
      PROVE  TypeOK' /\ TaskOK'
  <2>1. DeleteLists({u} \X ids[u]) /\ {u} \X ids[u] \in SUBSET Lists
    BY <1>5 DEF Purge, PurgeDeckboxUser, Known, StorageTypeOK
  <2>2. StorageTypeOK'
    BY <1>5, <2>1, DeleteListsType DEF Purge, PurgeDeckboxUser, StorageTypeOK, Windows
  <2>. QED  BY <1>5, <2>2 DEF Purge, TaskOK, deckbox
<1>6. ASSUME NEW u \in Logins, TimePasses(u)
      PROVE  TypeOK' /\ TaskOK'
  BY <1>6 DEF TimePasses, StorageTypeOK, Windows, TaskOK, deckbox, history
<1>7. ASSUME NEW b \in Bots, Unlink(b)
      PROVE  TypeOK' /\ TaskOK'
  BY <1>7 DEF Unlink, UnlinkBotUser, StorageTypeOK, TaskOK, deckbox, history
<1>8. ASSUME NEW l \in Lists, NEW body \in Bodies, EditList(l, body)
      PROVE  TypeOK' /\ TaskOK'
  BY <1>8, MaxEventsAssumption DEF EditList, StorageTypeOK, TaskOK, db
<1>9. ASSUME NEW u \in Logins, NEW k \in Slots, HideOrShow(u, k)
      PROVE  TypeOK' /\ TaskOK'
  BY <1>9, MaxEventsAssumption DEF HideOrShow, StorageTypeOK, TaskOK, db
<1>10. CASE Restart
  <2>1. task' \in [Tasks -> Task] /\ TaskOK'
    BY <1>10 DEF Restart, TaskOK, IdleTask, Task, Steps
  <2>2. StorageTypeOK'
    <3>. DEFINE L == {l \in Lists : rows[l] # NoCards /\ ~Referenced(l)}
    <3>1. DeleteLists(L) /\ L \in SUBSET Lists
      BY <1>10 DEF Restart, DeleteUnreferencedLists
    <3>. QED  BY <1>10, <3>1, DeleteListsType DEF Restart, DeleteUnreferencedLists, StorageTypeOK
  <2>3. events' \in 0 .. MaxEvents
    BY <1>10, MaxEventsAssumption DEF Restart
  <2>. QED  BY <1>10, <2>1, <2>2, <2>3 DEF Restart, deckbox, history
<1>. QED  BY <1>1, <1>2, <1>3, <1>4, <1>5, <1>6, <1>7, <1>8, <1>9, <1>10 DEF Next

THEOREM Typing == Spec => [](TypeOK /\ TaskOK)
<1>1. TypeOK /\ TaskOK /\ UNCHANGED vars => TypeOK' /\ TaskOK'
  BY DEF vars, db, deckbox, history, TypeOK, StorageTypeOK, TaskOK
<1>. QED  BY InitType, NextType, <1>1, PTL DEF Spec


-----------------------------------------------------------------------------
(* Rows, hash and FTS rows of a list are only ever written together. *)
LEMMA DeleteListsConsistent ==
    ASSUME StorageTypeOK, Consistent, NEW L, DeleteLists(L)
    PROVE  Consistent'
  BY DEF StorageTypeOK, Consistent, HashDescribesRows, FtsMirrorsRows, DeleteLists

LEMMA SaveCardListConsistent ==
    ASSUME StorageTypeOK, Consistent, NEW l \in Lists, NEW c, NEW h \in {c, NoHash},
           SaveCardList(l, c, h)
    PROVE  Consistent'
  BY DEF StorageTypeOK, Consistent, HashDescribesRows, FtsMirrorsRows, SaveCardList, content

LEMMA NextConsistent ==
    ASSUME TypeOK, TaskOK, Consistent, Next
    PROVE  Consistent'
<1>. USE DEF TypeOK
<1>1. ASSUME UNCHANGED content
      PROVE  Consistent'
  BY <1>1 DEF content, Consistent, HashDescribesRows, FtsMirrorsRows
<1>2. ASSUME NEW t \in Tasks, TaskStep(t)
      PROVE  Consistent'
  <2>1. CASE SaveUser(t)
    BY <2>1, DeleteListsConsistent DEF SaveUser, SaveDeckboxUser
  <2>2. CASE SaveList(t)
    <3>1. List(t) \in Lists
      BY <2>2, SlotIsTodo DEF SaveList, TaskOK, List, Task
    <3>. QED  BY <2>2, <3>1, SaveCardListConsistent DEF SaveList
  <2>. QED  BY <1>1, <1>2, <2>1, <2>2
            DEF TaskStep, FetchProfile, ProfileFails, FetchCardList, ListFails, Record,
                RecordFails, SaveRefreshOutcome, content, db
<1>3. ASSUME NEW u \in Logins, NEW t \in Tasks,
             Suggest(u, t) \/ RefreshNow(u, t) \/ \E b \in Bots : Register(b, u, t)
      PROVE  Consistent'
  BY <1>1, <1>3 DEF Suggest, RefreshNow, Register, RegisterUser, content, db
<1>4. ASSUME NEW u \in Logins, RefreshStale(u) \/ Purge(u) \/ TimePasses(u)
      PROVE  Consistent'
  BY <1>1, <1>4, DeleteListsConsistent
     DEF RefreshStale, Purge, PurgeDeckboxUser, TimePasses, content, db
<1>5. CASE Restart
  BY <1>5, DeleteListsConsistent DEF Restart, DeleteUnreferencedLists
<1>6. CASE \/ ReadStale \/ \E b \in Bots : Unlink(b)
         \/ \E u \in Logins, t \in Tasks : CheckFreshness(u, t)
  BY <1>1, <1>6 DEF ReadStale, CheckFreshness, Unlink, UnlinkBotUser, content, db
<1>7. CASE \/ \E l \in Lists, body \in Bodies : EditList(l, body)
           \/ \E u \in Logins, k \in Slots : HideOrShow(u, k)
  BY <1>1, <1>7 DEF EditList, HideOrShow, content, db
<1>. QED  BY <1>2, <1>3, <1>4, <1>5, <1>6, <1>7 DEF Next

LEMMA AlwaysConsistent == Spec => []Consistent
<1>1. Init => Consistent
  BY DEF Init, StorageInit, Consistent, HashDescribesRows, FtsMirrorsRows
<1>2. Consistent /\ UNCHANGED vars => Consistent'
  BY DEF vars, db, Consistent, HashDescribesRows, FtsMirrorsRows
<1>. QED  BY <1>1, <1>2, NextConsistent, Typing, PTL DEF Spec

(* The stored hash of a list describes its stored rows in every reachable  *)
(* state, so a list that SaveCardList skips as unchanged is unchanged.     *)
THEOREM HashesAgreeWithRows == Spec => []HashDescribesRows
<1>1. Consistent => HashDescribesRows
  BY DEF Consistent
<1>. QED  BY <1>1, AlwaysConsistent, PTL

(* The FTS rows of a list are its card rows in every reachable state,      *)
(* whichever refreshes, purges and sweeps delete or rewrite them.          *)
THEOREM IndexAgreesWithRows == Spec => []FtsMirrorsRows
<1>1. Consistent => FtsMirrorsRows
  BY DEF Consistent
<1>. QED  BY <1>1, AlwaysConsistent, PTL


-----------------------------------------------------------------------------
(* A step of a task that leaves the stored profile alone keeps Serial if   *)
(* all it stores belongs to that profile.                                  *)
LEMMA TaskKeepsSerial ==
    ASSUME TypeOK, TaskOK, Serial, NEW t \in Tasks, NEW new,
           task' = [task EXCEPT ![t] = new], UNCHANGED <<ids, raced>>,
           new.login \in {task[t].login, NoLogin},
           new.saved => task[t].saved /\ new.profile = task[t].profile,
           \A l \in Lists : l[1] \notin raced /\ Stored(l)' => Stored(l) \/ Referenced(l)
    PROVE  Serial'
<1>. SUFFICES ASSUME NEW u \in Logins, u \notin raced
              PROVE  /\ \A r, s \in Tasks : task'[r].login = u /\ task'[s].login = u => r = s
                     /\ \A s \in Tasks : task'[s].login = u /\ task'[s].saved
                                        => ids'[u] = task'[s].profile
                     /\ \A k \in Slots : Stored(<<u, k>>)' => Referenced(<<u, k>>)'
  BY DEF Serial
<1>1. \A s \in Tasks : task'[s].login = u =>
         task[s].login = u /\ (task'[s].saved => task[s].saved /\ task'[s].profile = task[s].profile)
  BY NoLoginAssumption DEF TypeOK
<1>2. \A k \in Slots : Referenced(<<u, k>>)' <=> Referenced(<<u, k>>)
  BY DEF Referenced, SlotsOf, Known
<1>3. \A k \in Slots : Stored(<<u, k>>)' => Referenced(<<u, k>>)
  BY DEF Serial
<1>. QED  BY <1>1, <1>2, <1>3 DEF Serial

LEMMA BeginKeepsSerial ==
    ASSUME TypeOK, TaskOK, Serial, NEW t \in Tasks, NEW u \in Logins, Begin(t, u),
           UNCHANGED <<ids, rows, hash, snapshots>>
    PROVE  Serial'
<1>1. raced \subseteq raced' /\ (u \in raced' \/ ~Refreshing(u))
  BY DEF Begin
<1>2. /\ task'[t].login = u /\ task'[t].saved = FALSE
      /\ \A s \in Tasks \ {t} : task'[s] = task[s]
  BY DEF Begin, IdleTask, TypeOK
<1>3. \A l \in Lists : (Stored(l)' <=> Stored(l)) /\ (Referenced(l)' <=> Referenced(l))
  BY DEF Begin, Stored, Referenced, SlotsOf, Known
<1>4. ids' = ids
  OBVIOUS
<1>. QED  BY <1>1, <1>2, <1>3, <1>4 DEF Serial, Refreshing

(* Deleting lists of a login only removes what is stored. *)
LEMMA DeleteListsStores ==
    ASSUME TypeOK, NEW L, DeleteLists(L), NEW l \in Lists, Stored(l)'
    PROVE  Stored(l) /\ l \notin L
  BY BodiesAssumption DEF DeleteLists, Stored, TypeOK, StorageTypeOK

LEMMA TaskStepSerial ==
    ASSUME TypeOK, TaskOK, Serial, NEW t \in Tasks, TaskStep(t)
    PROVE  Serial'
<1>. task[t] \in Task /\ task \in [Tasks -> Task]
  BY DEF TypeOK
<1>1. ASSUME UNCHANGED db
      PROVE  \A l \in Lists : Stored(l)' => Stored(l)
  BY <1>1 DEF db, Stored
<1>2. CASE FetchProfile(t)
  <2>1. ~task[t].saved
    BY <1>2 DEF FetchProfile, TaskOK
  <2>. DEFINE new == [Goto(t, "saveUser") EXCEPT !.profile = shown[task[t].login]]
  <2>2. new.login = task[t].login /\ new.saved = task[t].saved
    BY DEF Goto, Task
  <2>3. task' = [task EXCEPT ![t] = new]
    BY <1>2 DEF FetchProfile
  <2>4. UNCHANGED <<ids, raced>>
    BY <1>2 DEF FetchProfile, db, history
  <2>. HIDE DEF new
  <2>. QED  BY <1>1, <1>2, <2>1, <2>2, <2>3, <2>4, TaskKeepsSerial DEF FetchProfile
<1>3. CASE ProfileFails(t)
  <2>. DEFINE new == [Goto(t, "record") EXCEPT !.err = TRUE]
  <2>1. new.login = task[t].login /\ new.saved = task[t].saved /\ new.profile = task[t].profile
    BY DEF Goto, Task
  <2>2. task' = [task EXCEPT ![t] = new]
    BY <1>3 DEF ProfileFails
  <2>3. UNCHANGED <<ids, raced>>
    BY <1>3 DEF ProfileFails, db, history
  <2>. HIDE DEF new
  <2>. QED  BY <1>1, <1>3, <2>1, <2>2, <2>3, TaskKeepsSerial DEF ProfileFails
<1>4. CASE FetchCardList(t)
  <2>. DEFINE new == [Goto(t, "saveList") EXCEPT
                       !.got = IF Slot(t) \in shown[task[t].login] THEN export[List(t)] ELSE NotFound]
  <2>1. new.login = task[t].login /\ new.saved = task[t].saved /\ new.profile = task[t].profile
    BY DEF Goto, Task
  <2>2. task' = [task EXCEPT ![t] = new]
    BY <1>4 DEF FetchCardList
  <2>3. UNCHANGED <<ids, raced>>
    BY <1>4 DEF FetchCardList, db, history
  <2>. HIDE DEF new
  <2>. QED  BY <1>1, <1>4, <2>1, <2>2, <2>3, TaskKeepsSerial DEF FetchCardList
<1>5. CASE ListFails(t)
  <2>. DEFINE next == [task[t] EXCEPT !.err = TRUE]
  <2>1. next \in Task /\ next.login = task[t].login /\ next.saved = task[t].saved
        /\ next.profile = task[t].profile
    BY DEF Task
  <2>2. task' = [task EXCEPT ![t] = NextList(t, next)]
    BY <1>5 DEF ListFails
  <2>3. UNCHANGED <<ids, raced>>
    BY <1>5 DEF ListFails, db, history
  <2>4. /\ NextList(t, next).login = task[t].login
        /\ NextList(t, next).saved = task[t].saved
        /\ NextList(t, next).profile = task[t].profile
    BY <2>1, NextListFields
  <2>. HIDE DEF next
  <2>. QED  BY <1>1, <1>5, <2>2, <2>3, <2>4, TaskKeepsSerial DEF ListFails
<1>6. CASE SaveList(t)
  <2>1. /\ task[t].login \in Logins /\ task[t].saved
        /\ Slot(t) \in task[t].profile /\ List(t) \in Lists
    BY <1>6, SlotIsTodo DEF SaveList, TaskOK, List, Task
  <2>2. PICK next \in Task : /\ task' = [task EXCEPT ![t] = NextList(t, next)]
                             /\ next.login = task[t].login /\ next.saved = task[t].saved
                             /\ next.profile = task[t].profile
    <3>1. task[t] \in Task /\ [task[t] EXCEPT !.sizes = @ \union {Slot(t)}] \in Task
      BY <2>1 DEF Task
    <3>. QED  BY <1>6, <3>1 DEF SaveList, Task
  <2>3. /\ NextList(t, next).login = task[t].login
        /\ NextList(t, next).saved = task[t].saved
        /\ NextList(t, next).profile = task[t].profile
    BY <2>2, NextListFields
  <2>4. UNCHANGED <<ids, raced>>
    BY <1>6 DEF SaveList, SaveCardList, history
  <2>5. \A l \in Lists : Stored(l)' => Stored(l) \/ l = List(t)
    BY <1>6 DEF SaveList, SaveCardList, content, Stored, TypeOK, StorageTypeOK
  <2>6. List(t)[1] \notin raced => Referenced(List(t))
    <3>. HAVE List(t)[1] \notin raced
    <3>1. ids[task[t].login] = task[t].profile
      BY <2>1 DEF Serial, List
    <3>2. task[t].profile # NoUser
      BY NoUserAssumption DEF Task
    <3>. QED  BY <2>1, <3>1, <3>2 DEF Referenced, SlotsOf, Known, List
  <2>7. \A l \in Lists : l[1] \notin raced /\ Stored(l)' => Stored(l) \/ Referenced(l)
    BY <2>5, <2>6
  <2>. QED  BY <2>2, <2>3, <2>4, <2>7, TaskKeepsSerial
<1>7. CASE Record(t)
  <2>1. IdleTask.login = NoLogin /\ ~IdleTask.saved
    BY DEF IdleTask
  <2>2. task' = [task EXCEPT ![t] = IdleTask] /\ UNCHANGED <<ids, raced>>
    BY <1>7 DEF Record, SaveRefreshOutcome, history
  <2>3. ASSUME NEW l \in Lists, l[1] \notin raced, Stored(l)'
        PROVE  Stored(l) \/ Referenced(l)
    <3>1. CASE l \in {task[t].login} \X task[t].sizes
      <4>1. task[t].login \in Logins /\ task[t].saved /\ l[2] \in task[t].profile /\ l[1] = task[t].login
        BY <1>7, <3>1 DEF Record, TaskOK
      <4>2. ids[l[1]] = task[t].profile /\ task[t].profile # NoUser
        BY <2>3, <4>1, NoUserAssumption DEF Serial, Task
      <4>. QED  BY <4>1, <4>2 DEF Referenced, SlotsOf, Known
    <3>2. CASE l \notin {task[t].login} \X task[t].sizes
      BY <1>7, <2>3, <3>2 DEF Record, SaveRefreshOutcome, Stored
    <3>. QED  BY <3>1, <3>2
  <2>. HIDE DEF IdleTask
  <2>. QED  BY <2>1, <2>2, <2>3, TaskKeepsSerial
<1>8. CASE RecordFails(t)
  <2>1. IdleTask.login = NoLogin /\ ~IdleTask.saved
    BY DEF IdleTask
  <2>2. task' = [task EXCEPT ![t] = IdleTask] /\ UNCHANGED <<ids, raced>> /\ UNCHANGED db
    BY <1>8 DEF RecordFails, db, history
  <2>. QED  BY <1>1, <2>1, <2>2, TaskKeepsSerial
<1>9. CASE SaveUser(t)
  <2>. DEFINE v == task[t].login
              p == task[t].profile
  <2>1. /\ v \in Logins /\ p \in SUBSET Slots /\ p # NoUser
        /\ DeleteLists({v} \X (SlotsOf(v) \ p)) /\ raced' = raced
        /\ ids' = [ids EXCEPT ![v] = p]
    BY <1>9, NoUserAssumption DEF SaveUser, SaveDeckboxUser, TaskOK, Task, history
  <2>2. /\ task'[t].login = v /\ task'[t].profile = p
        /\ \A s \in Tasks \ {t} : task'[s] = task[s]
    BY <1>9 DEF SaveUser, Goto, Task
  <2>3. ids \in [Logins -> {NoUser} \union SUBSET Slots]
    BY DEF TypeOK, StorageTypeOK
  <2>4. \A l \in Lists : Stored(l)' => Stored(l) /\ l \notin {v} \X (SlotsOf(v) \ p)
    BY <2>1, DeleteListsStores
  <2>5. ASSUME NEW u \in Logins, u \notin raced, NEW k \in Slots, Stored(<<u, k>>)'
        PROVE  Referenced(<<u, k>>)'
    <3>1. Stored(<<u, k>>) /\ Referenced(<<u, k>>) /\ <<u, k>> \notin {v} \X (SlotsOf(v) \ p)
      BY <2>4, <2>5 DEF Serial
    <3>2. CASE u = v
      BY <2>1, <2>3, <3>1, <3>2 DEF Referenced, SlotsOf, Known
    <3>3. CASE u # v
      BY <2>1, <2>3, <3>1, <3>3 DEF Referenced, SlotsOf, Known
    <3>. QED  BY <3>2, <3>3
  <2>6. ASSUME NEW u \in Logins, u \notin raced
        PROVE  /\ \A r, s \in Tasks : task'[r].login = u /\ task'[s].login = u => r = s
               /\ \A s \in Tasks : task'[s].login = u /\ task'[s].saved => ids'[u] = task'[s].profile
    <3>1. \A s \in Tasks : task'[s].login = task[s].login
      BY <2>2
    <3>2. \A r, s \in Tasks : task[r].login = u /\ task[s].login = u => r = s
      BY <2>6 DEF Serial
    <3>3. \A s \in Tasks : task[s].login = u /\ task[s].saved => ids[u] = task[s].profile
      BY <2>6 DEF Serial
    <3>. HIDE DEF v, p
    <3>. QED  BY <2>1, <2>2, <2>3, <2>6, <3>1, <3>2, <3>3
  <2>. QED  BY <2>1, <2>5, <2>6 DEF Serial
<1>. QED  BY <1>2, <1>3, <1>4, <1>5, <1>6, <1>7, <1>8, <1>9 DEF TaskStep


LEMMA NextSerial ==
    ASSUME TypeOK, TaskOK, Serial, Next
    PROVE  Serial'
<1>1. ASSUME UNCHANGED <<ids, rows, hash, snapshots, task, raced>>
      PROVE  Serial'
  BY <1>1 DEF Serial, Stored, Referenced, SlotsOf, Known
<1>2. ASSUME NEW t \in Tasks, TaskStep(t)
      PROVE  Serial'
  BY <1>2, TaskStepSerial
<1>3. ASSUME NEW u \in Logins, NEW t \in Tasks,
             Suggest(u, t) \/ RefreshNow(u, t) \/ \E b \in Bots : Register(b, u, t)
      PROVE  Serial'
  BY <1>3, BeginKeepsSerial DEF Suggest, RefreshNow, Register, RegisterUser, db
<1>4. ASSUME NEW u \in Logins, RefreshStale(u)
      PROVE  Serial'
  BY <1>4, BeginKeepsSerial, TickerAssumption DEF RefreshStale, db
<1>5. ASSUME NEW v \in Logins, Purge(v)
      PROVE  Serial'
  <2>1. /\ DeleteLists({v} \X ids[v]) /\ ids' = [ids EXCEPT ![v] = NoUser]
        /\ task' = task /\ raced \subseteq raced' /\ (v \in raced' \/ ~Refreshing(v))
    BY <1>5 DEF Purge, PurgeDeckboxUser
  <2>2. ids \in [Logins -> {NoUser} \union SUBSET Slots]
    BY DEF TypeOK, StorageTypeOK
  <2>3. ASSUME NEW u \in Logins, u \notin raced', NEW k \in Slots, Stored(<<u, k>>)'
        PROVE  Referenced(<<u, k>>)'
    <3>1. Stored(<<u, k>>) /\ <<u, k>> \notin {v} \X ids[v]
      BY <2>1, <2>3, DeleteListsStores
    <3>2. Referenced(<<u, k>>)
      BY <2>1, <2>3, <3>1 DEF Serial
    <3>3. u # v
      BY <3>1, <3>2 DEF Referenced, SlotsOf
    <3>. QED  BY <2>1, <2>2, <3>2, <3>3 DEF Referenced, SlotsOf, Known
  <2>4. ASSUME NEW u \in Logins, u \notin raced', NEW t \in Tasks, task[t].login = u
        PROVE  ids'[u] = ids[u]
    BY <2>1, <2>2, <2>4 DEF Refreshing
  <2>. QED  BY <2>1, <2>3, <2>4 DEF Serial
<1>6. CASE Restart
  <2>1. /\ ids' = ids /\ raced' = raced /\ task' = [t \in Tasks |-> IdleTask]
        /\ IdleTask.login = NoLogin
    BY <1>6 DEF Restart, DeleteUnreferencedLists, history, IdleTask
  <2>2. \A l \in Lists : Stored(l)' => Stored(l)
    BY <1>6, DeleteListsStores DEF Restart, DeleteUnreferencedLists
  <2>3. \A l \in Lists : Referenced(l)' <=> Referenced(l)
    BY <2>1 DEF Referenced, SlotsOf, Known
  <2>. QED  BY <2>1, <2>2, <2>3, NoLoginAssumption DEF Serial
<1>7. CASE \/ ReadStale
           \/ \E u \in Logins, t \in Tasks : CheckFreshness(u, t)
           \/ \E u \in Logins : TimePasses(u)
           \/ \E b \in Bots : Unlink(b)
           \/ \E l \in Lists, body \in Bodies : EditList(l, body)
           \/ \E u \in Logins, k \in Slots : HideOrShow(u, k)
  BY <1>1, <1>7 DEF ReadStale, CheckFreshness, TimePasses, Unlink, UnlinkBotUser, EditList, HideOrShow, db, history
<1>. QED  BY <1>2, <1>3, <1>4, <1>5, <1>6, <1>7 DEF Next

(* Whatever is stored for a login that was never refreshed twice at once,  *)
(* nor purged during a refresh, belongs to a list its stored profile shows. *)
THEOREM NothingStrandedWithoutRace == Spec => []StrandedOnlyByRace
<1>1. Init => Serial
  BY BodiesAssumption, NoLoginAssumption DEF Init, StorageInit, Serial, Stored, IdleTask
<1>2. Serial /\ UNCHANGED vars => Serial'
  BY DEF vars, db, history, Serial, Stored, Referenced, SlotsOf, Known
<1>3. Serial => StrandedOnlyByRace
  BY DEF Serial, StrandedOnlyByRace
<1>. QED  BY <1>1, <1>2, <1>3, NextSerial, Typing, PTL DEF Spec


-----------------------------------------------------------------------------
LEMMA SeenOther ==
    ASSUME TypeOK, TaskOK, Seen, NEW t \in Tasks, NEW new,
           task' = [task EXCEPT ![t] = new], UNCHANGED <<ids, deckbox, withdrawn>>,
           new.step \notin {"saveUser", "saveList"}
    PROVE  Seen'
<1>1. \A s \in Tasks : task'[s].step \in {"saveUser", "saveList"} => task'[s] = task[s]
  BY DEF TypeOK
<1>2. \A s \in Tasks : task'[s] = task[s] => List(s)' = List(s)
  BY DEF List, Slot
<1>. QED  BY <1>1, <1>2 DEF Seen, Offered, Known, deckbox

LEMMA SeenStill ==
    ASSUME TypeOK, Seen, UNCHANGED <<task, ids, deckbox, withdrawn>>
    PROVE  Seen'
<1>1. \A s \in Tasks : List(s)' = List(s)
  BY DEF List, Slot
<1>. QED  BY <1>1 DEF Seen, Offered, Known, deckbox

LEMMA SeenBegin ==
    ASSUME TypeOK, TaskOK, Seen, NEW t \in Tasks, NEW u \in Logins, Begin(t, u), UNCHANGED ids
    PROVE  Seen'
<1>. DEFINE new == [IdleTask EXCEPT !.step = "fetchProfile", !.login = u]
<1>1. new.step = "fetchProfile"
  BY DEF IdleTask
<1>2. task' = [task EXCEPT ![t] = new] /\ UNCHANGED <<deckbox, withdrawn>>
  BY DEF Begin, deckbox
<1>. HIDE DEF new
<1>. QED  BY <1>1, <1>2, SeenOther

LEMMA TaskStepSeen ==
    ASSUME TypeOK, TaskOK, Seen, NEW t \in Tasks, TaskStep(t)
    PROVE  Seen'
<1>. task[t] \in Task /\ task \in [Tasks -> Task]
  BY DEF TypeOK
<1>1. UNCHANGED <<deckbox, withdrawn>>
  BY DEF TaskStep, FetchProfile, SaveUser, ProfileFails, FetchCardList, SaveList, ListFails,
         Record, RecordFails, history
<1>2. CASE FetchProfile(t)
  <2>1. task[t].login \in Logins
    BY <1>2 DEF FetchProfile, TaskOK
  <2>2. /\ task'[t].step = "saveUser" /\ task'[t].login = task[t].login
        /\ task'[t].profile = shown[task[t].login]
        /\ \A s \in Tasks \ {t} : task'[s] = task[s] /\ List(s)' = List(s)
    BY <1>2 DEF FetchProfile, Goto, Task, List, Slot
  <2>3. \A k \in Slots \ shown[task[t].login] : <<task[t].login, k>> \in withdrawn
    BY <2>1 DEF Seen, Offered
  <2>4. UNCHANGED <<ids, shown, export, withdrawn>>
    BY <1>1, <1>2 DEF FetchProfile, db, deckbox
  <2>. QED  BY <2>2, <2>3, <2>4 DEF Seen, Offered, Known
<1>3. CASE FetchCardList(t)
  <2>1. List(t) \in Lists /\ task[t].todo # {}
    BY <1>3, SlotIsTodo DEF FetchCardList, TaskOK, List, Task
  <2>2. /\ task'[t].step = "saveList" /\ List(t)' = List(t)
        /\ task'[t].got = IF Slot(t) \in shown[task[t].login] THEN export[List(t)] ELSE NotFound
        /\ \A s \in Tasks \ {t} : task'[s] = task[s] /\ List(s)' = List(s)
    BY <1>3 DEF FetchCardList, Goto, Task, List, Slot
  <2>3. task'[t].got \in {NotFound, NoCards} => List(t) \in withdrawn
    <3>1. List(t)[1] = task[t].login /\ List(t)[2] = Slot(t)
      BY DEF List
    <3>2. export[List(t)] \in Bodies
      BY <2>1 DEF TypeOK
    <3>. QED  BY <2>1, <2>2, <3>1, <3>2, NotFoundAssumption DEF Seen, Offered
  <2>4. UNCHANGED <<ids, shown, export, withdrawn>>
    BY <1>1, <1>3 DEF FetchCardList, db, deckbox
  <2>. QED  BY <2>2, <2>3, <2>4 DEF Seen, Offered, Known
<1>4. CASE SaveUser(t)
  <2>. DEFINE v == task[t].login
              p == task[t].profile
  <2>1. v \in Logins /\ \A k \in Slots \ p : <<v, k>> \in withdrawn
    BY <1>4 DEF SaveUser, TaskOK, Seen
  <2>2. ids' = [ids EXCEPT ![v] = p] /\ ids \in [Logins -> {NoUser} \union SUBSET Slots]
    BY <1>4 DEF SaveUser, SaveDeckboxUser, TypeOK, StorageTypeOK
  <2>3. /\ task'[t].step \in {"record", "fetchList"}
        /\ \A s \in Tasks \ {t} : task'[s] = task[s] /\ List(s)' = List(s)
    BY <1>4 DEF SaveUser, Goto, Task, List, Slot
  <2>4. \A u \in Logins, k \in Slots : Known(u)' /\ k \notin ids'[u] => <<u, k>> \in withdrawn
    BY <2>1, <2>2 DEF Seen, Known
  <2>. QED  BY <1>1, <2>3, <2>4 DEF Seen, Offered, deckbox
<1>5. ASSUME NEW next \in Task, task' = [task EXCEPT ![t] = NextList(t, next)], ids' = ids
      PROVE  Seen'
  BY <1>1, <1>5, NextListFields, SeenOther
<1>6. CASE SaveList(t)
  <2>1. Slot(t) \in Slots
    BY <1>6, SlotIsTodo DEF SaveList, TaskOK, Task
  <2>2. task[t] \in Task /\ [task[t] EXCEPT !.sizes = @ \union {Slot(t)}] \in Task
    BY <2>1 DEF Task
  <2>. QED  BY <1>5, <1>6, <2>2 DEF SaveList, SaveCardList
<1>7. CASE ListFails(t)
  <2>1. [task[t] EXCEPT !.err = TRUE] \in Task
    BY DEF Task
  <2>. QED  BY <1>5, <1>7, <2>1 DEF ListFails, db
<1>8. CASE ProfileFails(t)
  <2>. DEFINE new == [Goto(t, "record") EXCEPT !.err = TRUE]
  <2>1. new.step = "record" /\ task' = [task EXCEPT ![t] = new] /\ ids' = ids
    BY <1>8 DEF ProfileFails, Goto, Task, db
  <2>. HIDE DEF new
  <2>. QED  BY <1>1, <2>1, SeenOther
<1>9. CASE Record(t) \/ RecordFails(t)
  <2>1. IdleTask.step = "idle" /\ task' = [task EXCEPT ![t] = IdleTask] /\ ids' = ids
    BY <1>9 DEF Record, RecordFails, SaveRefreshOutcome, IdleTask, db
  <2>. QED  BY <1>1, <2>1, SeenOther
<1>. QED  BY <1>2, <1>3, <1>4, <1>6, <1>7, <1>8, <1>9 DEF TaskStep

LEMMA NextSeen ==
    ASSUME TypeOK, TaskOK, Seen, Next
    PROVE  Seen'
<1>1. ASSUME NEW t \in Tasks, TaskStep(t)
      PROVE  Seen'
  BY <1>1, TaskStepSeen
<1>2. ASSUME NEW u \in Logins, NEW t \in Tasks,
             Suggest(u, t) \/ RefreshNow(u, t) \/ \E b \in Bots : Register(b, u, t)
      PROVE  Seen'
  BY <1>2, SeenBegin DEF Suggest, RefreshNow, Register, RegisterUser, db
<1>3. ASSUME NEW u \in Logins, RefreshStale(u)
      PROVE  Seen'
  BY <1>3, SeenBegin, TickerAssumption DEF RefreshStale, db
<1>4. ASSUME NEW v \in Logins, Purge(v)
      PROVE  Seen'
  <2>1. /\ ids' = [ids EXCEPT ![v] = NoUser] /\ UNCHANGED <<task, deckbox, withdrawn>>
        /\ ids \in [Logins -> {NoUser} \union SUBSET Slots]
    BY <1>4 DEF Purge, PurgeDeckboxUser, TypeOK, StorageTypeOK
  <2>2. \A s \in Tasks : List(s)' = List(s)
    BY <2>1 DEF List, Slot
  <2>. QED  BY <2>1, <2>2 DEF Seen, Offered, Known, deckbox
<1>5. CASE Restart
  <2>1. /\ task' = [t \in Tasks |-> IdleTask] /\ IdleTask.step = "idle"
        /\ UNCHANGED <<ids, shown, export, withdrawn>>
    BY <1>5 DEF Restart, DeleteUnreferencedLists, deckbox, history, IdleTask
  <2>. HIDE DEF IdleTask
  <2>. QED  BY <2>1 DEF Seen, Offered, Known
<1>6. ASSUME NEW l \in Lists, NEW body \in Bodies, EditList(l, body)
      PROVE  Seen'
  <2>1. /\ UNCHANGED <<ids, shown, task>> /\ export' = [export EXCEPT ![l] = body]
        /\ withdrawn' = IF body = NoCards THEN withdrawn \union {l} ELSE withdrawn
        /\ export \in [Lists -> Bodies]
    BY <1>6 DEF EditList, db, TypeOK
  <2>2. \A s \in Tasks : List(s)' = List(s)
    BY <2>1 DEF List, Slot
  <2>. QED  BY <2>1, <2>2 DEF Seen, Offered, Known
<1>7. ASSUME NEW u \in Logins, NEW k \in Slots, HideOrShow(u, k)
      PROVE  Seen'
  <2>1. /\ UNCHANGED <<ids, export, task>>
        /\ shown' = [shown EXCEPT ![u] = IF k \in @ THEN @ \ {k} ELSE @ \union {k}]
        /\ withdrawn' = IF k \in shown[u] THEN withdrawn \union {<<u, k>>} ELSE withdrawn
        /\ shown \in [Logins -> SUBSET Slots]
    BY <1>7 DEF HideOrShow, db, TypeOK
  <2>2. \A s \in Tasks : List(s)' = List(s)
    BY <2>1 DEF List, Slot
  <2>3. \A m \in Lists : Offered(m) => Offered(m)' \/ (m = <<u, k>> /\ k \in shown[u])
    BY <2>1 DEF Offered
  <2>. QED  BY <2>1, <2>2, <2>3 DEF Seen, Known
<1>8. CASE \/ ReadStale
           \/ \E u \in Logins, t \in Tasks : CheckFreshness(u, t)
           \/ \E u \in Logins : TimePasses(u)
           \/ \E b \in Bots : Unlink(b)
  BY <1>8, SeenStill DEF ReadStale, CheckFreshness, TimePasses, Unlink, UnlinkBotUser, db, history
<1>. QED  BY <1>1, <1>2, <1>3, <1>4, <1>5, <1>6, <1>7, <1>8 DEF Next


-----------------------------------------------------------------------------
(* Stored cards are lost only to an owner who hid or emptied the list at   *)
(* some time, or to a Purge of the login; a failure of any fetch or        *)
(* transaction, a crash and an overlapping refresh keep the last copy.     *)
LEMMA NextKeepsCopy ==
    ASSUME TypeOK, TaskOK, Seen, Next
    PROVE  KeepsCopy
<1>. SUFFICES ASSUME NEW l \in Lists, rows[l] # NoCards, rows'[l] = NoCards,
                     Known(l[1]), ids'[l[1]] # NoUser
              PROVE  l \in withdrawn
  BY DEF KeepsCopy
<1>. rows' # rows
  OBVIOUS
<1>1. \A L : DeleteLists(L) => l \in L
  BY DEF DeleteLists
<1>2. l = <<l[1], l[2]>> /\ l[1] \in Logins /\ l[2] \in Slots
  OBVIOUS
<1>3. Next => \/ \E t \in Tasks : SaveUser(t) \/ SaveList(t)
              \/ \E u \in Logins : Purge(u)
              \/ Restart
  BY DEF Next, TaskStep, FetchProfile, ProfileFails, FetchCardList, ListFails, Record, RecordFails,
         SaveRefreshOutcome, CheckFreshness, Suggest, RefreshNow, Register, RegisterUser, ReadStale, RefreshStale,
         TimePasses, Unlink, UnlinkBotUser, EditList, HideOrShow, db
<1>4. ASSUME NEW t \in Tasks, SaveUser(t)
      PROVE  l \in withdrawn
  <2>1. l \in {task[t].login} \X (SlotsOf(task[t].login) \ task[t].profile)
    BY <1>1, <1>4 DEF SaveUser, SaveDeckboxUser
  <2>2. l[1] = task[t].login /\ l[2] \notin task[t].profile
    BY <2>1
  <2>. QED  BY <1>2, <1>4, <2>2 DEF SaveUser, Seen
<1>5. ASSUME NEW t \in Tasks, SaveList(t)
      PROVE  l \in withdrawn
  <2>1. l = List(t) /\ task[t].got \in {NotFound, NoCards}
    BY <1>5 DEF SaveList, SaveCardList, content, TypeOK, StorageTypeOK
  <2>. QED  BY <1>5, <2>1 DEF SaveList, Seen
<1>6. ASSUME NEW u \in Logins, Purge(u)
      PROVE  l \in withdrawn
  <2>1. l \in {u} \X ids[u] /\ ids'[u] = NoUser
    BY <1>1, <1>6 DEF Purge, PurgeDeckboxUser, TypeOK, StorageTypeOK
  <2>. QED  BY <2>1
<1>7. CASE Restart
  <2>1. ~Referenced(l)
    BY <1>1, <1>7 DEF Restart, DeleteUnreferencedLists
  <2>. QED  BY <1>2, <2>1 DEF Referenced, SlotsOf, Seen
<1>. QED  BY <1>3, <1>4, <1>5, <1>6, <1>7

THEOREM FailuresKeepTheLastCopy == Spec => FailureKeepsCopy
<1>1. Init => Seen
  BY NoUserAssumption DEF Init, StorageInit, Seen, Known, IdleTask
<1>2. TypeOK /\ Seen /\ UNCHANGED vars => Seen'
  BY SeenStill DEF vars, db, history
<1>3. KeepsCopy \/ UNCHANGED vars => [KeepsCopy]_vars
  OBVIOUS
<1>4. FailureKeepsCopy <=> [][KeepsCopy]_vars
  BY DEF FailureKeepsCopy
<1>. QED  BY <1>1, <1>2, <1>3, <1>4, NextSeen, NextKeepsCopy, Typing, PTL DEF Spec

=============================================================================
