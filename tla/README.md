# Friendly Card Finder: TLA+ specifications

The bot answers "who has this card" in Telegram and Discord. It keeps a copy of
the Deckbox inventory, tradelist and wishlist of every registered player in
SQLite, refreshes the copies in the background, and has an Admin Panel for its
operator. These specifications are about the parts of it where order, failure
and concurrency decide whether it is right: refreshing, importing a Card List,
the shared Deckbox session, search, the search index, the operator's analytics,
and the way of a reply to Telegram or Discord. Words like Card List, Refresh, Purge, Demand are those of
`CONTEXT.md`. Paths are relative to the root of the Go module.

## 1. The system

| Component | Code | State | Operations |
|---|---|---|---|
| Refresh engine | `internal/deckbox/handler.go` | none of its own; refreshes in flight | Register, Suggest, RefreshNow, RefreshStale, refreshUser, record |
| Storage | `internal/storage/sqlite` | `users`, `deckbox_users`, `card_lists`, `card_lists_fts`, `card_list_hashes`, `list_snapshots`, `search_stats`, `daily_stats` | RegisterUser, SaveDeckboxUser, SaveCardList, SaveRefreshOutcome, PurgeDeckboxUser, UnlinkBotUser, deleteUnreferencedLists, reads |
| Refresh worker pool | `handler.go`, refreshUsers | two channels, the WaitGroup | send, take, refresh, close, collect |
| Deckbox session | `internal/deckbox/session.go`, `scrapper.go` | cookie, its mutex, the cookie file, the override | Cookie, Refresh, loginLocked, FetchCardList |
| Scraper and parsers | `scrapper.go` | none | profile page and export to Card Lists |
| Search and Demand | `handler.go`, `sqlite.go`, `admin.go` | slots of the lines; Demand tables | Search, SearchCard, ContactsFor, RecordSearch |
| Full-text index | `sqlite.go`, ensureFtsTable | `card_lists_fts`, `ftsEnabled` | inspect, drop, create, repopulate, write through |
| Admin Panel | `internal/admin/admin.go` | the insights cache, its mutex | insights, purge, refresh, add, unlink |
| Message splitting | `internal/lib/tgutil/split.go` | the loop's offsets | SplitMessage |
| Chat commands | `internal/chat/command.go` | none | a request to replies; Suggest's second reply |
| Rendering, translations | `internal/chat/render.go`, `internal/message`, `internal/i18n` | none | a result to a text |
| Telegram and Discord adapters | `internal/telegram`, `internal/discord` | the SDK's; the interaction is the platform's | route, acknowledge, split, send, follow up |
| Wiring, configuration, migrations | `main.go`, `internal/config`, `internal/storage/sqlite/migrations` | none | a ticker every 30 s; environment; goose |

How they meet. A chat command or the panel calls the Handler of
`internal/deckbox`, which fetches from Deckbox over the session and writes to
Storage. `main` calls RefreshStale from a ticker. Register answers the user at
once and refreshes in a goroutine of its own. All writers share one SQLite
connection (`writeDB`), so write transactions are serial; readers have their own
pool and see snapshots. Nothing else orders two refreshes of one login: no lock,
no version, no check that the login still exists. Requests of users are served in
goroutines of their own and share nothing but Storage.

What is hard, and the properties that answer it:

- Two refreshes of a login interleave with each other, with a Purge, with an
  edit by the list's owner, and each fetch and transaction may fail or be the
  last one before a crash. Do hashes, index and rows still agree
  (`HashDescribesRows`, `FtsMirrorsRows`)? What is left over, and when
  (`StrandedOnlyByRace`)? Does a failure ever cost the last copy
  (`FailureKeepsCopy`)? Does the ticker get round to everybody, and does what is
  stored come back to what Deckbox has (`StaleIsRefreshed`,
  `StoredListsConverge`)?
- Ten workers are told within a second that their cookie has expired
  (`LoginOnlyWhenNeeded`, `SelfHeals`, `FetchReturns`).
- Four kinds of goroutines, two channels and a context that may be done at any
  moment (`NoSendOnClosed`, `KeepsPromise`, `NoGoroutineLeft`).
- One query per line of a message, each from a snapshot of its own, and Demand
  counted behind the answer's back (`AnswerWasTrue`, `MissesWereTrue`, `DemandAddsUp`, `SearchEnds`).
- An export of thousands of lines, in 16-bit sums, through two batched writers in one
  transaction that may end anywhere (`RowsAreTheExport`, `StatementsFit`, `ReplaceIsAtomic`).
- An index rebuilt in three transactions at startup (`IncompleteOnlyIfTorn`).
- A cache filled under a mutex while what it caches changes (`ShowsWhatIsDue`,
  `EverythingAnswered`).
- Byte limits and rune boundaries (`JoinsToMessage`, `NoEmptyPart`,
  `LinesKeptWhole`, `TooLongByTwoRunes`).
- An answer of several replies of several parts, to platforms that refuse any of them, that
  want an acknowledgement within three seconds, and that show a placeholder whose
  visibility is chosen before the command has run (`ShownInOrder`, `ReadsAsOneThread`,
  `AcknowledgedFirst`, `NoPlaceholderLeft`, `VisibleToWhomItMay`, `EveryRequestEnds`).

The hazards, each at its line and with its properties, are listed in
`PROJECT.json`.

## 2. The modules

`Storage` is a library of transactions; `Refresh` EXTENDS it and is the
specification of both. `Delivery` EXTENDS `SplitMessage` and runs it for every
reply. `Int16` is the arithmetic of quantities, which `ListImport` and `Search` EXTEND.
`Batch` and `StoredList` are abstract specifications, which `WorkerPool` and
`ListImport` implement. The others stand alone, and the next paragraphs say where they touch.
`MC*` modules give the constants values for TLC; `*Proofs` modules hold the
theorems. Definitions whose comment begins with "Mutant:" are the faults a
property must find, and occur in no specification.

**Storage** — the tables as functions over Card Lists `<<login, slot>>` (a
profile has three, with fixed ids), one operator per write transaction. The
cards of a list are one abstract *body*, `NoCards` when there is none; the hash of
a body is the body, `NoHash` is "unknown". A login's `updated_at` is the window it
falls in. A transaction commits as a whole (there is one write connection), and
a failed one changes nothing, so failing is left to the caller. The snapshot
table keeps which lists have a row, since only that is deleted with them.

**Refresh** — a *task* is one call of refreshUser and record over one login.
Its steps are the code's: fetch the profile; SaveDeckboxUser, which also deletes
the lists no longer shown; for each list in order, fetch the export and
SaveCardList; SaveRefreshOutcome. Each can fail (`ProfileFails`, `ListFails`,
`RecordFails`), which is also what an expired context does to all that follow.
A list hidden since the profile was read answers "not found" and is cleared. The
Deckbox side (`shown`, `export`) changes by the owner's hand; `Restart` loses all
tasks and runs the sweep of `storage.New`. The ticker's `ReadStale` reads the
stale logins once, and one task (`Ticker`) refreshes them one after the other:
its ten workers are on different logins, and those do not touch each other's
rows; chat commands and the panel may have any number of further tasks on the
same login. Suggest finds out which of its logins are stale before it refreshes any
(`CheckFreshness`, then `Suggest`): in between, another refresh may have made one fresh. `raced` and `withdrawn` are history for the properties.

**Batch, WorkerPool** — refreshUsers. Jobs are a FIFO filled in order, so the
channel is the interval `taken + 1 .. sent`; outcomes are a set, since no caller
depends on their order. The promise in `Batch` is that each login is refreshed at
most once, all unless cancelled, that what is reported is exactly what was
recorded, and nothing goes on after the return.

**Int16** — Go's int16 with a width (`Half`, 2^15 in the code) and its wrap-around.

**StoredList, ListImport** — a Card List from the lines of its export to the committed
rows. `ListImport` is parseCardListExport line by line, in the integers of `Int16`, and
SaveCardList statement by statement: the skip, the deletes and the hash (`Clear`), the
stream into one batch per table, flushed when full and at the end, and the commit. Any
statement may fail and the process may die between two (`Rollback`). `StoredList` is the save
as `Storage` and `FtsIndex` take it, one step for rows, index and hash; that
`ListImport` implements it is what justifies them. The batch of a table is a set of cards,
as a Go map is streamed in any order; a card is in the map once.

**Session** — Cookie, Refresh and loginLocked under the mutex; a login is the only
thing that takes time under it, so it is the only time the mutex is a state.
Deckbox numbers the cookies it issues and may drop any. The override may be any
cookie ever issued, and another one after a restart; the file may hold any or
none, and a failed write may leave the old one or an empty file.

**FtsIndex** — ensureFtsTable as the three transactions it is, over starts, new
layouts, builds with and without FTS5 (the `fts5` tag of the SQLite driver),
failures and crashes, with saves between. `Storage` takes an enabled and complete
index for granted: this module says when there is one.

**Search** — a goroutine per line, each query reading the lists as they are at
that moment, the merge, the contacts, and the goroutine of recordDemand. `window` is
history: all contents of the lists since the search began. A list has a row for a card, of any
quantity, or none (`NoRow`), and it is rows that make a match. `FoundCards` adds the
copies of a card up over the lines in int16, as the merge does.
Matching (prefix, exact, LIKE, tokens) is a relation of terms and cards; the
semaphore of eight is not told apart, since a query holds it for its one step.

**Panel** — GET /insights with its cache under `Server.mu`, against the POSTs that
drop it. What the analytics are computed from is told apart by the number of
transactions that changed it. The two queries of the Trade Matches stand for all.

**SplitMessage** — the loop rune by rune, with its four outcomes (advance, cut after
a newline, before one, or here) and the recursion on what is left. A rune is its
width and whether it is a newline. `Split` is a further call, for `Delivery`.

**Delivery** — one request from its arrival to the last part of its answer. `Receive` is the
routing of both adapters, by the names of commands and forms: which open a form (`OpenModal`), which are
acknowledged first (`Defer`), which run at once. Which commands reach storage (`ReachesStorage`) is read from
`internal/chat` and not from that routing, so `AcknowledgedFirst` holds the one against the other. `Run` is the command, with the replies that
`internal/chat` can give it (`Outcomes`): how many, private or not, quoting or not. Telegram and
channel messages are split and sent reply by reply, the messages of an interaction are all
made before the first is sent (`TakeParts`, `AllTaken`). Every call of a platform may fail, and the
three stop rules are the code's: Telegram drops the rest of the reply, Discord the rest of the
answer, and without an acknowledgement nothing runs. `RunSuggested` is the function Suggest
returns, whose summary on Discord goes to the channel and pings the requester; `ShownInOrder` asks for it
whether or not the acknowledgement could be sent. `via` is how replies go
out, `interaction` what Discord knows: open, a placeholder (public or private), answered
or deleted. That the first follow-up takes the placeholder over, and with it its visibility,
is Discord's rule as the comment on `deferred` states it. Requests share nothing,
so one is enough.

## 3. The runs

| Run | What it asks | Bounds |
|---|---|---|
| `refresh_safety` | the five safety properties of Refresh, all operations | 1 login, 2 lists, the ticker and another task, one non-empty body, 1 owner edit or crash (`MaxEvents`); 3.7 million states |
| `refresh_live` | the ticker's promises | 1 login, 1 list, 2 tasks, 1 event |
| `purge_during_refresh` | `PurgeLeavesNothing`: refuted | registrations and purges |
| `session` | one login per rejection, healing, nobody waits for ever | 2 workers, 3 cookies (`MaxIssued`) |
| `pool` | the promise of Batch, no send on a closed channel, no goroutine left | 3 workers, 4 logins |
| `fts` | completeness of the index | 2 lists, 3 bodies, 2 upgrades |
| `fts_rebuild` | `EnabledIsComplete`: refuted | the same |
| `search` | truth of answers and of misses, Demand sums, ending | 1 message of up to 2 lines, which may repeat or overlap, 3 terms (one of punctuation only), 2 cards, 2 lists, 2 saves; 4 contents of a list, among them a row of no copies, in quantities of -3 to 2; 620 thousand states |
| `panel` | currency of pages, everybody answered | 2 pages, 1 action, 2 changes |
| `import` | the rows are the export's sums, statements fit, a save is atomic | quantities of -4 to 3, every export of up to 3 lines over 3 cards, a negative number and a malformed line, batches of 1 to 3 rows, at most 11 parameters (3 rows of three columns, 2 of four) |
| `delivery` | all properties of a reply, from the splitting to the last part | every kind of request; every result of up to 5 runes of widths 1 and 2, notices of 1 and 5 runes; limit 3; 350 thousand states |
| `split_terminates` | `Terminates`: refuted | every text of up to 8 runes of widths 1 and 2, limit 4 |

Why the bounds are enough. Refreshes of different logins touch disjoint rows, so
one login is the whole interaction; two tasks give every overlap of an older and a
newer read, and two lists every mixture of saved, failed and hidden. One event is
the least that lets a list change or a process die under them; histories with
more events, lists and bodies are what the theorems are for. Four logins over three workers let a
worker take a second job while others finish, and let jobs be left when cancelled.
Three cookies let a worker be rejected, a second one log in
and that cookie expire in turn. Two pages let one fill the cache that
the other is served from. In `import` two lines of three copies do not fit and a third line
of -3 brings the sum back into range, and in `search` two lines that find two copies each are too many; three cards in batches of one to three give full, short and
missing last batches, and the clamp works on one table and not on the other. Texts of twice
the limit reach a cut after a cut and the recursion; the limits of the code (4096 and 2000 bytes) only
make the chunks longer. An answer has two replies at most, and with two or three parts each any
of the stop rules has parts before and after it.

Every property of a passing run has a mutant in `PROJECT.json`: one definition of
the model with a plausible fault, under which the property is violated in that
very run.

## 4. Fairness

- *Goroutines that can run do run*: weak fairness of the steps of a task, a worker,
  a page, a search. The Go scheduler is preemptive.
- *Mutexes*: strong fairness of acquiring them (`Cookie`, `Refresh`, `Invalidate`,
  `ShowCached \/ Compute`). sync.Mutex hands the lock over to a waiter that has
  waited for a millisecond.
- *The ticker and the clock*: weak fairness of `ReadStale`, `RefreshStale` and
  `TimePasses`; main's ticker fires every 30 seconds.
- *Deckbox and the disk do not fail every time*: strong fairness of the ticker's
  successful fetches and saves, and of each list's fetch and save. Any number of
  failures in a row is allowed. Without it nothing can be promised. It is asked of
  every task for the lists, since any refresh that read the profile stamps the
  login and so hides a failed list from the ticker for a window.
- A request is served: weak fairness of `Serve`, the steps of its goroutine. A call that fails
  is a step like one that succeeds, so nothing is asked of the platforms. SplitMessage
  alone (`split_terminates`) has weak fairness of its steps.

No fairness is assumed of users, operators, owners, expiries, crashes or cancellation.
The liveness of Search and Delivery is of a running process: "gone" is one way to end. And
`EveryRequestEnds` leaves out text with wide runes, for which `split_terminates` shows that it does not.

## 5. The proofs

TLAPS checks these for all values of the constants, from the ASSUMEs in the modules
(a slot is one of three, `NoCards` is a body, markers are not values, there is at least one
worker, and the like). In each module the argument is an inductive invariant,
`IInv` with `InitInv` and `NextInv`, or its parts one after the other with an `Init` and a `Next` lemma
each, by cases on the actions. Every invariant, action property and refinement that a passing
run checks has its theorem; the lists in `PROJECT.json` say which.

*Sums, folds and sequences.* Several invariants are about a sum over a set (`SumFunction`), about the bytes of
a text (`Bytes`) or about the parts of a text put together (`FlattenSeq`), all of which the community modules define
as folds. The proofs need induction for them, and the library states its induction theorems with an
operator as parameter, which these provers cannot instantiate. So the proof modules state induction over a
*set* of the values for which a claim holds, from the well-foundedness of the strict subsets of a finite set
and of the pairs of naturals (`SubsetInduction` and its like). A fold over a set picks its elements by
CHOOSE; `AdderExists`, `FoldAdds` and `SumIs` show that the pick does not matter, and what the proofs use
is that a sum is that of its parts and that one more element adds its value. `FlattenSeq` and `Bytes` are characterised by what appending a part or
a rune does to them. These lemmas are in each of the three modules that need them (Search, ListImport, Delivery),
in the form needed there: Search sums over messages and terms, ListImport over lines, Delivery over runes.
Sums are of finite sets: Searches and Terms are assumed to be finite, which is what a running process and the tables
of a database are; nothing bounds them.

- **RefreshProofs.** `Typing` needs that a task past its profile has a login and fetches
  only lists of it (`TypeOK` with `TaskOK`). `HashesAgreeWithRows` and `IndexAgreesWithRows`:
  `HashDescribesRows` and `FtsMirrorsRows` are inductive together (`AlwaysConsistent`), since every transaction writes
  rows, index and hash of a list together or not at all, or leaves them because the hash is equal.
  `NothingStrandedWithoutRace` needs, for a login without a race, that at
  most one task has it and that this task's profile is what is stored from
  SaveDeckboxUser on; that is what a second refresh or a purge breaks.
  `FailuresKeepTheLastCopy` needs that what a task has in hand was on Deckbox once:
  an empty or hidden answer implies a list that was withdrawn.
- **SessionProofs.** `LoginsAreNeeded` and `ExpiriesHeal` rest on: the mutex is held exactly by the worker that
  logs in; a worker that has had a cookie has left one in memory; a rejected cookie stays
  rejected, as none is issued twice; and a cookie that replaced another during
  a call was issued, and if invalid dropped, during that call.
- **WorkerPoolProofs.** `ChannelsAreSafe`: results is closed only with all workers gone, and
  workers do not come back. `PoolKeepsPromise` is the refinement of Batch: no
  login is in two places (`OnePlace`), every one that was taken is with a worker, in the channel or
  collected (`NothingLost`), and a worker exits only when jobs are used up or the
  context is done (`Closing`); then each step maps to a step of Batch or to a stutter.
- **PanelProofs.** `InsightsAreCurrent`: what was changed before a page's query began is seen by
  it, an action is answered only after the cache was dropped behind its changes, and whoever
  fills the cache later began under the mutex and so after that.
- **FtsIndexProofs.** `IndexIsComplete`: a table with the current layout that is not being filled
  and was not torn holds the rows, on disk, whether or not the process runs (`CompleteOnDisk`).
- **ListImportProofs.** `EveryStatementFits`: a batch never has more rows than its size, and a size
  times its columns is within the limit for any batch size (`BatchesFit`). `SaveIsAtomic` is the
  refinement of StoredList: what a transaction has written so far is, in each table that is
  maintained, the parsed list less what is still to be streamed or in a batch (`WrittenSoFar`), so
  that at the commit both tables are the parsed list; every other step leaves `stored` as it is.
  `RowsOfTheExport`: after n lines every parsed quantity is congruent, modulo
  the width, to the sum of its card's lines among those n, and a card without any has no row (`ParsedSoFar`); the same
  holds of the stored rows and the export that is their hash (`StoredIsSum`). An int16 that is congruent to
  a sum that fits is that sum, whatever overflowed on the way.
- **SearchProofs.** `MissesAreTrue`: `window` is never empty and holds only contents
  the lists had (`WindowIsOpen`), each slot that was read is what a query finds in one of them
  (`ReadsAreOfWindow`), and what is reported as not found are the empty slots
  (`MergedFromReads`). `AnswersAreTrue` chooses for each line the content its slot was read from: the lines that
  found a card are those that ask for it and whose content has a row for it, so both sides sum the same
  copies, and a wrapped sum differs from the sum by a multiple of the width and is the sum if that fits (`WrapOf`).
  `Typing` puts what is found into int16 for any number of lines, and keeps that only a message whose
  lines were all read is counted (`MessageOK`), which `DemandIsConsistent` needs: RecordSearch adds one hit or miss per
  term that a message names, and as many to the day's counters.
- **DeliveryProofs.** `Route` ties the way of a reply to the event it answers. `Remaining` counts
  replies: those still to be split are the last ones of what was said, and `Pending` and `Visible`
  give each part, waiting or shown, the visibility of its reply; `OnlyTheRightPeopleSee`
  follows, since a placeholder is private for `deckbox` alone and `deckbox` says nothing
  public (`Privacy`). A form for `sell` with nothing but white space is the exception: its notice is private and its
  placeholder public, so its first message, and no later one, is shown to all, and the theorem says so. `PlaceholdersGo` needs besides that a deferred request has
  something outgoing or deletes (`Acknowledging`). `LongAnswersAreThreads`: a part that is not the first
  comes right after the one before it, whose message `replyTo` then is (`Thread`).
  `NoRuneIsLost`, `PartsHaveRunes`, `ShortLinesAreWhole` and `PartsAlmostFit` have one invariant, `SplitInv`: parts, chunk and
  rest are the text (`JoinsToMessage`), `newline` is the last newline of the chunk unless that is its
  first rune (`NewlineSeen`), the chunk without its last two runes is below the limit, and without
  its last one if it has a newline (`ChunkFits`), every part so far fits as `PartFits` says, and between the last part and what
  comes next there is a newline if lines are short (`LinesWhole`). Each of the four cuts, the advance and the recursive call keeps all of
  it, for any limit and widths of the runes. `Typing` is from the same facts: what is cut from a text is no longer than it.
  `AnswersAreInOrder` needs the order of replies among parts shown and waiting, none of them
  of a reply that is yet to be split (`Order`), and that for every reply that was split, the parts shown,
  those waiting and some rest are its text, where a rest means that a call failed (`Progress`);
  and that a Suggest with logins has said its summary when it is done (`Twice`).
  `NarrowTextsAreReadOnce` is the part of termination that holds: for one-byte runes SplitMessage
  does not recurse, and each step takes a rune of the text or returns.

Only model-checked: the liveness properties (`StaleIsRefreshed`, `StoredListsConverge`, `FetchReturns`,
`NoGoroutineLeft`, `SearchEnds`, `EveryRequestEnds`, `EverythingAnswered`), since their fairness is about ENABLED, which the prover
cannot expand; and the refuted properties (`PurgeLeavesNothing`, `EnabledIsComplete`, `Terminates`), whose
runs are the argument. The bounds that keep TLC's state space finite (`MaxEvents`, `MaxIssued`, `MaxSaves`, `MaxLines` and the like)
are constants of the models, so what is proved holds for every value of them.

## 6. Where the code and its documentation differ

Each of these has a run that shows it and an entry in `PROJECT.json`.

1. **Purge during a refresh** (`purge_during_refresh`). The refresh goes on and stores rows, snapshots,
   and if it had yet to store the profile the login itself. `CONTEXT.md` says a Purge
   removes the user completely and the login is then unknown. `StrandedOnlyByRace` says that it
   takes such a race; a restart sweeps only lists with card rows.
2. **A rebuild of the index cut short** (`fts_rebuild`). After CREATE the table looks
   current; if the process dies, or the repopulation fails, the next start searches an empty index
   until every list has changed once, since unchanged exports are skipped.
3. **SplitMessage may never return** (`split_terminates`). A text whose last rune begins
   before the limit and ends past it is handed to the recursive call unchanged. Nor does it keep
   to its limit: a part with wider runes may be too long by up to two runes (`TooLongByTwoRunes`).

Seen while modelling, without a run of their own:

- A list that could not be fetched leaves no trace. The comment at `handler.go:193` has it recorded for the
  panel, but SaveRefreshOutcome sets `last_error` to NULL whenever the profile was saved (`sqlite/admin.go:98`).
- Overlapping refreshes can store the copy of a list that the newer profile hides (the `raced` of `StrandedOnlyByRace`).
- A registration whose first refresh does not get to store the profile has no row the ticker
  could find, so nobody retries it (`StaleIsRefreshed` is about stored logins only).
- A build without FTS5 takes a current index of another build for usable, and its searches and saves of cards then fail.
- The count and the listing of Trade Matches are read from two snapshots.
- Two lines of a message that match one card show its copies twice (`FoundCards`). The sum is an int16 as
  each list's is (`handler.go:453`), and nothing limits the lines of a message: a card of three letters repeated
  over a thousand lines (4000 bytes), of which a list holds forty copies, wraps, and the answer shows, and ranks by, a number that is not a Quantity
  (`CONTEXT.md:17`: "how many copies of a card name a Card List holds"). `AnswerWasTrue` says exactly that much: the sum
  where it fits, and a multiple of 2^16 off where it does not.
- A part may exceed SplitMessage's limit by up to two runes, though `split.go:3` and `split_test.go:107` say
  that parts never do. `TooLongByTwoRunes` says by how much; the run `split_terminates` refutes the same code.
- The blank form for `sell` has a public placeholder, so its notice, Private in the command, is shown to all
  (`BlankSell`); a second message would not be. Discord requires the field, but white space fills it.
- `commandArgument` takes a message to open with a command if its first entity is one, wherever in
  the text that entity is, though its comment says "opens with".
- `go a.send(..., run(ctx))` in `telegram.go:117` evaluates `run(ctx)`, the bulk Refresh, before the goroutine
  starts. The order of the two answers is the same, and `RunSuggested` is right for both.

## 7. Not modelled

- *The SDKs*: polling, gateway, retries on rate limits. A call succeeds or fails. Nor is a call that
  fails although the message is shown: the code cannot tell.
- *Formats* (`format.go`) and *rendering* (`render.go`): pure functions of a message or a result; a text here.
  So a part that cuts an HTML tag is refused like any other, and `LinesKeptWhole` says when that cannot be.
- *The profile's HTML and the text of an export line*: what is found in them; a malformed line is one value.
  parseProfile takes any page of status 200 for a profile, possibly one without lists, and passes over ids it cannot
  read (`scrapper.go:112-141`); `FetchProfile` returns what the owner shows. A page that is no profile would act as an owner
  who hides every list: the refresh deletes them, and `FailureKeepsCopy` does not cover that case.
- *fnv collisions* and an export that hashes to 0: a hash is the export.
- *Ranking, ParseExactQuery, LIKE or FTS, tokenizing*: one relation in Search.
- *The panel's authentication, same-origin check, confirmation, manage page and
  templates, and translations*: they keep no state.
- *Environment and migrations*: run before anything else; their keys are guards in Storage.
- *Data races*: slots of Search and the outcomes of the pool are each written by one goroutine and
  read after a WaitGroup or a channel; the models have those edges.

## 8. Plan

The order was: Storage and Refresh first, as everything else reads what they write; then the
session and the pool they run on; then what users and the operator see; then what a save and a
reply are made of, `ListImport` under `Storage` and `Delivery` over `SplitMessage`. What is left:

1. **Search with Storage and FtsIndex**: contacts against purges and unlinks, queries against the index in use.
2. **Session**: a bound on the logins that fail one after the other for waiting workers.
3. **Refresh**: an abstract specification of a Card List (absent, copy of some past export) that
   Refresh without races implements; liveness with more tasks.
4. **Panel**: the manage page, whose listing and whose buttons are of different moments.
5. **Measures**: for the pool, the session and a search, an action property by which each step of a goroutine
   brings it nearer to its end, as `NarrowTextsAreReadOnce` does for SplitMessage; that is the
   half of their liveness that can be proved.
6. Proofs for 1 to 4.
