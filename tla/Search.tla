------------------------------- MODULE Search -------------------------------
(***************************************************************************)
(* Deckbox.Search (internal/deckbox/handler.go) over the rows Refresh keeps *)
(* replacing, and the Demand it counts on the side (deckbox/admin.go,      *)
(* storage/sqlite/admin.go).  Each line is a query of its own, in its own  *)
(* goroutine, and each query reads one snapshot of the database: not the   *)
(* same one as the other lines', since saves commit in between.            *)
(*                                                                         *)
(* Prefix, exact and LIKE matching are the relation Matches.  The eight    *)
(* queries that may run at a time are not told apart: a query is one step. *)
(* The copies of a card are added up over the lines in int16: a message    *)
(* has as many lines as its sender likes, so a sum may wrap.               *)
(***************************************************************************)
EXTENDS Int16, Sequences, FiniteSetsExt

CONSTANTS
    Searches,     \* messages that are searched for
    Terms,        \* what a line asks for, quotes and all
    NoForm,       \* the Terms canonicalCardName empties: punctuation only
    Cards,
    Lists,        \* the Card Lists of one Scope
    Matches,      \* <<term, card>>: SearchCard finds the card for the term
    NoRow,        \* no row for a card
    Saved,        \* what a list is saved as: per card its copies, or NoRow
    MaxLines,     \* bound on the lines of a message
    MaxSaves      \* bound on saves

ASSUME NoFormAssumption == NoForm \subseteq Terms
ASSUME MatchesAssumption == Matches \subseteq Terms \X Cards
ASSUME FiniteAssumption == IsFiniteSet(Searches) /\ IsFiniteSet(Terms)
ASSUME NoRowAssumption == NoRow \notin Quantities
ASSUME SavedAssumption == Saved \subseteq [Cards -> Quantities \union {NoRow}]
ASSUME BoundsAssumption == MaxLines \in Nat /\ MaxSaves \in Nat

VARIABLES
    rows,      \* card_lists: the copies each list holds of each card
    search,    \* Search, per message
    counting,  \* the goroutine of recordDemand, per message
    stats,     \* search_stats: hits and misses per term
    daily,     \* daily_stats of the day
    saves,
    window     \* history: every content of card_lists since the search began

vars == <<rows, search, counting, stats, daily, saves, window>>

Holdings == [Lists -> [Cards -> Quantities \union {NoRow}]]
Nothing == [l \in Lists |-> [c \in Cards |-> NoRow]]

(* matches[i] and searchErrs[i]. *)
NotRun == [state |-> "running", held |-> Nothing]
Slot == [state : {"running", "read", "error"}, held : Holdings]

(* FoundCards and NotFound are there once the slots are merged. *)
NoSearch == [step |-> "idle", lines |-> <<>>, slot |-> <<>>,
             found |-> Nothing, notFound |-> {}]

TypeOK ==
    /\ rows \in Holdings
    /\ \A s \in Searches :
        LET n == Len(search[s].lines) IN
        /\ search[s].step \in {"idle", "query", "contacts", "shown", "failed", "gone"}
        /\ n <= MaxLines /\ \A i \in 1 .. n : search[s].lines[i] \in Terms
        /\ DOMAIN search[s].slot = 1 .. n
        /\ \A i \in 1 .. n : search[s].slot[i] \in Slot
        /\ search[s].found \in Holdings
        /\ search[s].notFound \subseteq 1 .. n
        /\ window[s] \subseteq Holdings
        /\ counting[s] \in {"none", "waiting", "done", "lost"}
        /\ search[s].step \in {"contacts", "shown"} => counting[s] # "none"
    /\ stats \in [Terms -> [hits : Nat, misses : Nat]]
    /\ daily \in [searches : Nat, misses : Nat]
    /\ saves \in 0 .. MaxSaves

Init ==
    /\ rows \in [Lists -> Saved]
    /\ search = [s \in Searches |-> NoSearch]
    /\ counting = [s \in Searches |-> "none"]
    /\ stats = [t \in Terms |-> [hits |-> 0, misses |-> 0]]
    /\ daily = [searches |-> 0, misses |-> 0]
    /\ saves = 0
    /\ window = [s \in Searches |-> {}]

Lines(s) == 1 .. Len(search[s].lines)
Set(s, field, value) == [search EXCEPT ![s][field] = value]

-----------------------------------------------------------------------------
(* The store under the searches *)

(* SaveCardList replaces a list, or a Refresh or Purge deletes it, in one  *)
(* transaction.                                                            *)
Save(l, cards) ==
    /\ saves < MaxSaves
    /\ rows[l] # cards
    /\ saves' = saves + 1
    /\ rows' = [rows EXCEPT ![l] = cards]
    /\ window' = [s \in Searches |->
                    IF search[s].step = "query" THEN window[s] \union {rows'} ELSE window[s]]
    /\ UNCHANGED <<search, counting, stats, daily>>

-----------------------------------------------------------------------------
(* Search *)

Ask(s, lines) ==
    /\ search[s].step = "idle"
    /\ search' = [search EXCEPT ![s] =
                    [NoSearch EXCEPT !.step = "query", !.lines = lines,
                                     !.slot = [i \in DOMAIN lines |-> NotRun]]]
    /\ window' = [window EXCEPT ![s] = {rows}]
    /\ UNCHANGED <<rows, counting, stats, daily, saves>>

HeldIn(lists, term) ==
    [l \in Lists |-> [c \in Cards |-> IF <<term, c>> \in Matches THEN lists[l][c] ELSE NoRow]]

(* SearchCard. *)
Query(s, i) ==
    /\ search[s].step = "query" /\ search[s].slot[i] = NotRun
    /\ search' = [search EXCEPT ![s].slot[i] =
                    [state |-> "read", held |-> HeldIn(rows, search[s].lines[i])]]
    /\ UNCHANGED <<rows, counting, stats, daily, saves, window>>

(* Mutant: the goroutine returns without wg.Done. *)
QueryFailsSilently(s, i) ==
    /\ search[s].step = "query" /\ search[s].slot[i] = NotRun
    /\ search' = [search EXCEPT ![s].slot[i].state = "hangs"]
    /\ UNCHANGED <<rows, counting, stats, daily, saves, window>>

QueryFails(s, i) ==
    /\ search[s].step = "query" /\ search[s].slot[i] = NotRun
    /\ search' = [search EXCEPT ![s].slot[i].state = "error"]
    /\ UNCHANGED <<rows, counting, stats, daily, saves, window>>

(* wg.Wait. *)
Waited(s) ==
    /\ search[s].step = "query"
    /\ \A i \in Lines(s) : search[s].slot[i].state \in {"read", "error"}

(* Mutant: a line that failed is left out of the answer. *)
FailedInAll(s) == \A i \in Lines(s) : search[s].slot[i].state = "error"

Failed(s) == \E i \in Lines(s) : search[s].slot[i].state = "error"

(* One line failed: Search returns the error and counts no Demand. *)
GiveUp(s) ==
    /\ Waited(s) /\ Failed(s)
    /\ search' = Set(s, "step", "failed")
    /\ UNCHANGED <<rows, counting, stats, daily, saves, window>>

(* No row was read: one without copies is a match all the same. *)
Missed(s) == {i \in Lines(s) : search[s].slot[i].held = Nothing}

(* The lines that found the card in the list. *)
Finders(s, l, c) == {i \in Lines(s) : search[s].slot[i].held[l][c] # NoRow}

(* Mutant: agg.FoundCards[cardName] = qty. *)
FoundByLast(s) ==
    [l \in Lists |-> [c \in Cards |->
        IF Finders(s, l, c) = {} THEN NoRow
          ELSE search[s].slot[Max(Finders(s, l, c))].held[l][c]]]

(* agg.FoundCards[cardName] += qty, line after line, each time in int16:   *)
(* which leaves of the sum what one wrap of all of it leaves.              *)
FoundCards(s) ==
    [l \in Lists |-> [c \in Cards |->
        IF Finders(s, l, c) = {} THEN NoRow
          ELSE Wrap(SumFunction([i \in Finders(s, l, c) |-> search[s].slot[i].held[l][c]]))]]

(* Demand is handed to a goroutine, the slots are merged, and with a match *)
(* there are contacts to attach.                                           *)
Merge(s) ==
    /\ Waited(s) /\ ~Failed(s)
    /\ counting' = [counting EXCEPT ![s] = "waiting"]
    /\ search' = [search EXCEPT
                    ![s].found = FoundCards(s),
                    ![s].notFound = Missed(s),
                    ![s].step = IF FoundCards(s) = Nothing THEN "shown" ELSE "contacts"]
    /\ UNCHANGED <<rows, stats, daily, saves, window>>

(* ContactsFor may fail: the answer goes out all the same. *)
AttachContacts(s) ==
    /\ search[s].step = "contacts"
    /\ search' = Set(s, "step", "shown")
    /\ UNCHANGED <<rows, counting, stats, daily, saves, window>>

-----------------------------------------------------------------------------
(* Demand *)

Counted(s) == {i \in Lines(s) : search[s].lines[i] \notin NoForm}
CountedAs(s, t) == {i \in Counted(s) : search[s].lines[i] = t}

StatsAfter(s) ==
    [t \in Terms |->
        [hits   |-> stats[t].hits + Cardinality(CountedAs(s, t) \ search[s].notFound),
         misses |-> stats[t].misses + Cardinality(CountedAs(s, t) \intersect search[s].notFound)]]

(* RecordSearch: both tables in one transaction. *)
RecordSearch(s) ==
    /\ counting[s] = "waiting"
    /\ stats' = StatsAfter(s)
    /\ daily' = [searches |-> daily.searches + Cardinality(Counted(s)),
                 misses   |-> daily.misses + Cardinality(Counted(s) \intersect search[s].notFound)]
    /\ counting' = [counting EXCEPT ![s] = "done"]
    /\ UNCHANGED <<rows, search, saves, window>>

(* Mutant: no transaction around the two tables. *)
RecordSearchFailsBetween(s) ==
    /\ counting[s] = "waiting"
    /\ stats' = StatsAfter(s)
    /\ counting' = [counting EXCEPT ![s] = "lost"]
    /\ UNCHANGED <<rows, search, daily, saves, window>>

(* It fails or runs into demandTimeout, and is rolled back. *)
RecordSearchFails(s) ==
    /\ counting[s] = "waiting"
    /\ counting' = [counting EXCEPT ![s] = "lost"]
    /\ UNCHANGED <<rows, search, stats, daily, saves, window>>

(* The process dies: messages go unanswered and uncounted. *)
Crash ==
    /\ search' = [s \in Searches |->
                    IF search[s].step \in {"query", "contacts"}
                        THEN [search[s] EXCEPT !.step = "gone"] ELSE search[s]]
    /\ counting' = [s \in Searches |->
                    IF counting[s] = "waiting" THEN "lost" ELSE counting[s]]
    /\ UNCHANGED <<rows, stats, daily, saves, window>>

-----------------------------------------------------------------------------
Run(s) ==
    \/ \E i \in Lines(s) : Query(s, i) \/ QueryFails(s, i)
    \/ GiveUp(s) \/ Merge(s) \/ AttachContacts(s)

Messages == UNION {[1 .. n -> Terms] : n \in 1 .. MaxLines}

Next ==
    \/ \E l \in Lists, cards \in Saved : Save(l, cards)
    \/ \E s \in Searches, lines \in Messages : Ask(s, lines)
    \/ \E s \in Searches : Run(s) \/ RecordSearch(s) \/ RecordSearchFails(s)
    \/ Crash

Spec == Init /\ [][Next]_vars

(* Goroutines of a running process are scheduled. *)
FairSpec == Spec /\ \A s \in Searches : WF_vars(Run(s))

-----------------------------------------------------------------------------
(* Each line of an answer was true at some moment of the search, while the *)
(* lists changed under it.  Over the lines that ask for a card, and whose  *)
(* moment had a row for it, the copies shown are the sum of what its list  *)
(* then had: exactly where the sum is an int16, and to a multiple of 2^16  *)
(* where it is not; without such a line the card is not shown.  Overlapping *)
(* and repeated lines count a card once each, no line is left out or read  *)
(* from two states, and those reported as not found are those with nothing *)
(* in their state.                                                         *)
Asks(s, c) == {i \in Lines(s) : <<search[s].lines[i], c>> \in Matches}
Holds(past, term) ==
    \E l \in Lists, c \in Cards : <<term, c>> \in Matches /\ past[l][c] # NoRow
Answered(s) == search[s].step \in {"contacts", "shown"}

(* What is shown of a card, of which a list has held[i] for line i. *)
Shows(found, held) ==
    IF DOMAIN held = {} THEN found = NoRow
      ELSE LET total == SumFunction(held) IN
           /\ total \in Quantities => found = total
           /\ found \in Quantities /\ (total - found) % (2 * Half) = 0

AnswerWasTrue ==
    \A s \in Searches : Answered(s) =>
        \E past \in [Lines(s) -> window[s]] :
            /\ \A l \in Lists, c \in Cards :
                LET had == {i \in Asks(s, c) : past[i][l][c] # NoRow}
                IN  Shows(search[s].found[l][c], [i \in had |-> past[i][l][c]])
            /\ search[s].notFound = {i \in Lines(s) : ~Holds(past[i], search[s].lines[i])}

(* "Not found" is never said of a line that had a match all the time, and  *)
(* is said of one that never had any: what RecordSearch counts as a miss.  *)
MissesWereTrue ==
    \A s \in Searches : Answered(s) =>
        \A i \in Lines(s) :
            IF i \in search[s].notFound
              THEN \E past \in window[s] : ~Holds(past, search[s].lines[i])
              ELSE \E past \in window[s] : Holds(past, search[s].lines[i])

(* The daily rollup and the counters per term add up to the same Demand,   *)
(* of searches that were answered in full and counted once, through        *)
(* failures, timeouts and crashes.                                         *)
DemandAddsUp ==
    LET counted == {s \in Searches : counting[s] = "done"} IN
    /\ daily.searches = SumFunction([t \in Terms |-> stats[t].hits + stats[t].misses])
    /\ daily.misses = SumFunction([t \in Terms |-> stats[t].misses])
    /\ daily.searches = SumFunction([s \in counted |-> Cardinality(Counted(s))])
    /\ \A s \in counted : ~Failed(s)

(* A search ends, with its answer or with the failure of a line, unless    *)
(* the process dies.                                                       *)
SearchEnds ==
    \A s \in Searches :
        search[s].step = "query" ~> search[s].step \in {"shown", "failed", "gone"}
=============================================================================
