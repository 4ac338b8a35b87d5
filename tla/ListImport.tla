----------------------------- MODULE ListImport -----------------------------
(***************************************************************************)
(* A Card List from its export to its rows: parseCardListExport of         *)
(* internal/deckbox/scrapper.go line by line, in int16, and SaveCardList   *)
(* of internal/storage/sqlite statement by statement, with a batchWriter   *)
(* for each of the two tables.  Modules Storage and FtsIndex take a save   *)
(* for one step; this one shows that it is (StoredList), though any        *)
(* statement may fail and the process may die between two of them.         *)
(*                                                                         *)
(* A hash is the export itself: fnv collisions are left out, and so is a   *)
(* hash that happens to be 0.                                              *)
(***************************************************************************)
EXTENDS Int16, Sequences, FiniteSets, FiniteSetsExt

CONSTANTS
    Cards,
    Malformed,    \* a line without a number or a name
    Exports,      \* what Deckbox may answer: sequences of lines
    NoRow,        \* no row for a card
    NoHash,       \* BodyHash 0, and no row in card_list_hashes
    BatchSizes,   \* CardBatchSize, from the environment
    MaxParams     \* maxBoundParams

Lines == [card : Cards, number : Int] \union {Malformed}

ASSUME ExportsAssumption == Exports \subseteq Seq(Lines) /\ NoHash \notin Exports
ASSUME MalformedAssumption == Malformed \notin [card : Cards, number : Int]
ASSUME NoRowAssumption == NoRow \notin Quantities
ASSUME BatchAssumption == BatchSizes \subseteq Nat \ {0} /\ MaxParams \in Nat /\ MaxParams >= 4
ASSUME CardsAssumption == IsFiniteSet(Cards)

VARIABLES
    batchSize,   \* of this process
    ftsEnabled,  \* of this process
    stored,      \* the list as committed: rows, index, hash
    step,
    export,      \* the export being parsed and saved, NoHash for a private list
    rest,        \* its lines still to be parsed
    cards,       \* CardList.Cards
    working,     \* the list as the transaction sees it
    todo,        \* cards still to be streamed to the writers
    pending      \* per table, the cards of its batch

config == <<batchSize, ftsEnabled>>
vars == <<config, stored, step, export, rest, cards, working, todo, pending>>

Contents == [Cards -> Quantities \union {NoRow}]
Hashes == Exports \union {NoHash}
List == [rows : Contents, index : Contents, hash : Hashes]
Empty == [c \in Cards |-> NoRow]

Tables == {"rows", "index"}
Columns == [rows |-> 3, index |-> 4]
NoBatch == [t \in Tables |-> {}]

TypeOK ==
    /\ batchSize \in BatchSizes /\ ftsEnabled \in BOOLEAN
    /\ stored \in List /\ working \in List
    /\ step \in {"idle", "parse", "stream", "commit"}
    /\ export \in Hashes
    /\ rest \in Seq(Lines)
    /\ cards \in Contents
    /\ todo \in SUBSET Cards
    /\ pending \in [Tables -> SUBSET Cards]

Init ==
    /\ batchSize \in BatchSizes /\ ftsEnabled \in BOOLEAN
    /\ stored = [rows |-> Empty, index |-> Empty, hash |-> NoHash]
    /\ step = "idle" /\ export = NoHash /\ rest = <<>> /\ cards = Empty
    /\ working = stored /\ todo = {} /\ pending = NoBatch

(* SaveCardList returns, and with it go the list and the transaction. *)
Return ==
    /\ step' = "idle" /\ export' = NoHash /\ rest' = <<>> /\ cards' = Empty
    /\ working' = stored' /\ todo' = {} /\ pending' = NoBatch
    /\ UNCHANGED config

-----------------------------------------------------------------------------
(* parseCardListExport *)

Fetch(e) ==
    /\ step = "idle"
    /\ step' = "parse"
    /\ export' = e /\ rest' = e /\ cards' = Empty
    /\ UNCHANGED <<config, stored, working, todo, pending>>

(* ErrNotFound: CardList{ListId: *l.id} is saved, without rows or hash. *)
FetchPrivate ==
    /\ step = "idle"
    /\ step' = "parse"
    /\ export' = NoHash /\ rest' = <<>> /\ cards' = Empty
    /\ UNCHANGED <<config, stored, working, todo, pending>>

(* Mutant: a repeated name is taken for a duplicate. *)
LastLine(line) ==
    [cards EXCEPT ![line.card] = Wrap(line.number)]

(* cards[name] += int16(quantity), where an absent name counts as 0. *)
Plus(line) ==
    [cards EXCEPT ![line.card] =
        Wrap((IF @ = NoRow THEN 0 ELSE @) + Wrap(line.number))]

ParseLine ==
    /\ step = "parse" /\ rest # <<>>
    /\ rest' = Tail(rest)
    /\ cards' = IF Head(rest) = Malformed THEN cards ELSE Plus(Head(rest))
    /\ UNCHANGED <<config, stored, step, export, working, todo, pending>>

Parsed == step = "parse" /\ rest = <<>>

-----------------------------------------------------------------------------
(* SaveCardList *)

Unchanged ==
    /\ Parsed
    /\ export # NoHash /\ stored.hash = export
    /\ UNCHANGED stored
    /\ Return

(* Mutant: the old rows are deleted ahead of the transaction. *)
ClearCommitted ==
    /\ Parsed
    /\ export = NoHash \/ stored.hash # export
    /\ step' = "stream"
    /\ stored' = [stored EXCEPT !.rows = Empty,
                                 !.index = IF ftsEnabled THEN Empty ELSE @]
    /\ working' = [rows  |-> Empty,
                   index |-> IF ftsEnabled THEN Empty ELSE stored.index,
                   hash  |-> export]
    /\ todo' = {c \in Cards : cards[c] # NoRow}
    /\ pending' = NoBatch
    /\ UNCHANGED <<config, export, rest, cards>>

(* BEGIN, the old rows deleted, the hash stored or, unknown, deleted. *)
Clear ==
    /\ Parsed
    /\ export = NoHash \/ stored.hash # export
    /\ step' = "stream"
    /\ working' = [rows  |-> Empty,
                   index |-> IF ftsEnabled THEN Empty ELSE stored.index,
                   hash  |-> export]
    /\ todo' = {c \in Cards : cards[c] # NoRow}
    /\ pending' = NoBatch
    /\ UNCHANGED <<config, stored, export, rest, cards>>

(* Mutant: no clamp. *)
Unclamped(t) == batchSize

(* newBatchWriter. *)
Size(t) ==
    LET maxRows == MaxParams \div Columns[t]
    IN  IF batchSize > maxRows THEN maxRows ELSE batchSize

Full(t) == Cardinality(pending[t]) = Size(t)

Written == IF ftsEnabled THEN Tables ELSE {"rows"}

(* add: the batch of each table takes the row.  Maps have no order. *)
Stream(c) ==
    /\ step = "stream" /\ c \in todo
    /\ \A t \in Written : ~Full(t)
    /\ todo' = todo \ {c}
    /\ pending' = [t \in Tables |-> IF t \in Written THEN pending[t] \union {c} ELSE {}]
    /\ UNCHANGED <<config, stored, step, export, rest, cards, working>>

(* A batch is flushed when it is full, and at the end of the stream. *)
Due(t) == Full(t) \/ (todo = {} /\ pending[t] # {})

(* INSERT of all rows of the batch; SQLite binds no more than MaxParams. *)
Flush(t) ==
    /\ step = "stream" /\ Due(t)
    /\ Cardinality(pending[t]) * Columns[t] <= MaxParams
    /\ working' = [working EXCEPT ![t] =
                    [c \in Cards |-> IF c \in pending[t] THEN cards[c] ELSE @[c]]]
    /\ pending' = [pending EXCEPT ![t] = {}]
    /\ UNCHANGED <<config, stored, step, export, rest, cards, todo>>

(* An empty list gets here with what was cleared. *)
Flushed ==
    /\ step = "stream" /\ todo = {}
    /\ \A t \in Written : ~Due(t)
    /\ step' = "commit"
    /\ UNCHANGED <<config, stored, export, rest, cards, working, todo, pending>>

Commit ==
    /\ step = "commit"
    /\ stored' = working
    /\ Return

(* Any statement fails, or the process dies: defer tx.Rollback, or SQLite  *)
(* itself when it opens the database again.                                *)
Rollback ==
    /\ step \in {"stream", "commit"} \/ Parsed
    /\ UNCHANGED stored
    /\ Return

-----------------------------------------------------------------------------
Next ==
    \/ \E e \in Exports : Fetch(e)
    \/ FetchPrivate \/ ParseLine
    \/ Unchanged \/ Clear \/ Flushed \/ Commit \/ Rollback
    \/ \E c \in Cards : Stream(c)
    \/ \E t \in Tables : Flush(t)

Spec == Init /\ [][Next]_vars

-----------------------------------------------------------------------------
(* A reader sees the list as it was or as it is saved: whatever statement  *)
(* of SaveCardList fails, rows, index and hash change together.            *)
AtomicList == INSTANCE StoredList WITH
    NoRows <- Empty,
    rows <- stored.rows, index <- stored.index, hash <- stored.hash,
    indexed <- ftsEnabled

ReplaceIsAtomic == AtomicList!Spec

(* The rows under a hash are all cards of that export, each with the sum   *)
(* of its lines "across every printing" (CONTEXT.md), as far as an int16   *)
(* holds it: a sum that fits is exact even if a number or a sum on the way *)
(* to it did not fit.  No line, batch or retry adds, drops or repeats a    *)
(* card, and without a hash there are none.                                *)
LinesOf(e, c) == {i \in DOMAIN e : e[i] # Malformed /\ e[i].card = c}
Total(e, c) == SumFunction([i \in LinesOf(e, c) |-> e[i].number])

RowsAreTheExport ==
    \A c \in Cards :
        IF stored.hash = NoHash THEN stored.rows[c] = NoRow
        ELSE LET total == Total(stored.hash, c) IN
             /\ stored.rows[c] = NoRow <=> LinesOf(stored.hash, c) = {}
             /\ stored.rows[c] # NoRow =>
                    /\ (total - stored.rows[c]) % (2 * Half) = 0
                    /\ total \in Quantities => stored.rows[c] = total

(* No statement is refused for binding too many parameters, whatever batch *)
(* size is configured, for three columns or for four.                      *)
StatementsFit == \A t \in Tables : Cardinality(pending[t]) * Columns[t] <= MaxParams
=============================================================================
