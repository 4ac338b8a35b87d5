--------------------------- MODULE ListImportProofs ---------------------------
(* ListImport for any cards, exports, batch sizes and width of a quantity:  *)
(* its types, the size of its statements, that a save is one step of        *)
(* StoredList, and that the rows add the lines of their export up.          *)
EXTENDS ListImport, FiniteSetTheorems, TLAPS

(* int16(n) is an int16. *)
LEMMA WrapType ==
    ASSUME NEW n \in Int
    PROVE  Wrap(n) \in Quantities
<1>1. (n + Half) % (2 * Half) \in 0 .. 2 * Half - 1
  BY HalfAssumption
<1> QED
  BY <1>1, HalfAssumption DEF Wrap, Quantities

LEMMA SizeFits ==
    ASSUME TypeOK, NEW t \in Tables
    PROVE  Size(t) \in Nat \ {0} /\ Size(t) * Columns[t] <= MaxParams
<1>1. batchSize \in Nat \ {0}
  BY BatchAssumption DEF TypeOK
<1>2. CASE t = "rows"
  <2>1. Columns[t] = 3
    BY <1>2 DEF Columns
  <2> QED
    BY <1>1, <2>1, BatchAssumption DEF Size
<1>3. CASE t = "index"
  <2>1. Columns[t] = 4
    BY <1>3 DEF Columns
  <2> QED
    BY <1>1, <2>1, BatchAssumption DEF Size
<1> QED
  BY <1>2, <1>3 DEF Tables

LEMMA EmptyType == Empty \in Contents
BY DEF Empty, Contents

LEMMA InitTypeOK == Init => TypeOK
BY EmptyType DEF Init, TypeOK, List, Hashes, NoBatch, Lines

LEMMA ReturnType ==
    ASSUME TypeOK, Return, stored' \in List
    PROVE  TypeOK'
BY EmptyType DEF TypeOK, Return, Hashes, NoBatch, config

LEMMA NextTypeOK == TypeOK /\ [Next]_vars => TypeOK'
<1> SUFFICES ASSUME TypeOK, [Next]_vars PROVE TypeOK'
  OBVIOUS
<1>1. ASSUME NEW e \in Exports, Fetch(e) PROVE TypeOK'
  BY <1>1, EmptyType, ExportsAssumption DEF Fetch, TypeOK, Hashes, config
<1>2. ASSUME FetchPrivate PROVE TypeOK'
  BY <1>2, EmptyType DEF FetchPrivate, TypeOK, Hashes, config
<1>3. ASSUME ParseLine PROVE TypeOK'
  <2>1. rest \in Seq(Lines) /\ rest # <<>> /\ Head(rest) \in Lines /\ Tail(rest) \in Seq(Lines)
    BY <1>3 DEF ParseLine, TypeOK
  <2>2. ASSUME NEW line \in Lines, line # Malformed PROVE Plus(line) \in Contents
    <3>1. line.card \in Cards /\ line.number \in Int
      BY <2>2 DEF Lines
    <3>2. Wrap(line.number) \in Quantities
      BY <3>1, WrapType
    <3>3. (IF cards[line.card] = NoRow THEN 0 ELSE cards[line.card]) \in Int
      BY <3>1 DEF TypeOK, Contents, Quantities
    <3>4. (IF cards[line.card] = NoRow THEN 0 ELSE cards[line.card]) + Wrap(line.number) \in Int
      BY <3>2, <3>3 DEF Quantities
    <3>5. Wrap((IF cards[line.card] = NoRow THEN 0 ELSE cards[line.card]) + Wrap(line.number))
            \in Quantities
      BY <3>4, WrapType
    <3> QED
      BY <3>1, <3>5 DEF Plus, TypeOK, Contents
  <2>3. cards' \in Contents
    BY <1>3, <2>1, <2>2 DEF ParseLine, TypeOK
  <2> QED
    BY <1>3, <2>1, <2>3 DEF ParseLine, TypeOK, config
<1>4. ASSUME Unchanged PROVE TypeOK'
  BY <1>4, ReturnType DEF Unchanged, TypeOK
<1>5. ASSUME Clear PROVE TypeOK'
  <2>1. working' \in List
    BY <1>5, EmptyType DEF Clear, TypeOK, List
  <2> QED
    BY <1>5, <2>1 DEF Clear, Parsed, TypeOK, NoBatch, config
<1>6. ASSUME NEW c \in Cards, Stream(c) PROVE TypeOK'
  BY <1>6 DEF Stream, TypeOK, config
<1>7. ASSUME NEW t \in Tables, Flush(t) PROVE TypeOK'
  <2> DEFINE content == [c \in Cards |-> IF c \in pending[t] THEN cards[c] ELSE working[t][c]]
  <2>1. content \in Contents
    BY DEF TypeOK, Contents, List, Tables
  <2>2. working' = [working EXCEPT ![t] = content]
    BY <1>7 DEF Flush
  <2> HIDE DEF content
  <2>3. working' \in List
    BY <2>1, <2>2 DEF TypeOK, List, Tables
  <2> QED
    BY <1>7, <2>3 DEF Flush, TypeOK, config
<1>8. ASSUME Flushed PROVE TypeOK'
  BY <1>8 DEF Flushed, TypeOK, config
<1>9. ASSUME Commit PROVE TypeOK'
  BY <1>9, ReturnType DEF Commit, TypeOK
<1>10. ASSUME Rollback PROVE TypeOK'
  BY <1>10, ReturnType DEF Rollback, TypeOK
<1>11. ASSUME vars' = vars PROVE TypeOK'
  BY <1>11 DEF vars, TypeOK, config
<1> QED
  BY <1>1, <1>2, <1>3, <1>4, <1>5, <1>6, <1>7, <1>8, <1>9, <1>10, <1>11 DEF Next

(* The transaction, the batches and the parsed cards keep their types: every *)
(* quantity is an int16, however large the numbers of an export.            *)
THEOREM Typing == Spec => []TypeOK
BY InitTypeOK, NextTypeOK, PTL DEF Spec
-----------------------------------------------------------------------------
(* No batch is larger than its statement may be. *)
BatchesFit ==
    \A t \in Tables : IsFiniteSet(pending[t]) /\ Cardinality(pending[t]) <= Size(t)

LEMMA NoBatchFits ==
    ASSUME TypeOK, pending' = NoBatch, UNCHANGED config
    PROVE  BatchesFit'
<1>1. ASSUME NEW t \in Tables PROVE (Size(t))' = Size(t) /\ Size(t) \in Nat
  BY SizeFits DEF Size, config
<1> QED
  BY <1>1, FS_EmptySet DEF NoBatch, BatchesFit

LEMMA SameBatchesFit ==
    ASSUME BatchesFit, UNCHANGED <<pending, config>>
    PROVE  BatchesFit'
BY DEF BatchesFit, Size, config

LEMMA InitBatchesFit == Init => BatchesFit
<1> SUFFICES ASSUME Init, NEW t \in Tables PROVE IsFiniteSet(pending[t]) /\ Cardinality(pending[t]) <= Size(t)
  BY DEF BatchesFit
<1>1. Size(t) \in Nat
  BY InitTypeOK, SizeFits
<1> QED
  BY <1>1, FS_EmptySet DEF Init, NoBatch

LEMMA NextBatchesFit == TypeOK /\ BatchesFit /\ [Next]_vars => BatchesFit'
<1> SUFFICES ASSUME TypeOK, BatchesFit, [Next]_vars PROVE BatchesFit'
  OBVIOUS
<1>1. ASSUME NEW c \in Cards, Stream(c) PROVE BatchesFit'
  <2> SUFFICES ASSUME NEW t \in Tables
               PROVE  IsFiniteSet(pending'[t]) /\ Cardinality(pending'[t]) <= (Size(t))'
    BY DEF BatchesFit
  <2>1. (Size(t))' = Size(t) /\ Size(t) \in Nat
    BY <1>1, SizeFits DEF Stream, Size, config
  <2>2. CASE t \in Written
    <3>1. pending'[t] = pending[t] \union {c}
      BY <1>1, <2>2 DEF Stream
    <3>2. IsFiniteSet(pending[t]) /\ Cardinality(pending[t]) <= Size(t) /\ Cardinality(pending[t]) # Size(t)
      BY <1>1, <2>2 DEF BatchesFit, Stream, Full
    <3>3. Cardinality(pending[t]) \in Nat
      BY <3>2, FS_CardinalityType
    <3>4. IsFiniteSet(pending'[t]) /\ Cardinality(pending'[t]) <= Cardinality(pending[t]) + 1
      BY <3>1, <3>2, <3>3, FS_AddElement
    <3>5. Cardinality(pending'[t]) \in Nat
      BY <3>4, FS_CardinalityType
    <3> QED
      BY <2>1, <3>2, <3>3, <3>4, <3>5
  <2>3. CASE t \notin Written
    BY <1>1, <2>1, <2>3, FS_EmptySet DEF Stream
  <2> QED
    BY <2>2, <2>3
<1>2. ASSUME NEW t \in Tables, Flush(t) PROVE BatchesFit'
  <2>1. \A u \in Tables : (Size(u))' = Size(u) /\ Size(u) \in Nat
    BY <1>2, SizeFits DEF Flush, Size, config
  <2> QED
    BY <1>2, <2>1, FS_EmptySet DEF Flush, BatchesFit, TypeOK
<1>3. ASSUME Clear PROVE BatchesFit'
  BY <1>3, NoBatchFits DEF Clear
<1>4. ASSUME Return PROVE BatchesFit'
  BY <1>4, NoBatchFits DEF Return
<1>5. ASSUME \/ \E e \in Exports : Fetch(e)
             \/ FetchPrivate \/ ParseLine \/ Flushed
             \/ vars' = vars
      PROVE  BatchesFit'
  BY <1>5, SameBatchesFit DEF Fetch, FetchPrivate, ParseLine, Flushed, vars
<1> QED
  BY <1>1, <1>2, <1>3, <1>4, <1>5 DEF Next, Unchanged, Commit, Rollback

(* A flush never binds more parameters than SQLite takes, for any batch     *)
(* size that is configured.                                                 *)
THEOREM EveryStatementFits == Spec => []StatementsFit
<1>1. TypeOK /\ BatchesFit => StatementsFit
  <2> SUFFICES ASSUME TypeOK, BatchesFit, NEW t \in Tables
               PROVE  Cardinality(pending[t]) * Columns[t] <= MaxParams
    BY DEF StatementsFit
  <2>1. Cardinality(pending[t]) \in Nat /\ Cardinality(pending[t]) <= Size(t)
    BY FS_CardinalityType DEF BatchesFit
  <2>2. Size(t) \in Nat /\ Size(t) * Columns[t] <= MaxParams
    BY SizeFits
  <2>3. Columns[t] \in {3, 4}
    BY DEF Columns, Tables
  <2> QED
    BY <2>1, <2>2, <2>3, BatchAssumption
<1> QED
  BY <1>1, InitTypeOK, NextTypeOK, InitBatchesFit, NextBatchesFit, PTL DEF Spec

-----------------------------------------------------------------------------
(* A card is in the list being parsed or written only if it is not still to *)
(* come, and then as it was parsed.                                        *)
HasWritten(content, left) ==
    \A c \in Cards : content[c] = IF c \in left THEN NoRow ELSE cards[c]

(* What the transaction has made of the list so far. *)
WrittenSoFar ==
    /\ working.hash = export
    /\ export # NoHash => stored.hash # export
    /\ \A t \in Tables : pending[t] \intersect todo = {} /\ (t \notin Written => pending[t] = {})
    /\ HasWritten(working.rows, todo \union pending["rows"])
    /\ IF ftsEnabled
         THEN HasWritten(working.index, todo \union pending["index"])
         ELSE working.index = stored.index

Progress ==
    /\ step = "parse" /\ export = NoHash => rest = <<>>
    /\ step # "idle" /\ export = NoHash => cards = Empty
    /\ step \in {"stream", "commit"} => WrittenSoFar
    /\ step = "commit" => todo = {} /\ \A t \in Written : pending[t] = {}

LEMMA InitProgress == Init => Progress
BY DEF Init, Progress

LEMMA NextProgress == TypeOK /\ BatchesFit /\ Progress /\ [Next]_vars => Progress'
<1> SUFFICES ASSUME TypeOK, BatchesFit, Progress, [Next]_vars PROVE Progress'
  OBVIOUS
<1>1. ASSUME NEW e \in Exports, Fetch(e) PROVE Progress'
  BY <1>1, ExportsAssumption DEF Fetch, Progress
<1>2. ASSUME FetchPrivate PROVE Progress'
  BY <1>2 DEF FetchPrivate, Progress
<1>3. ASSUME ParseLine PROVE Progress'
  BY <1>3 DEF ParseLine, Progress
<1>4. ASSUME Clear PROVE Progress'
  <2>1. \A c \in Cards : Empty[c] = NoRow
    BY DEF Empty
  <2>2. /\ working'.rows = Empty /\ working'.hash = export
        /\ working'.index = IF ftsEnabled THEN Empty ELSE stored.index
    BY <1>4 DEF Clear
  <2>3. WrittenSoFar'
    BY <1>4, <2>1, <2>2 DEF Clear, Written, WrittenSoFar, HasWritten, NoBatch, Tables, config
  <2> QED
    BY <1>4, <2>3 DEF Clear, Parsed, Progress, config
<1>5. ASSUME NEW c \in Cards, Stream(c) PROVE Progress'
  <2>1. ASSUME NEW t \in Written
        PROVE  todo' \union pending'[t] = todo \union pending[t]
    BY <1>5, <2>1 DEF Stream, Written, Tables
  <2>2. WrittenSoFar'
    BY <1>5, <2>1 DEF Stream, Progress, WrittenSoFar, HasWritten, Written, Tables, config
  <2> QED
    BY <1>5, <2>2 DEF Stream, Progress
<1>6. ASSUME NEW t \in Tables, Flush(t) PROVE Progress'
  <2> DEFINE content == [c \in Cards |-> IF c \in pending[t] THEN cards[c] ELSE working[t][c]]
  <2>1. working' = [working EXCEPT ![t] = content]
    BY <1>6 DEF Flush
  <2>2. /\ working'.hash = working.hash
        /\ working'[t] = content
        /\ \A u \in Tables \ {t} : working'[u] = working[u]
    BY <2>1 DEF TypeOK, List, Tables
  <2>3. pending'[t] = {} /\ \A u \in Tables \ {t} : pending'[u] = pending[u]
    BY <1>6 DEF Flush, TypeOK
  <2>4. WrittenSoFar
    BY <1>6 DEF Flush, Progress
  <2>5. HasWritten(working[t], todo \union pending[t]) => HasWritten(content, todo)
    BY <2>4 DEF HasWritten, WrittenSoFar
  <2>6. t \in Written
    <3>1. pending[t] # {}
      <4>1. Full(t) \/ pending[t] # {}
        BY <1>6 DEF Flush, Due
      <4> QED
        BY <4>1, SizeFits, FS_EmptySet DEF Full
    <3> QED
      BY <2>4, <3>1 DEF WrittenSoFar
  <2> HIDE DEF content
  <2>7. UNCHANGED <<todo, cards, export, stored, ftsEnabled, step>>
    BY <1>6 DEF Flush, config
  <2>8. CASE t = "rows"
    <3>1. HasWritten(working'.rows, todo \union pending'["rows"])
      BY <2>2, <2>3, <2>4, <2>5, <2>8 DEF WrittenSoFar
    <3>2. working'.index = working.index /\ pending'["index"] = pending["index"]
      BY <2>2, <2>3, <2>8 DEF Tables
    <3>3. WrittenSoFar'
      BY <2>2, <2>3, <2>4, <2>7, <3>1, <3>2 DEF WrittenSoFar, HasWritten, Written
    <3> QED
      BY <1>6, <2>7, <3>3 DEF Progress, Flush
  <2>9. CASE t = "index"
    <3>1. ftsEnabled /\ HasWritten(working'.index, todo \union pending'["index"])
      BY <2>2, <2>3, <2>4, <2>5, <2>6, <2>9 DEF WrittenSoFar, Written
    <3>2. working'.rows = working.rows /\ pending'["rows"] = pending["rows"]
      BY <2>2, <2>3, <2>9 DEF Tables
    <3>3. WrittenSoFar'
      BY <2>2, <2>3, <2>4, <2>7, <3>1, <3>2 DEF WrittenSoFar, HasWritten, Written
    <3> QED
      BY <1>6, <2>7, <3>3 DEF Progress, Flush
  <2> QED
    BY <2>8, <2>9 DEF Tables
<1>7. ASSUME Flushed PROVE Progress'
  <2>1. ASSUME NEW t \in Written PROVE pending[t] = {}
    BY <1>7, <2>1 DEF Flushed, Due
  <2> QED
    BY <1>7, <2>1 DEF Flushed, Progress, WrittenSoFar, HasWritten, Written, config
<1>8. ASSUME Return PROVE Progress'
  BY <1>8 DEF Return, Progress
<1>9. ASSUME vars' = vars PROVE Progress'
  BY <1>9 DEF vars, config, Progress, WrittenSoFar, HasWritten, Written
<1> QED
  BY <1>1, <1>2, <1>3, <1>4, <1>5, <1>6, <1>7, <1>8, <1>9 DEF Next, Unchanged, Commit, Rollback

IInv == TypeOK /\ BatchesFit /\ Progress

(* What is committed is the parsed list... *)
LEMMA CommitsParsed ==
    ASSUME IInv, Commit
    PROVE  stored'.hash = export /\ stored'.rows = cards
<1>1. WrittenSoFar /\ todo = {} /\ \A t \in Written : pending[t] = {}
  BY DEF IInv, Progress, Commit
<1>2. \A c \in Cards : working.rows[c] = cards[c]
  BY <1>1 DEF WrittenSoFar, HasWritten, Written, Tables
<1>3. working.rows = cards
  BY <1>2 DEF IInv, TypeOK, List, Contents
<1> QED
  BY <1>1, <1>3 DEF Commit, WrittenSoFar

(* ... in both tables. *)
LEMMA CommitReplaces == IInv /\ Commit => AtomicList!Replace
<1> SUFFICES ASSUME IInv, Commit PROVE AtomicList!Replace
  OBVIOUS
<1>1. stored' = working /\ ftsEnabled' = ftsEnabled
  BY DEF Commit, Return, config
<1>2. WrittenSoFar /\ todo = {} /\ \A t \in Written : pending[t] = {}
  BY DEF IInv, Progress, Commit
<1>3. working \in List /\ stored \in List /\ cards \in Contents
  BY DEF IInv, TypeOK
<1>4. working.rows = cards
  BY <1>1, CommitsParsed
<1>5. working.index = IF ftsEnabled THEN working.rows ELSE stored.index
  <2>1. CASE ftsEnabled
    <3>1. \A c \in Cards : working.index[c] = cards[c]
      BY <1>2, <2>1 DEF WrittenSoFar, HasWritten, Written, Tables
    <3> QED
      BY <1>3, <1>4, <2>1, <3>1 DEF List, Contents
  <2>2. CASE ~ftsEnabled
    BY <1>2, <2>2 DEF WrittenSoFar
  <2> QED
    BY <2>1, <2>2
<1>6. IF working.hash = NoHash THEN working.rows = Empty ELSE working.hash # stored.hash
  BY <1>2, <1>4 DEF IInv, Progress, Commit, WrittenSoFar
<1> QED
  BY <1>1, <1>3, <1>5, <1>6 DEF AtomicList!Replace, List

(* The invariant of every step. *)
LEMMA Invariant == Spec => []IInv
BY InitTypeOK, NextTypeOK, InitBatchesFit, NextBatchesFit, InitProgress, NextProgress, PTL
   DEF Spec, IInv

(* Whatever statement fails, readers see a list as it was, or all of its    *)
(* successor: SaveCardList implements the atomic replacement.               *)
THEOREM SaveIsAtomic == Spec => ReplaceIsAtomic
<1>1. Init => AtomicList!Init
  BY EmptyType DEF Init, AtomicList!Init, Hashes
<1>2. IInv /\ [Next]_vars => [AtomicList!Next]_(AtomicList!vars)
  <2> SUFFICES ASSUME IInv, [Next]_vars
               PROVE  AtomicList!Next \/ UNCHANGED AtomicList!vars
    OBVIOUS
  <2>1. CASE Commit
    BY <2>1, CommitReplaces DEF AtomicList!Next
  <2>2. CASE ~Commit
    <3>1. UNCHANGED <<stored, ftsEnabled>>
      BY <2>2 DEF Next, Fetch, FetchPrivate, ParseLine, Unchanged, Clear, Stream, Flush, Flushed,
         Rollback, Return, config, vars
    <3> QED
      BY <3>1 DEF AtomicList!vars
  <2> QED
    BY <2>1, <2>2
<1> QED
  BY <1>1, <1>2, Invariant, PTL DEF Spec, ReplaceIsAtomic, AtomicList!Spec

-----------------------------------------------------------------------------
(* A set P has all subsets of a finite set U if it has each one whose       *)
(* proper subsets it has.                                                  *)
LEMMA SubsetInduction ==
    ASSUME NEW U, IsFiniteSet(U), NEW P,
           \A s \in SUBSET U : (\A t \in SUBSET s : t # s => t \in P) => s \in P
    PROVE  \A s \in SUBSET U : s \in P
<1> DEFINE left == {s \in SUBSET U : s \notin P}
<1> SUFFICES ASSUME left # {} PROVE FALSE
  OBVIOUS
<1>1. IsWellFoundedOn(StrictSubsetOrdering(U), FiniteSubsetsOf(U))
  BY FS_StrictSubsetOrderingWellFounded
<1>2. left \subseteq FiniteSubsetsOf(U)
  BY FS_FiniteSubsetsOfFinite
<1> HIDE DEF left
<1>3. PICK s \in left : \A t \in left : ~ (<<t, s>> \in StrictSubsetOrdering(U))
  BY <1>1, <1>2, WFMin
<1> USE DEF left
<1>4. \A t \in SUBSET s : t # s => t \in P
  BY <1>3 DEF StrictSubsetOrdering
<1> QED
  BY <1>3, <1>4

(* sum[s] adds f up over s, whichever element is taken first. *)
Adds(sum, f, S) ==
    /\ sum \in [SUBSET S -> Int] /\ sum[{}] = 0
    /\ \A s \in SUBSET S : \A x \in s : sum[s] = f[x] + sum[s \ {x}]

LEMMA AdderExists ==
    ASSUME NEW f, NEW S, IsFiniteSet(S), \A x \in S : f[x] \in Int
    PROVE  \E sum : Adds(sum, f, S)
<1> DEFINE P == {s \in SUBSET S : \E sum : Adds(sum, f, s)}
<1>1. ASSUME NEW s \in SUBSET S, \A t \in SUBSET s : t # s => t \in P
      PROVE  s \in P
  <2>1. CASE s = {}
    <3> DEFINE zero == [t \in SUBSET s |-> 0]
    <3>1. Adds(zero, f, s)
      BY <2>1 DEF Adds
    <3> QED
      BY <3>1
  <2>2. CASE s # {}
    <3>1. PICK y \in s : TRUE
      BY <2>2
    <3>2. s \ {y} \in P /\ f[y] \in Int
      BY <1>1, <3>1
    <3>3. PICK sum : Adds(sum, f, s \ {y})
      BY <3>2
    <3> DEFINE next == [t \in SUBSET s |-> IF y \in t THEN f[y] + sum[t \ {y}] ELSE sum[t]]
    <3>4. \A t \in SUBSET s : t \ {y} \in SUBSET (s \ {y}) /\ sum[t \ {y}] \in Int
      BY <3>3 DEF Adds
    <3>5. next \in [SUBSET s -> Int] /\ next[{}] = 0
      BY <3>2, <3>3, <3>4 DEF Adds
    <3>6. ASSUME NEW t \in SUBSET s, NEW x \in t
          PROVE  next[t] = f[x] + next[t \ {x}]
      <4>1. f[x] \in Int
        OBVIOUS
      <4>2. CASE x = y
        BY <4>2
      <4>3. CASE x # y /\ y \in t
        <5> DEFINE u == t \ {y}
        <5>1. sum[u] = f[x] + sum[u \ {x}] /\ sum[u \ {x}] \in Int
          BY <3>3, <3>6, <4>3 DEF Adds
        <5>2. (t \ {x}) \ {y} = u \ {x}
          OBVIOUS
        <5>3. next[t \ {x}] = f[y] + sum[u \ {x}]
          BY <4>3, <5>2
        <5>4. next[t] = f[y] + sum[u]
          BY <4>3
        <5> HIDE DEF next, u
        <5> QED
          BY <3>2, <4>1, <5>1, <5>3, <5>4
      <4>4. CASE y \notin t
        BY <3>3, <4>4 DEF Adds
      <4> QED
        BY <4>2, <4>3, <4>4
    <3> HIDE DEF next
    <3>7. Adds(next, f, s)
      BY <3>5, <3>6 DEF Adds
    <3> QED
      BY <3>7
  <2> QED
    BY <2>1, <2>2
<1> HIDE DEF P
<1>2. \A s \in SUBSET S : s \in P
  BY <1>1, SubsetInduction
<1> QED
  BY <1>2 DEF P

(* The recursion of a fold that takes the element pick[s] of s first. *)
Folds(fold, f, pick, S) ==
    fold = [s \in SUBSET S |-> IF s = {} THEN 0 ELSE f[pick[s]] + fold[s \ {pick[s]}]]

LEMMA FoldAdds ==
    ASSUME NEW f, NEW S, IsFiniteSet(S), NEW sum, Adds(sum, f, S),
           NEW pick, \A s \in SUBSET S : s # {} => pick[s] \in s,
           NEW fold, Folds(fold, f, pick, S)
    PROVE  fold[S] = sum[S]
<1> DEFINE P == {s \in SUBSET S : fold[s] = sum[s]}
<1>1. ASSUME NEW s \in SUBSET S, \A t \in SUBSET s : t # s => t \in P
      PROVE  s \in P
  <2>1. CASE s = {}
    BY <2>1 DEF Folds, Adds
  <2>2. CASE s # {}
    <3> DEFINE t == s \ {pick[s]}
    <3>1. t \in SUBSET s /\ t # s /\ pick[s] \in s
      BY <2>2
    <3>2. fold[t] = sum[t]
      BY <1>1, <3>1
    <3>3. fold[s] = f[pick[s]] + fold[t]
      BY <2>2 DEF Folds
    <3>4. sum[s] = f[pick[s]] + sum[t]
      BY <3>1 DEF Adds
    <3> QED
      BY <3>2, <3>3, <3>4
  <2> QED
    BY <2>1, <2>2
<1> HIDE DEF P
<1>2. \A s \in SUBSET S : s \in P
  BY <1>1, SubsetInduction
<1> QED
  BY <1>2 DEF P

(* SumFunction is what any such sum comes to. *)
LEMMA SumIs ==
    ASSUME NEW f, NEW S, S = DOMAIN f, IsFiniteSet(S), NEW sum, Adds(sum, f, S)
    PROVE  SumFunction(f) = sum[S]
<1> DEFINE pick == [s \in SUBSET S |-> CHOOSE x \in s : TRUE]
           fold == CHOOSE k : k = [s \in SUBSET S |->
                      IF s = {} THEN 0 ELSE LET x == CHOOSE x \in s : TRUE IN f[x] + k[s \ {x}]]
<1>1. SumFunction(f) = fold[S]
  BY DEF SumFunction, SumFunctionOnSet, FoldFunctionOnSet, MapThenFoldSet
<1>2. \A s \in SUBSET S : s # {} => pick[s] \in s
  OBVIOUS
<1> HIDE DEF pick
<1>3. Folds(sum, f, pick, S)
  <2>1. \A s \in SUBSET S : sum[s] = IF s = {} THEN 0 ELSE f[pick[s]] + sum[s \ {pick[s]}]
    BY <1>2 DEF Adds
  <2> QED
    BY <2>1 DEF Adds, Folds
<1>4. \A k : Folds(k, f, pick, S) <=> k = [s \in SUBSET S |->
                      IF s = {} THEN 0 ELSE LET x == CHOOSE x \in s : TRUE IN f[x] + k[s \ {x}]]
  BY DEF Folds, pick
<1>5. Folds(fold, f, pick, S)
  <2>1. sum = [s \in SUBSET S |->
                      IF s = {} THEN 0 ELSE LET x == CHOOSE x \in s : TRUE IN f[x] + sum[s \ {x}]]
    BY <1>3, <1>4
  <2>2. fold = [s \in SUBSET S |->
                      IF s = {} THEN 0 ELSE LET x == CHOOSE x \in s : TRUE IN f[x] + fold[s \ {x}]]
    BY <2>1
  <2> QED
    BY <1>4, <2>2
<1> HIDE DEF fold
<1> QED
  BY <1>1, <1>2, <1>5, FoldAdds

(* The sum over a part of the domain, by a sum over all of it. *)
LEMMA SumOfPart ==
    ASSUME NEW f, NEW S, IsFiniteSet(S), NEW sum, Adds(sum, f, S),
           NEW part, DOMAIN part \subseteq S, \A x \in DOMAIN part : part[x] = f[x]
    PROVE  SumFunction(part) = sum[DOMAIN part]
<1> DEFINE T == DOMAIN part
           partial == [s \in SUBSET T |-> sum[s]]
<1>1. Adds(partial, part, T)
  BY DEF Adds
<1>2. IsFiniteSet(T)
  BY FS_Subset
<1> HIDE DEF partial
<1>3. SumFunction(part) = partial[T]
  BY <1>1, <1>2, SumIs
<1> QED
  BY <1>3 DEF partial

LEMMA SumType ==
    ASSUME NEW f, IsFiniteSet(DOMAIN f), \A x \in DOMAIN f : f[x] \in Int
    PROVE  SumFunction(f) \in Int
<1>1. PICK sum : Adds(sum, f, DOMAIN f)
  BY AdderExists
<1>2. SumFunction(f) = sum[DOMAIN f]
  BY <1>1, SumIs
<1> QED
  BY <1>1, <1>2 DEF Adds

LEMMA SumOfNone ==
    ASSUME NEW f, DOMAIN f = {}
    PROVE  SumFunction(f) = 0
<1>1. PICK sum : Adds(sum, f, DOMAIN f)
  BY AdderExists, FS_EmptySet
<1> QED
  BY <1>1, SumIs, FS_EmptySet DEF Adds

(* One more term. *)
LEMMA SumWith ==
    ASSUME NEW f, IsFiniteSet(DOMAIN f), \A x \in DOMAIN f : f[x] \in Int,
           NEW y \in DOMAIN f,
           NEW part, DOMAIN part = DOMAIN f \ {y}, \A x \in DOMAIN part : part[x] = f[x]
    PROVE  SumFunction(f) = f[y] + SumFunction(part)
<1>1. PICK sum : Adds(sum, f, DOMAIN f)
  BY AdderExists
<1>2. SumFunction(f) = sum[DOMAIN f]
  BY <1>1, SumIs
<1>3. SumFunction(part) = sum[DOMAIN part]
  BY <1>1, SumOfPart
<1> QED
  BY <1>1, <1>2, <1>3 DEF Adds

-----------------------------------------------------------------------------
(* Equal as far as an int16 holds it. *)
Congruent(a, b) == \E q \in Int : a = b + q * (2 * Half)

LEMMA DivMod ==
    ASSUME NEW n \in Int, NEW m \in Nat \ {0}
    PROVE  n \div m \in Int /\ n % m \in 0 .. m - 1 /\ n = (n \div m) * m + (n % m)
OBVIOUS

LEMMA NoOtherMultiple ==
    ASSUME NEW m \in Nat \ {0}, NEW q \in Int, NEW r \in Int, q * m = r, -m < r, r < m
    PROVE  r = 0
<1>1. CASE q >= 1
  <2>1. (q - 1) * m >= 0
    BY <1>1
  <2>2. (q - 1) * m = q * m - m
    OBVIOUS
  <2> QED
    BY <2>1, <2>2
<1>2. CASE q <= -1
  <2>1. (-q - 1) * m >= 0
    BY <1>2
  <2>2. (-q - 1) * m = -(q * m) - m
    OBVIOUS
  <2> QED
    BY <2>1, <2>2
<1>3. CASE q = 0
  BY <1>3
<1> QED
  BY <1>1, <1>2, <1>3

LEMMA CongruentIsMod ==
    ASSUME NEW a \in Int, NEW b \in Int, Congruent(a, b)
    PROVE  (a - b) % (2 * Half) = 0
<1> DEFINE m == 2 * Half
           n == a - b
<1>1. m \in Nat \ {0} /\ n \in Int
  BY HalfAssumption
<1>2. PICK q \in Int : n = q * m
  <2>1. PICK q \in Int : a = b + q * m
    BY DEF Congruent
  <2> QED
    BY <1>1, <2>1
<1> HIDE DEF m, n
<1>3. n \div m \in Int /\ n % m \in 0 .. m - 1 /\ n = (n \div m) * m + (n % m)
  BY <1>1, DivMod
<1>4. (q - (n \div m)) * m = n % m
  <2>1. (q - (n \div m)) * m = q * m - (n \div m) * m
    BY <1>1, <1>2, <1>3
  <2> QED
    BY <1>1, <1>2, <1>3, <2>1
<1>5. n % m = 0
  <2>1. q - (n \div m) \in Int /\ n % m \in Int /\ -m < n % m /\ n % m < m
    BY <1>1, <1>2, <1>3
  <2> QED
    BY <1>1, <1>4, <2>1, NoOtherMultiple
<1> QED
  BY <1>5 DEF m, n

(* A sum that fits is exact. *)
LEMMA CongruentIsExact ==
    ASSUME NEW a \in Quantities, NEW b \in Quantities, Congruent(a, b)
    PROVE  a = b
<1> DEFINE m == 2 * Half
<1>1. m \in Nat \ {0} /\ a - b \in Int /\ -m < a - b /\ a - b < m
  BY HalfAssumption DEF Quantities
<1>2. PICK q \in Int : a - b = q * m
  <2>1. PICK q \in Int : a = b + q * m
    BY DEF Congruent
  <2>2. a \in Int /\ b \in Int
    BY HalfAssumption DEF Quantities
  <2> QED
    BY <1>1, <2>1, <2>2
<1> HIDE DEF m
<1>3. a - b = 0
  BY <1>1, <1>2, NoOtherMultiple
<1> QED
  BY <1>3 DEF Quantities

(* int16(n) is n, as far as an int16 holds it. *)
LEMMA WrapCongruent ==
    ASSUME NEW n \in Int
    PROVE  Congruent(n, Wrap(n))
<1> DEFINE m == 2 * Half
           k == n + Half
<1>1. m \in Nat \ {0} /\ k \in Int /\ n = k - Half
  BY HalfAssumption
<1>2. Wrap(n) = (k % m) - Half
  BY DEF Wrap
<1> HIDE DEF m, k
<1>3. k \div m \in Int /\ k % m \in Int /\ k = (k \div m) * m + (k % m)
  BY <1>1, DivMod
<1>4. (k \div m) * m \in Int
  BY <1>1, <1>3
<1>5. n = Wrap(n) + (k \div m) * m
  BY <1>1, <1>2, <1>3, <1>4, HalfAssumption
<1> QED
  BY <1>3, <1>5 DEF Congruent, m

LEMMA CongruentSelf ==
    ASSUME NEW a \in Int
    PROVE  Congruent(a, a)
<1>1. a = a + 0 * (2 * Half) /\ 0 \in Int
  BY HalfAssumption
<1> QED
  BY <1>1 DEF Congruent

LEMMA WrapIsInt ==
    ASSUME NEW n \in Int
    PROVE  Wrap(n) \in Int
BY WrapType, HalfAssumption DEF Quantities

LEMMA CongruentSum ==
    ASSUME NEW a \in Int, NEW b \in Int, NEW c \in Int, NEW d \in Int,
           Congruent(a, b), Congruent(c, d)
    PROVE  Congruent(a + c, b + d)
<1> DEFINE m == 2 * Half
<1>1. m \in Int
  BY HalfAssumption
<1>2. PICK p \in Int : a = b + p * m
  BY DEF Congruent
<1>3. PICK q \in Int : c = d + q * m
  BY DEF Congruent
<1> HIDE DEF m
<1>4. (p + q) * m = p * m + q * m /\ p * m \in Int /\ q * m \in Int /\ p + q \in Int
  BY <1>1
<1>5. a + c = (b + d) + (p + q) * m
  BY <1>2, <1>3, <1>4
<1> QED
  BY <1>4, <1>5 DEF Congruent, m

LEMMA CongruentTrans ==
    ASSUME NEW a \in Int, NEW b \in Int, NEW c \in Int, Congruent(a, b), Congruent(b, c)
    PROVE  Congruent(a, c)
<1>1. a + b \in Int /\ Congruent(a + b, b + c)
  BY CongruentSum
<1> DEFINE m == 2 * Half
<1>2. PICK q \in Int : a + b = (b + c) + q * m
  BY <1>1 DEF Congruent
<1>3. m \in Int /\ q * m \in Int
  BY HalfAssumption
<1> HIDE DEF m
<1>4. a = c + q * m
  BY <1>2, <1>3
<1> QED
  BY <1>2, <1>4 DEF Congruent, m

-----------------------------------------------------------------------------
(* The rows are the export *)

(* The lines of a card among the first n of an export, and their sum. *)
LinesTo(e, n, c) == LinesOf(e, c) \intersect 1 .. n
SumTo(e, n, c) == SumFunction([i \in LinesTo(e, n, c) |-> e[i].number])

IsSumTo(quantity, e, n, c) ==
    /\ quantity = NoRow <=> LinesTo(e, n, c) = {}
    /\ quantity # NoRow => Congruent(SumTo(e, n, c), quantity)

AddsUpTo(content, e, n) == \A c \in Cards : IsSumTo(content[c], e, n, c)

LEMMA LinesToType ==
    ASSUME NEW e \in Seq(Lines), NEW n \in Nat, NEW c \in Cards
    PROVE  /\ IsFiniteSet(LinesTo(e, n, c))
           /\ \A i \in LinesTo(e, n, c) : e[i].number \in Int
           /\ SumTo(e, n, c) \in Int
<1> DEFINE number == [i \in LinesTo(e, n, c) |-> e[i].number]
<1>1. IsFiniteSet(LinesTo(e, n, c))
  <2>1. LinesTo(e, n, c) \subseteq 1 .. n
    BY DEF LinesTo
  <2> QED
    BY <2>1, FS_Interval, FS_Subset
<1>2. ASSUME NEW i \in LinesTo(e, n, c) PROVE e[i].number \in Int
  BY DEF LinesTo, LinesOf, Lines
<1>3. DOMAIN number = LinesTo(e, n, c) /\ \A i \in DOMAIN number : number[i] \in Int
  BY <1>2
<1> HIDE DEF number
<1>4. SumFunction(number) \in Int
  BY <1>1, <1>3, SumType
<1> QED
  BY <1>1, <1>2, <1>4 DEF SumTo, number

(* One more line adds its number to its card. *)
LEMMA SumToNext ==
    ASSUME NEW e \in Seq(Lines), NEW n \in Nat, n + 1 <= Len(e), NEW c \in Cards
    PROVE  IF e[n + 1] # Malformed /\ e[n + 1].card = c
             THEN /\ LinesTo(e, n + 1, c) # {}
                  /\ SumTo(e, n + 1, c) = e[n + 1].number + SumTo(e, n, c)
             ELSE LinesTo(e, n + 1, c) = LinesTo(e, n, c)
<1>1. CASE e[n + 1] # Malformed /\ e[n + 1].card = c
  <2> DEFINE before == [i \in LinesTo(e, n, c) |-> e[i].number]
             after == [i \in LinesTo(e, n + 1, c) |-> e[i].number]
  <2>1. n + 1 \in LinesTo(e, n + 1, c)
    BY <1>1 DEF LinesTo, LinesOf
  <2>2. LinesTo(e, n, c) = LinesTo(e, n + 1, c) \ {n + 1}
    BY DEF LinesTo, LinesOf
  <2>3. /\ IsFiniteSet(DOMAIN after) /\ \A i \in DOMAIN after : after[i] \in Int
        /\ n + 1 \in DOMAIN after /\ after[n + 1] = e[n + 1].number
        /\ DOMAIN before = DOMAIN after \ {n + 1}
        /\ \A i \in DOMAIN before : before[i] = after[i]
    BY <2>1, <2>2, LinesToType
  <2> HIDE DEF before, after
  <2>4. SumFunction(after) = after[n + 1] + SumFunction(before)
    BY <2>3, SumWith
  <2> QED
    BY <1>1, <2>1, <2>3, <2>4 DEF SumTo, before, after
<1>2. CASE ~(e[n + 1] # Malformed /\ e[n + 1].card = c)
  BY <1>2 DEF LinesTo, LinesOf
<1> QED
  BY <1>1, <1>2

(* cards[name] += int16(quantity) adds the line to the sum. *)
LEMMA PlusAddsUp ==
    ASSUME TypeOK, NEW e \in Seq(Lines), NEW n \in Nat, n + 1 <= Len(e), AddsUpTo(cards, e, n)
    PROVE  AddsUpTo(IF e[n + 1] = Malformed THEN cards ELSE Plus(e[n + 1]), e, n + 1)
<1> DEFINE line == e[n + 1]
           after == IF line = Malformed THEN cards ELSE Plus(line)
<1> SUFFICES ASSUME NEW c \in Cards PROVE IsSumTo(after[c], e, n + 1, c)
  BY DEF AddsUpTo
<1>1. IsSumTo(cards[c], e, n, c)
  BY DEF AddsUpTo
<1>2. CASE line # Malformed /\ line.card = c
  <2> DEFINE old == IF cards[c] = NoRow THEN 0 ELSE cards[c]
  <2>1. line.number \in Int
    BY <1>2 DEF Lines
  <2>2. old \in Int
    BY DEF TypeOK, Contents, Quantities
  <2>3. after[c] = Wrap(old + Wrap(line.number))
    BY <1>2 DEF Plus, TypeOK, Contents
  <2>4. /\ LinesTo(e, n + 1, c) # {}
        /\ SumTo(e, n + 1, c) = line.number + SumTo(e, n, c)
    BY <1>2, SumToNext
  <2>5. SumTo(e, n, c) \in Int
    BY LinesToType
  <2>6. Congruent(SumTo(e, n, c), old)
    <3>1. CASE cards[c] = NoRow
      <4>1. LinesTo(e, n, c) = {}
        BY <1>1, <3>1 DEF IsSumTo
      <4>2. SumTo(e, n, c) = 0
        BY <4>1, SumOfNone DEF SumTo
      <4> QED
        BY <2>2, <3>1, <4>2, CongruentSelf
    <3>2. CASE cards[c] # NoRow
      BY <1>1, <3>2 DEF IsSumTo
    <3> QED
      BY <3>1, <3>2
  <2> HIDE DEF line, old, after
  <2>7. Wrap(line.number) \in Int /\ Congruent(line.number, Wrap(line.number))
    BY <2>1, WrapIsInt, WrapCongruent
  <2>8. Congruent(SumTo(e, n, c) + line.number, old + Wrap(line.number))
    BY <2>1, <2>2, <2>5, <2>6, <2>7, CongruentSum
  <2>9. old + Wrap(line.number) \in Int /\ SumTo(e, n, c) + line.number \in Int
    BY <2>1, <2>2, <2>5, <2>7
  <2>10. /\ after[c] \in Int /\ after[c] # NoRow
         /\ Congruent(old + Wrap(line.number), after[c])
    BY <2>3, <2>9, WrapIsInt, WrapType, WrapCongruent, NoRowAssumption DEF Quantities
  <2>11. Congruent(SumTo(e, n, c) + line.number, after[c])
    BY <2>8, <2>9, <2>10, CongruentTrans
  <2>12. SumTo(e, n + 1, c) = SumTo(e, n, c) + line.number
    BY <2>1, <2>4, <2>5
  <2> QED
    BY <2>4, <2>10, <2>11, <2>12 DEF IsSumTo
<1>3. CASE ~(line # Malformed /\ line.card = c)
  <2>1. LinesTo(e, n + 1, c) = LinesTo(e, n, c)
    BY <1>3, SumToNext
  <2>2. after[c] = cards[c]
    BY <1>3 DEF Plus, TypeOK, Contents
  <2> HIDE DEF after
  <2> QED
    BY <1>1, <2>1, <2>2 DEF IsSumTo, SumTo
<1> QED
  BY <1>2, <1>3

(* What was parsed is the sum of the lines that are not still to come. *)
ParsedSoFar ==
    step # "idle" /\ export # NoHash =>
        /\ Len(rest) <= Len(export)
        /\ \A i \in 1 .. Len(rest) : rest[i] = export[Len(export) - Len(rest) + i]
        /\ AddsUpTo(cards, export, Len(export) - Len(rest))
        /\ step # "parse" => rest = <<>>

StoredIsSum ==
    IF stored.hash = NoHash THEN stored.rows = Empty
    ELSE AddsUpTo(stored.rows, stored.hash, Len(stored.hash))

LEMMA NothingAdded ==
    ASSUME NEW e \in Seq(Lines)
    PROVE  AddsUpTo(Empty, e, 0)
<1> SUFFICES ASSUME NEW c \in Cards PROVE IsSumTo(Empty[c], e, 0, c)
  BY DEF AddsUpTo
<1>1. LinesTo(e, 0, c) = {}
  BY DEF LinesTo
<1> QED
  BY <1>1 DEF IsSumTo, Empty

LEMMA NextParsed == IInv /\ ParsedSoFar /\ [Next]_vars => ParsedSoFar'
<1> SUFFICES ASSUME IInv, ParsedSoFar, [Next]_vars PROVE ParsedSoFar'
  OBVIOUS
<1>1. ASSUME NEW e \in Exports, Fetch(e) PROVE ParsedSoFar'
  <2>1. e \in Seq(Lines) /\ Len(e) \in Nat /\ Len(e) - Len(e) = 0
    BY ExportsAssumption
  <2>2. AddsUpTo(Empty, e, 0)
    BY <2>1, NothingAdded
  <2>3. export' = e /\ rest' = e /\ cards' = Empty /\ step' = "parse"
    BY <1>1 DEF Fetch
  <2>4. AddsUpTo(cards', e, Len(e) - Len(e))
    BY <2>1, <2>2, <2>3
  <2> QED
    BY <2>1, <2>3, <2>4 DEF ParsedSoFar, AddsUpTo
<1>2. ASSUME FetchPrivate PROVE ParsedSoFar'
  BY <1>2 DEF FetchPrivate, ParsedSoFar
<1>3. ASSUME ParseLine PROVE ParsedSoFar'
  <2> DEFINE n == Len(export) - Len(rest)
  <2>1. /\ rest \in Seq(Lines) /\ rest # <<>> /\ rest' = Tail(rest)
        /\ step' = "parse" /\ export' = export /\ export # NoHash /\ export \in Seq(Lines)
    BY <1>3, ExportsAssumption DEF ParseLine, IInv, Progress, TypeOK, Hashes
  <2>2. Len(rest) \in Nat \ {0} /\ Len(rest') = Len(rest) - 1 /\ Len(export) \in Nat
    BY <2>1
  <2>3. /\ Len(rest) <= Len(export)
        /\ \A i \in 1 .. Len(rest) : rest[i] = export[n + i]
        /\ AddsUpTo(cards, export, n)
    BY <1>3, <2>1 DEF ParsedSoFar, ParseLine
  <2>4. n \in Nat /\ n + 1 <= Len(export) /\ Len(export') - Len(rest') = n + 1
    BY <2>1, <2>2, <2>3
  <2>5. Head(rest) = export[n + 1]
    <3>1. Head(rest) = rest[1] /\ 1 \in 1 .. Len(rest)
      BY <2>1, <2>2
    <3> QED
      BY <2>3, <3>1
  <2>6. cards' = IF export[n + 1] = Malformed THEN cards ELSE Plus(export[n + 1])
    BY <1>3, <2>5 DEF ParseLine
  <2>7. ASSUME NEW i \in 1 .. Len(rest')
        PROVE  rest'[i] = export[n + 1 + i]
    <3>1. rest'[i] = rest[i + 1] /\ i + 1 \in 1 .. Len(rest)
      BY <2>1, <2>2
    <3>2. rest[i + 1] = export[n + (i + 1)] /\ n + (i + 1) = n + 1 + i
      BY <2>3, <2>4, <3>1
    <3> QED
      BY <3>1, <3>2
  <2> HIDE DEF n
  <2>8. AddsUpTo(cards', export, n + 1)
    BY <2>1, <2>3, <2>4, <2>6, PlusAddsUp DEF IInv
  <2>9. Len(rest') <= Len(export')
    BY <2>1, <2>2, <2>3
  <2> QED
    BY <2>1, <2>4, <2>7, <2>8, <2>9 DEF ParsedSoFar, AddsUpTo
<1>4. ASSUME Clear PROVE ParsedSoFar'
  BY <1>4 DEF Clear, Parsed, ParsedSoFar, AddsUpTo
<1>5. ASSUME \/ \E c \in Cards : Stream(c)
             \/ \E t \in Tables : Flush(t)
      PROVE  ParsedSoFar'
  BY <1>5 DEF Stream, Flush, ParsedSoFar, AddsUpTo
<1>6. ASSUME Flushed PROVE ParsedSoFar'
  BY <1>6 DEF Flushed, ParsedSoFar, AddsUpTo
<1>7. ASSUME Return PROVE ParsedSoFar'
  BY <1>7 DEF Return, ParsedSoFar
<1>8. ASSUME vars' = vars PROVE ParsedSoFar'
  BY <1>8 DEF vars, ParsedSoFar, AddsUpTo
<1> QED
  BY <1>1, <1>2, <1>3, <1>4, <1>5, <1>6, <1>7, <1>8 DEF Next, Unchanged, Commit, Rollback

LEMMA NextStored == IInv /\ ParsedSoFar /\ StoredIsSum /\ [Next]_vars => StoredIsSum'
<1> SUFFICES ASSUME IInv, ParsedSoFar, StoredIsSum, [Next]_vars PROVE StoredIsSum'
  OBVIOUS
<1>1. CASE Commit
  <2>1. stored'.hash = export /\ stored'.rows = cards
    BY <1>1, CommitsParsed
  <2>2. CASE export = NoHash
    BY <1>1, <2>1, <2>2 DEF Commit, IInv, Progress, StoredIsSum
  <2>3. CASE export # NoHash
    <3>1. AddsUpTo(cards, export, Len(export) - Len(rest)) /\ rest = <<>>
      BY <1>1, <2>3 DEF ParsedSoFar, Commit
    <3>2. Len(export) - Len(rest) = Len(export)
      <4>1. export \in Seq(Lines)
        BY <2>3, ExportsAssumption DEF IInv, TypeOK, Hashes
      <4> QED
        BY <3>1, <4>1
    <3> QED
      BY <2>1, <2>3, <3>1, <3>2 DEF StoredIsSum, AddsUpTo
  <2> QED
    BY <2>2, <2>3
<1>2. CASE ~Commit
  <2>1. stored' = stored
    BY <1>2 DEF Next, Fetch, FetchPrivate, ParseLine, Unchanged, Clear, Stream, Flush, Flushed,
       Rollback, Return, config, vars
  <2> QED
    BY <2>1 DEF StoredIsSum, AddsUpTo
<1> QED
  BY <1>1, <1>2

(* The rows under a hash are all cards of that export with the sum of their *)
(* lines, as far as an int16 holds it: exact where the sum fits, whatever   *)
(* overflowed on the way to it.                                            *)
THEOREM RowsOfTheExport == Spec => []RowsAreTheExport
<1>1. IInv /\ StoredIsSum => RowsAreTheExport
  <2> SUFFICES ASSUME IInv, StoredIsSum, NEW c \in Cards
               PROVE  IF stored.hash = NoHash THEN stored.rows[c] = NoRow
                      ELSE /\ stored.rows[c] = NoRow <=> LinesOf(stored.hash, c) = {}
                           /\ stored.rows[c] # NoRow =>
                                /\ (Total(stored.hash, c) - stored.rows[c]) % (2 * Half) = 0
                                /\ Total(stored.hash, c) \in Quantities =>
                                      stored.rows[c] = Total(stored.hash, c)
    BY DEF RowsAreTheExport
  <2>1. CASE stored.hash = NoHash
    BY <2>1 DEF StoredIsSum, Empty
  <2>2. CASE stored.hash # NoHash
    <3> DEFINE e == stored.hash
               quantity == stored.rows[c]
    <3>1. e \in Seq(Lines) /\ Len(e) \in Nat
      BY <2>2, ExportsAssumption DEF IInv, TypeOK, List, Hashes
    <3>2. quantity \in Quantities \union {NoRow}
      BY DEF IInv, TypeOK, List, Contents
    <3>3. IsSumTo(quantity, e, Len(e), c)
      BY <2>2 DEF StoredIsSum, AddsUpTo
    <3>4. LinesTo(e, Len(e), c) = LinesOf(e, c)
      BY <3>1 DEF LinesTo, LinesOf
    <3> HIDE DEF e, quantity
    <3>5. SumTo(e, Len(e), c) = Total(e, c) /\ Total(e, c) \in Int
      BY <3>1, <3>4, LinesToType DEF SumTo, Total
    <3>6. quantity = NoRow <=> LinesOf(e, c) = {}
      BY <3>3, <3>4 DEF IsSumTo
    <3>7. ASSUME quantity # NoRow
          PROVE  /\ (Total(e, c) - quantity) % (2 * Half) = 0
                 /\ Total(e, c) \in Quantities => quantity = Total(e, c)
      <4>1. quantity \in Quantities /\ quantity \in Int /\ Congruent(Total(e, c), quantity)
        BY <3>2, <3>3, <3>5, <3>7, HalfAssumption DEF IsSumTo, Quantities
      <4> QED
        BY <3>5, <4>1, CongruentIsMod, CongruentIsExact
    <3> QED
      BY <2>2, <3>6, <3>7 DEF e, quantity
  <2> QED
    BY <2>1, <2>2
<1>2. Init => ParsedSoFar /\ StoredIsSum
  BY DEF Init, ParsedSoFar, StoredIsSum
<1> QED
  BY <1>1, <1>2, Invariant, NextParsed, NextStored, PTL DEF Spec

=============================================================================
