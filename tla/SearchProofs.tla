----------------------------- MODULE SearchProofs -----------------------------
(* Search for any messages, terms, cards and lists: its types, the truth of *)
(* what is found and of what is not, and that Demand adds up.  The argument  *)
(* is about one line: what its query read was in the window, and the merge   *)
(* takes every line for what it read.                                       *)
EXTENDS Search, FiniteSetTheorems, TLAPS

(* Sums *)

(* A set P has all subsets of a finite set U if it has each one whose       *)
(* proper subsets it has.                                                  *)
LEMMA SubsetInduction ==
    ASSUME NEW U, IsFiniteSet(U), NEW P,
           \A s \in SUBSET U : (\A t \in SUBSET s : t # s => t \in P) => s \in P
    PROVE  \A s \in SUBSET U : s \in P
<1> DEFINE left == {s \in SUBSET U : s \notin P}
<1> SUFFICES ASSUME left # {} PROVE FALSE
  OBVIOUS
<1>1. IsWellFoundedOn(StrictSubsetOrdering(U), FiniteSubsetsOf(U))
  BY FS_StrictSubsetOrderingWellFounded
<1>2. left \subseteq FiniteSubsetsOf(U)
  BY FS_FiniteSubsetsOfFinite
<1> HIDE DEF left
<1>3. PICK s \in left : \A t \in left : ~ (<<t, s>> \in StrictSubsetOrdering(U))
  BY <1>1, <1>2, WFMin
<1> USE DEF left
<1>4. \A t \in SUBSET s : t # s => t \in P
  BY <1>3 DEF StrictSubsetOrdering
<1> QED
  BY <1>3, <1>4

(* sum[s] adds f up over s, whichever element is taken first. *)
Adds(sum, f, S) ==
    /\ sum \in [SUBSET S -> Int] /\ sum[{}] = 0
    /\ \A s \in SUBSET S : \A x \in s : sum[s] = f[x] + sum[s \ {x}]

LEMMA AdderExists ==
    ASSUME NEW f, NEW S, IsFiniteSet(S), \A x \in S : f[x] \in Int
    PROVE  \E sum : Adds(sum, f, S)
<1> DEFINE P == {s \in SUBSET S : \E sum : Adds(sum, f, s)}
<1>1. ASSUME NEW s \in SUBSET S, \A t \in SUBSET s : t # s => t \in P
      PROVE  s \in P
  <2>1. CASE s = {}
    <3> DEFINE zero == [t \in SUBSET s |-> 0]
    <3>1. Adds(zero, f, s)
      BY <2>1 DEF Adds
    <3> QED
      BY <3>1
  <2>2. CASE s # {}
    <3>1. PICK y \in s : TRUE
      BY <2>2
    <3>2. s \ {y} \in P /\ f[y] \in Int
      BY <1>1, <3>1
    <3>3. PICK sum : Adds(sum, f, s \ {y})
      BY <3>2
    <3> DEFINE next == [t \in SUBSET s |-> IF y \in t THEN f[y] + sum[t \ {y}] ELSE sum[t]]
    <3>4. \A t \in SUBSET s : t \ {y} \in SUBSET (s \ {y}) /\ sum[t \ {y}] \in Int
      BY <3>3 DEF Adds
    <3>5. next \in [SUBSET s -> Int] /\ next[{}] = 0
      BY <3>2, <3>3, <3>4 DEF Adds
    <3>6. ASSUME NEW t \in SUBSET s, NEW x \in t
          PROVE  next[t] = f[x] + next[t \ {x}]
      <4>1. f[x] \in Int
        OBVIOUS
      <4>2. CASE x = y
        BY <4>2
      <4>3. CASE x # y /\ y \in t
        <5> DEFINE u == t \ {y}
        <5>1. sum[u] = f[x] + sum[u \ {x}] /\ sum[u \ {x}] \in Int
          BY <3>3, <3>6, <4>3 DEF Adds
        <5>2. (t \ {x}) \ {y} = u \ {x}
          OBVIOUS
        <5>3. next[t \ {x}] = f[y] + sum[u \ {x}]
          BY <4>3, <5>2
        <5>4. next[t] = f[y] + sum[u]
          BY <4>3
        <5> HIDE DEF next, u
        <5> QED
          BY <3>2, <4>1, <5>1, <5>3, <5>4
      <4>4. CASE y \notin t
        BY <3>3, <4>4 DEF Adds
      <4> QED
        BY <4>2, <4>3, <4>4
    <3> HIDE DEF next
    <3>7. Adds(next, f, s)
      BY <3>5, <3>6 DEF Adds
    <3> QED
      BY <3>7
  <2> QED
    BY <2>1, <2>2
<1> HIDE DEF P
<1>2. \A s \in SUBSET S : s \in P
  BY <1>1, SubsetInduction
<1> QED
  BY <1>2 DEF P

(* The recursion of a fold that takes the element pick[s] of s first. *)
Folds(fold, f, pick, S) ==
    fold = [s \in SUBSET S |-> IF s = {} THEN 0 ELSE f[pick[s]] + fold[s \ {pick[s]}]]

LEMMA FoldAdds ==
    ASSUME NEW f, NEW S, IsFiniteSet(S), NEW sum, Adds(sum, f, S),
           NEW pick, \A s \in SUBSET S : s # {} => pick[s] \in s,
           NEW fold, Folds(fold, f, pick, S)
    PROVE  fold[S] = sum[S]
<1> DEFINE P == {s \in SUBSET S : fold[s] = sum[s]}
<1>1. ASSUME NEW s \in SUBSET S, \A t \in SUBSET s : t # s => t \in P
      PROVE  s \in P
  <2>1. CASE s = {}
    BY <2>1 DEF Folds, Adds
  <2>2. CASE s # {}
    <3> DEFINE t == s \ {pick[s]}
    <3>1. t \in SUBSET s /\ t # s /\ pick[s] \in s
      BY <2>2
    <3>2. fold[t] = sum[t]
      BY <1>1, <3>1
    <3>3. fold[s] = f[pick[s]] + fold[t]
      BY <2>2 DEF Folds
    <3>4. sum[s] = f[pick[s]] + sum[t]
      BY <3>1 DEF Adds
    <3> QED
      BY <3>2, <3>3, <3>4
  <2> QED
    BY <2>1, <2>2
<1> HIDE DEF P
<1>2. \A s \in SUBSET S : s \in P
  BY <1>1, SubsetInduction
<1> QED
  BY <1>2 DEF P

(* SumFunction is what any such sum comes to. *)
LEMMA SumIs ==
    ASSUME NEW f, NEW S, S = DOMAIN f, IsFiniteSet(S), NEW sum, Adds(sum, f, S)
    PROVE  SumFunction(f) = sum[S]
<1> DEFINE pick == [s \in SUBSET S |-> CHOOSE x \in s : TRUE]
           fold == CHOOSE k : k = [s \in SUBSET S |->
                      IF s = {} THEN 0 ELSE LET x == CHOOSE x \in s : TRUE IN f[x] + k[s \ {x}]]
<1>1. SumFunction(f) = fold[S]
  BY DEF SumFunction, SumFunctionOnSet, FoldFunctionOnSet, MapThenFoldSet
<1>2. \A s \in SUBSET S : s # {} => pick[s] \in s
  OBVIOUS
<1> HIDE DEF pick
<1>3. Folds(sum, f, pick, S)
  <2>1. \A s \in SUBSET S : sum[s] = IF s = {} THEN 0 ELSE f[pick[s]] + sum[s \ {pick[s]}]
    BY <1>2 DEF Adds
  <2> QED
    BY <2>1 DEF Adds, Folds
<1>4. \A k : Folds(k, f, pick, S) <=> k = [s \in SUBSET S |->
                      IF s = {} THEN 0 ELSE LET x == CHOOSE x \in s : TRUE IN f[x] + k[s \ {x}]]
  BY DEF Folds, pick
<1>5. Folds(fold, f, pick, S)
  <2>1. sum = [s \in SUBSET S |->
                      IF s = {} THEN 0 ELSE LET x == CHOOSE x \in s : TRUE IN f[x] + sum[s \ {x}]]
    BY <1>3, <1>4
  <2>2. fold = [s \in SUBSET S |->
                      IF s = {} THEN 0 ELSE LET x == CHOOSE x \in s : TRUE IN f[x] + fold[s \ {x}]]
    BY <2>1
  <2> QED
    BY <1>4, <2>2
<1> HIDE DEF fold
<1> QED
  BY <1>1, <1>2, <1>5, FoldAdds

(* The sum over a part of the domain, by a sum over all of it. *)
LEMMA SumOfPart ==
    ASSUME NEW f, NEW S, IsFiniteSet(S), NEW sum, Adds(sum, f, S),
           NEW part, DOMAIN part \subseteq S, \A x \in DOMAIN part : part[x] = f[x]
    PROVE  SumFunction(part) = sum[DOMAIN part]
<1> DEFINE T == DOMAIN part
           partial == [s \in SUBSET T |-> sum[s]]
<1>1. Adds(partial, part, T)
  BY DEF Adds
<1>2. IsFiniteSet(T)
  BY FS_Subset
<1> HIDE DEF partial
<1>3. SumFunction(part) = partial[T]
  BY <1>1, <1>2, SumIs
<1> QED
  BY <1>3 DEF partial

LEMMA SumType ==
    ASSUME NEW f, IsFiniteSet(DOMAIN f), \A x \in DOMAIN f : f[x] \in Int
    PROVE  SumFunction(f) \in Int
<1>1. PICK sum : Adds(sum, f, DOMAIN f)
  BY AdderExists
<1>2. SumFunction(f) = sum[DOMAIN f]
  BY <1>1, SumIs
<1> QED
  BY <1>1, <1>2 DEF Adds

LEMMA SumOfNone ==
    ASSUME NEW f, DOMAIN f = {}
    PROVE  SumFunction(f) = 0
<1>1. PICK sum : Adds(sum, f, DOMAIN f)
  BY AdderExists, FS_EmptySet
<1> QED
  BY <1>1, SumIs, FS_EmptySet DEF Adds

(* One more term. *)
LEMMA SumWith ==
    ASSUME NEW f, IsFiniteSet(DOMAIN f), \A x \in DOMAIN f : f[x] \in Int,
           NEW y \in DOMAIN f,
           NEW part, DOMAIN part = DOMAIN f \ {y}, \A x \in DOMAIN part : part[x] = f[x]
    PROVE  SumFunction(f) = f[y] + SumFunction(part)
<1>1. PICK sum : Adds(sum, f, DOMAIN f)
  BY AdderExists
<1>2. SumFunction(f) = sum[DOMAIN f]
  BY <1>1, SumIs
<1>3. SumFunction(part) = sum[DOMAIN part]
  BY <1>1, SumOfPart
<1> QED
  BY <1>1, <1>2, <1>3 DEF Adds

LEMMA SumPlus ==
    ASSUME NEW f, NEW g, NEW S, IsFiniteSet(S), DOMAIN f = S, DOMAIN g = S,
           \A x \in S : f[x] \in Int /\ g[x] \in Int
    PROVE  SumFunction([x \in S |-> f[x] + g[x]]) = SumFunction(f) + SumFunction(g)
<1> DEFINE both == [x \in S |-> f[x] + g[x]]
<1>1. PICK sum : Adds(sum, f, S)
  BY AdderExists
<1>2. PICK more : Adds(more, g, S)
  BY AdderExists
<1> DEFINE total == [s \in SUBSET S |-> sum[s] + more[s]]
<1>3. total \in [SUBSET S -> Int] /\ total[{}] = 0
  BY <1>1, <1>2 DEF Adds
<1>4. ASSUME NEW s \in SUBSET S, NEW x \in s
      PROVE  total[s] = both[x] + total[s \ {x}]
  <2>1. sum[s] = f[x] + sum[s \ {x}] /\ sum[s \ {x}] \in Int /\ f[x] \in Int
    BY <1>1 DEF Adds
  <2>2. more[s] = g[x] + more[s \ {x}] /\ more[s \ {x}] \in Int /\ g[x] \in Int
    BY <1>2 DEF Adds
  <2>3. total[s] = sum[s] + more[s] /\ total[s \ {x}] = sum[s \ {x}] + more[s \ {x}]
    OBVIOUS
  <2>4. both[x] = f[x] + g[x]
    OBVIOUS
  <2> HIDE DEF total, both
  <2> QED
    BY <2>1, <2>2, <2>3, <2>4
<1> HIDE DEF total, both
<1>5. Adds(total, both, S)
  BY <1>3, <1>4 DEF Adds
<1>6. SumFunction(both) = total[S]
  BY <1>5, SumIs DEF both
<1>7. SumFunction(f) = sum[S] /\ SumFunction(g) = more[S]
  BY <1>1, <1>2, SumIs
<1> QED
  BY <1>6, <1>7 DEF both, total

(* Terms that are 0 may be left out. *)
LEMMA SumOfTheRest ==
    ASSUME NEW f, IsFiniteSet(DOMAIN f), \A x \in DOMAIN f : f[x] \in Int,
           NEW part, DOMAIN part \subseteq DOMAIN f,
           \A x \in DOMAIN f : f[x] = IF x \in DOMAIN part THEN part[x] ELSE 0
    PROVE  SumFunction(f) = SumFunction(part)
<1> DEFINE S == DOMAIN f
           T == DOMAIN part
<1>1. PICK sum : Adds(sum, f, S)
  BY AdderExists
<1> DEFINE within == [s \in SUBSET S |-> sum[s \intersect T]]
<1>2. within \in [SUBSET S -> Int] /\ within[{}] = 0
  BY <1>1 DEF Adds
<1>3. ASSUME NEW s \in SUBSET S, NEW x \in s
      PROVE  within[s] = f[x] + within[s \ {x}]
  <2>1. CASE x \in T
    <3>1. (s \ {x}) \intersect T = (s \intersect T) \ {x}
      OBVIOUS
    <3> QED
      BY <1>1, <2>1, <3>1 DEF Adds
  <2>2. CASE x \notin T
    <3>1. (s \ {x}) \intersect T = s \intersect T /\ f[x] = 0 /\ within[s] \in Int
      BY <1>2, <2>2
    <3>2. within[s] = sum[s \intersect T] /\ within[s \ {x}] = sum[(s \ {x}) \intersect T]
      OBVIOUS
    <3> HIDE DEF within
    <3> QED
      BY <3>1, <3>2
  <2> QED
    BY <2>1, <2>2
<1> HIDE DEF within
<1>4. Adds(within, f, S)
  BY <1>2, <1>3 DEF Adds
<1>5. SumFunction(f) = within[S]
  BY <1>4, SumIs
<1>6. SumFunction(part) = sum[T]
  BY <1>1, SumOfPart
<1>7. S \intersect T = T
  OBVIOUS
<1> QED
  BY <1>5, <1>6, <1>7 DEF within

(* A finite set is as large as its parts are by what f tells them apart by. *)
LEMMA SumOfParts ==
    ASSUME NEW T, IsFiniteSet(T), NEW I, IsFiniteSet(I), NEW f, \A i \in I : f[i] \in T
    PROVE  SumFunction([t \in T |-> Cardinality({i \in I : f[i] = t})]) = Cardinality(I)
<1> DEFINE In(s) == {i \in I : f[i] \in s}
           size == [t \in T |-> Cardinality({i \in I : f[i] = t})]
           sum == [s \in SUBSET T |-> Cardinality(In(s))]
<1>1. ASSUME NEW s \in SUBSET T
      PROVE  IsFiniteSet(In(s)) /\ Cardinality(In(s)) \in Nat
  <2>1. In(s) \in SUBSET I
    OBVIOUS
  <2> QED
    BY <2>1, FS_Subset, FS_CardinalityType
<1>2. sum \in [SUBSET T -> Int] /\ sum[{}] = 0
  <2>1. In({}) = {}
    OBVIOUS
  <2>2. sum[{}] = 0
    BY <2>1, FS_EmptySet
  <2> HIDE DEF In
  <2> QED
    BY <1>1, <2>2
<1>3. ASSUME NEW s \in SUBSET T, NEW t \in s
      PROVE  sum[s] = size[t] + sum[s \ {t}]
  <2> DEFINE A == In({t})
             B == In(s \ {t})
  <2>1. A \union B = In(s) /\ A \intersect B = {}
    OBVIOUS
  <2>2. A = {i \in I : f[i] = t}
    OBVIOUS
  <2>3. size[t] = Cardinality(A) /\ sum[s] = Cardinality(In(s)) /\ sum[s \ {t}] = Cardinality(B)
    BY <2>2
  <2>4. IsFiniteSet(A) /\ IsFiniteSet(B) /\ Cardinality(A) \in Nat /\ Cardinality(B) \in Nat
    BY <1>1
  <2> HIDE DEF A, B, In, size, sum
  <2>5. Cardinality(A \union B) = Cardinality(A) + Cardinality(B) - Cardinality(A \intersect B)
    BY <2>4, FS_Union
  <2>6. Cardinality(A \intersect B) = 0
    BY <2>1, FS_EmptySet
  <2>7. Cardinality(A \union B) = Cardinality(A) + Cardinality(B)
    BY <2>4, <2>5, <2>6
  <2>8. Cardinality(A \union B) = Cardinality(In(s))
    BY <2>1
  <2> QED
    BY <2>3, <2>7, <2>8
<1> HIDE DEF sum, size
<1>4. Adds(sum, size, T)
  BY <1>2, <1>3 DEF Adds
<1>5. SumFunction(size) = sum[T]
  BY <1>4, SumIs DEF size
<1>6. In(T) = I
  OBVIOUS
<1> QED
  BY <1>5, <1>6 DEF sum, size

-----------------------------------------------------------------------------
(* What int16 leaves of a number is a quantity, equal to it but for a       *)
(* multiple of 2^16, and the number itself if that is a quantity.           *)
LEMMA WrapOf ==
    ASSUME NEW n \in Int
    PROVE  /\ Wrap(n) \in Quantities
           /\ (n - Wrap(n)) % (2 * Half) = 0
           /\ n \in Quantities => Wrap(n) = n
<1> DEFINE m == 2 * Half
           k == n + Half
<1>1. m \in Nat \ {0} /\ k \in Int /\ n = k - Half /\ Half \in Int
  BY HalfAssumption
<1>2. Wrap(n) = (k % m) - Half
  BY DEF Wrap
<1>3. m = 2 * Half
  OBVIOUS
<1> HIDE DEF m, k
<1>4. k % m \in 0 .. m - 1
  BY <1>1
<1>5. Wrap(n) \in Quantities
  BY <1>1, <1>2, <1>3, <1>4 DEF Quantities
<1>6. n - Wrap(n) = k - (k % m)
  BY <1>1, <1>2, <1>4
<1>7. (k - (k % m)) % m = 0
  <2>1. k \div m \in Int /\ k = (k \div m) * m + (k % m)
    BY <1>1
  <2> DEFINE d == k \div m
  <2> HIDE DEF d
  <2>2. d \in Int /\ k - (k % m) = d * m
    BY <1>1, <1>4, <2>1 DEF d
  <2>3. (d * m) % m = 0
    BY <1>1, <2>2
  <2> QED
    BY <2>2, <2>3
<1>8. n \in Quantities => Wrap(n) = n
  <2>1. n \in Quantities => k \in 0 .. m - 1
    BY <1>1, <1>3 DEF Quantities
  <2>2. k \in 0 .. m - 1 => k % m = k
    BY <1>1
  <2> QED
    BY <1>1, <1>2, <2>1, <2>2
<1> QED
  BY <1>3, <1>5, <1>6, <1>7, <1>8

-----------------------------------------------------------------------------
(* Searches *)

Fields == {"step", "lines", "slot", "found", "notFound"}

Shape ==
    /\ DOMAIN search = Searches
    /\ \A s \in Searches :
        /\ DOMAIN search[s] = Fields
        /\ search[s].lines \in Seq(Terms)
        /\ DOMAIN search[s].slot = Lines(s)
        /\ \A i \in Lines(s) : DOMAIN search[s].slot[i] = {"state", "held"}

(* The window of a search that asks holds the present. *)
WindowIsOpen ==
    /\ rows \in Holdings
    /\ window \in [Searches -> SUBSET Holdings]
    /\ \A s \in Searches : search[s].step = "query" => rows \in window[s]

(* A query read one state of the window. *)
ReadsAreOfWindow ==
    \A s \in Searches : \A i \in Lines(s) :
        search[s].slot[i].state = "read" =>
            \E past \in window[s] : search[s].slot[i].held = HeldIn(past, search[s].lines[i])

(* The merge misses no line, and stands. *)
MergedFromReads ==
    \A s \in Searches : Answered(s) =>
        /\ \A i \in Lines(s) : search[s].slot[i].state = "read"
        /\ search[s].found = FoundCards(s)
        /\ search[s].notFound = Missed(s)

IInv == Shape /\ WindowIsOpen /\ ReadsAreOfWindow /\ MergedFromReads

(* A query finds nothing where no list has a match. *)
LEMMA NothingHeld ==
    ASSUME NEW past \in Holdings, NEW term
    PROVE  HeldIn(past, term) = Nothing <=> ~Holds(past, term)
<1>1. ASSUME HeldIn(past, term) = Nothing, NEW l \in Lists, NEW c \in Cards, <<term, c>> \in Matches
      PROVE  past[l][c] = NoRow
  <2>1. HeldIn(past, term)[l][c] = past[l][c]
    BY <1>1 DEF HeldIn
  <2>2. Nothing[l][c] = NoRow
    BY DEF Nothing
  <2> QED
    BY <1>1, <2>1, <2>2
<1>2. ASSUME ~Holds(past, term)
      PROVE  HeldIn(past, term) = Nothing
  <2>1. ASSUME NEW l \in Lists, NEW c \in Cards, <<term, c>> \in Matches
        PROVE  past[l][c] = NoRow
    BY <1>2, <2>1 DEF Holds
  <2>2. ASSUME NEW l \in Lists
        PROVE  [c \in Cards |-> IF <<term, c>> \in Matches THEN past[l][c] ELSE NoRow]
                 = [c \in Cards |-> NoRow]
    BY <2>1
  <2>3. [l \in Lists |-> [c \in Cards |-> IF <<term, c>> \in Matches THEN past[l][c] ELSE NoRow]]
          = [l \in Lists |-> [c \in Cards |-> NoRow]]
    BY <2>2, Zenon
  <2> QED
    BY <2>3 DEF HeldIn, Nothing
<1> QED
  BY <1>1, <1>2 DEF Holds

LEMMA InitInv == Init => IInv
<1> SUFFICES ASSUME Init PROVE IInv
  OBVIOUS
<1>1. ASSUME NEW s \in Searches
      PROVE  /\ search[s] = NoSearch
             /\ Lines(s) = {} /\ DOMAIN search[s] = Fields
             /\ search[s].lines \in Seq(Terms) /\ DOMAIN search[s].slot = Lines(s)
  <2>1. search[s] = NoSearch
    BY DEF Init
  <2>2. search[s].lines = <<>> /\ search[s].slot = <<>>
    BY <2>1 DEF NoSearch
  <2>3. Lines(s) = {}
    BY <2>2 DEF Lines
  <2>4. DOMAIN search[s] = Fields
    BY <2>1 DEF NoSearch, Fields
  <2> QED
    BY <2>1, <2>2, <2>3, <2>4
<1>2. Shape
  BY <1>1 DEF Init, Shape
<1>3. WindowIsOpen
  <2>1. rows \in Holdings
    BY SavedAssumption DEF Init, Holdings
  <2>2. \A s \in Searches : search[s].step # "query"
    BY <1>1 DEF NoSearch
  <2> QED
    BY <2>1, <2>2 DEF Init, WindowIsOpen
<1>4. ReadsAreOfWindow /\ MergedFromReads
  BY <1>1 DEF ReadsAreOfWindow, MergedFromReads, Answered, NoSearch
<1> QED
  BY <1>2, <1>3, <1>4 DEF IInv

(* The merge depends on the slots alone. *)
LEMMA SameSlots ==
    ASSUME NEW s \in Searches,
           search'[s].lines = search[s].lines, search'[s].slot = search[s].slot
    PROVE  /\ (Lines(s))' = Lines(s)
           /\ (FoundCards(s))' = FoundCards(s) /\ (Missed(s))' = Missed(s)
<1>1. (Lines(s))' = Lines(s)
  BY DEF Lines
<1>2. (Missed(s))' = Missed(s)
  BY <1>1 DEF Missed
<1>3. ASSUME NEW l \in Lists, NEW c \in Cards
      PROVE  (Finders(s, l, c))' = Finders(s, l, c)
  BY <1>1 DEF Finders
<1>4. ASSUME NEW l \in Lists, NEW c \in Cards
      PROVE  [i \in Finders(s, l, c) |-> search[s].slot[i].held[l][c]]'
               = [i \in Finders(s, l, c) |-> search[s].slot[i].held[l][c]]
  BY <1>3
<1>5. (FoundCards(s))' = FoundCards(s)
  BY <1>3, <1>4, Zenon DEF FoundCards
<1> QED
  BY <1>1, <1>2, <1>5

(* A slot of a search that asks is filled, with what the query read now or  *)
(* with no reading.                                                        *)
LEMMA SlotSet ==
    ASSUME IInv, NEW s \in Searches, NEW i \in Lines(s), search[s].step = "query",
           NEW slot, DOMAIN slot = {"state", "held"},
           slot.state = "read" => slot.held = HeldIn(rows, search[s].lines[i]),
           search' = [search EXCEPT ![s].slot[i] = slot],
           rows' = rows, window' = window
    PROVE  IInv'
<1> USE DEF IInv
<1>1. /\ DOMAIN search' = Searches
      /\ \A r \in Searches \ {s} : search'[r] = search[r]
      /\ search'[s] = [search[s] EXCEPT !.slot = [search[s].slot EXCEPT ![i] = slot]]
  BY DEF Shape
<1>2. /\ DOMAIN search'[s] = Fields
      /\ search'[s].step = "query"
      /\ search'[s].lines = search[s].lines
      /\ search'[s].slot = [search[s].slot EXCEPT ![i] = slot]
  BY <1>1 DEF Shape, Fields
<1>3. /\ DOMAIN search'[s].slot = Lines(s)
      /\ search'[s].slot[i] = slot
      /\ \A j \in Lines(s) \ {i} : search'[s].slot[j] = search[s].slot[j]
  BY <1>2 DEF Shape
<1>4. \A r \in Searches : (Lines(r))' = Lines(r) /\ search'[r].lines = search[r].lines
                            /\ search'[r].step = search[r].step
  BY <1>1, <1>2 DEF Lines
<1>5. Shape'
  BY <1>1, <1>2, <1>3, <1>4 DEF Shape
<1>6. WindowIsOpen'
  BY <1>4 DEF WindowIsOpen
<1>7. ReadsAreOfWindow'
  <2>1. ASSUME NEW r \in Searches, NEW j \in Lines(r), search'[r].slot[j].state = "read"
        PROVE  \E past \in window[r] : search'[r].slot[j].held = HeldIn(past, search[r].lines[j])
    <3>1. CASE r = s /\ j = i
      BY <2>1, <1>3, <3>1 DEF WindowIsOpen
    <3>2. CASE ~(r = s /\ j = i)
      BY <2>1, <1>1, <1>3, <3>2 DEF ReadsAreOfWindow
    <3> QED
      BY <3>1, <3>2
  <2> QED
    BY <2>1, <1>4 DEF ReadsAreOfWindow
<1>8. MergedFromReads'
  BY <1>1, <1>2, <1>4 DEF MergedFromReads, Answered, FoundCards, Finders, Missed
<1> QED
  BY <1>5, <1>6, <1>7, <1>8

(* A search goes on from "query" or from "contacts", with its slots as they *)
(* are; if it is answered, then from the readings.                         *)
LEMMA StepSet ==
    ASSUME IInv, DOMAIN search' = Searches,
           \A s \in Searches :
               /\ DOMAIN search'[s] = Fields
               /\ search'[s].lines = search[s].lines
               /\ search'[s].slot = search[s].slot
               /\ search'[s].step = "query" => search[s].step = "query"
               /\ search'[s].step \in {"contacts", "shown"} =>
                    /\ \A i \in Lines(s) : search[s].slot[i].state = "read"
                    /\ search'[s].found = FoundCards(s)
                    /\ search'[s].notFound = Missed(s),
           rows' = rows, window' = window
    PROVE  IInv'
<1> USE DEF IInv
<1>1. ASSUME NEW s \in Searches
      PROVE  /\ (Lines(s))' = Lines(s)
             /\ (FoundCards(s))' = FoundCards(s) /\ (Missed(s))' = Missed(s)
  BY SameSlots
<1> QED
  BY <1>1 DEF Shape, WindowIsOpen, ReadsAreOfWindow, MergedFromReads, Answered

(* A step of another message, or none of Search, leaves a message alone.    *)
LEMMA NextInv == IInv /\ [Next]_vars => IInv'
<1> SUFFICES ASSUME IInv, [Next]_vars PROVE IInv'
  OBVIOUS
<1> USE DEF IInv
<1>1. ASSUME NEW l \in Lists, NEW cards \in Saved, Save(l, cards)
      PROVE  IInv'
  <2>1. rows' \in Holdings
    BY <1>1, SavedAssumption DEF Save, Holdings, WindowIsOpen
  <2>2. WindowIsOpen'
    BY <1>1, <2>1 DEF Save, WindowIsOpen
  <2>3. \A s \in Searches : window[s] \subseteq window'[s]
    BY <1>1 DEF Save, WindowIsOpen
  <2>4. ReadsAreOfWindow'
    BY <1>1, <2>3 DEF Save, ReadsAreOfWindow, Lines
  <2>5. ASSUME NEW s \in Searches
        PROVE  (Lines(s))' = Lines(s) /\ (FoundCards(s))' = FoundCards(s) /\ (Missed(s))' = Missed(s)
    BY <1>1, SameSlots DEF Save
  <2> QED
    BY <1>1, <2>2, <2>4, <2>5 DEF Save, Shape, MergedFromReads, Answered
<1>2. ASSUME NEW s \in Searches, NEW lines \in Messages, Ask(s, lines)
      PROVE  IInv'
  <2>1. lines \in Seq(Terms) /\ DOMAIN lines = 1 .. Len(lines)
    BY BoundsAssumption DEF Messages
  <2> DEFINE asked == [NoSearch EXCEPT !.step = "query", !.lines = lines,
                                       !.slot = [i \in DOMAIN lines |-> NotRun]]
  <2>2. /\ DOMAIN asked = Fields /\ asked.step = "query" /\ asked.lines = lines
        /\ asked.slot = [i \in DOMAIN lines |-> NotRun]
    BY DEF NoSearch, Fields
  <2>3. search'[s] = asked /\ \A r \in Searches \ {s} : search'[r] = search[r]
    BY <1>2 DEF Ask, Shape
  <2> HIDE DEF asked
  <2>4. window'[s] = {rows} /\ rows' = rows
    BY <1>2 DEF Ask, WindowIsOpen
  <2>5. \A r \in Searches \ {s} : window'[r] = window[r]
    BY <1>2 DEF Ask, WindowIsOpen
  <2>6. Shape'
    <3>1. DOMAIN search' = Searches
      BY <1>2 DEF Ask, Shape
    <3>2. (Lines(s))' = DOMAIN lines
      BY <2>1, <2>2, <2>3 DEF Lines
    <3> QED
      BY <2>1, <2>2, <2>3, <3>1, <3>2 DEF Shape, Lines, NotRun
  <2>7. WindowIsOpen'
    BY <1>2, <2>2, <2>3, <2>4, <2>5 DEF Ask, WindowIsOpen
  <2>8. ReadsAreOfWindow'
    BY <2>1, <2>2, <2>3, <2>5 DEF ReadsAreOfWindow, Lines, NotRun
  <2>9. MergedFromReads'
    <3>1. ASSUME NEW r \in Searches \ {s}
          PROVE  (Lines(r))' = Lines(r) /\ (FoundCards(r))' = FoundCards(r) /\ (Missed(r))' = Missed(r)
      BY <2>3, SameSlots
    <3> QED
      BY <2>2, <2>3, <3>1 DEF MergedFromReads, Answered
  <2> QED
    BY <2>6, <2>7, <2>8, <2>9
<1>3. ASSUME NEW s \in Searches, NEW i \in Lines(s), Query(s, i)
      PROVE  IInv'
  <2> DEFINE slot == [state |-> "read", held |-> HeldIn(rows, search[s].lines[i])]
  <2>1. /\ slot.state = "read" /\ slot.held = HeldIn(rows, search[s].lines[i])
        /\ DOMAIN slot = {"state", "held"}
    OBVIOUS
  <2>2. search' = [search EXCEPT ![s].slot[i] = slot]
    BY <1>3 DEF Query
  <2> HIDE DEF slot
  <2>3. search[s].step = "query" /\ rows' = rows /\ window' = window
    BY <1>3 DEF Query
  <2>4. slot.state = "read" => slot.held = HeldIn(rows, search[s].lines[i])
    BY <2>1
  <2> HIDE DEF IInv
  <2> QED
    BY <2>1, <2>2, <2>3, <2>4, SlotSet
<1>4. ASSUME NEW s \in Searches, NEW i \in Lines(s), QueryFails(s, i)
      PROVE  IInv'
  <2> DEFINE slot == [search[s].slot[i] EXCEPT !.state = "error"]
  <2>1. slot.state = "error" /\ DOMAIN slot = {"state", "held"}
    BY DEF Shape
  <2>2. search' = [search EXCEPT ![s].slot[i] = slot]
    BY <1>4 DEF QueryFails
  <2> HIDE DEF slot
  <2>3. search[s].step = "query" /\ rows' = rows /\ window' = window
    BY <1>4 DEF QueryFails
  <2>4. slot.state = "read" => slot.held = HeldIn(rows, search[s].lines[i])
    BY <2>1
  <2> HIDE DEF IInv
  <2> QED
    BY <2>1, <2>2, <2>3, <2>4, SlotSet
<1>5. ASSUME NEW s \in Searches, GiveUp(s)
      PROVE  IInv'
  <2>1. /\ DOMAIN search' = Searches
        /\ \A r \in Searches \ {s} : search'[r] = search[r]
        /\ search'[s] = [search[s] EXCEPT !.step = "failed"]
    BY <1>5 DEF GiveUp, Set, Shape
  <2>2. /\ DOMAIN search'[s] = Fields /\ search'[s].step = "failed"
        /\ search'[s].lines = search[s].lines /\ search'[s].slot = search[s].slot
    BY <2>1 DEF Shape, Fields
  <2> QED
    BY <1>5, <2>1, <2>2, StepSet DEF GiveUp, Shape, MergedFromReads, Answered
<1>6. ASSUME NEW s \in Searches, Merge(s)
      PROVE  IInv'
  <2>1. \A i \in Lines(s) : search[s].slot[i].state = "read"
    BY <1>6 DEF Merge, Waited, Failed
  <2> DEFINE next == IF FoundCards(s) = Nothing THEN "shown" ELSE "contacts"
  <2>2. /\ DOMAIN search' = Searches
        /\ \A r \in Searches \ {s} : search'[r] = search[r]
        /\ search'[s] = [search[s] EXCEPT !.found = FoundCards(s), !.notFound = Missed(s), !.step = next]
    BY <1>6 DEF Merge, Shape
  <2>3. next \in {"shown", "contacts"}
    OBVIOUS
  <2> HIDE DEF next
  <2>4. /\ DOMAIN search'[s] = Fields /\ search'[s].step = next /\ search'[s].notFound = Missed(s)
        /\ search'[s].lines = search[s].lines /\ search'[s].slot = search[s].slot
    BY <2>2 DEF Shape, Fields
  <2> QED
    BY <1>6, <2>1, <2>2, <2>3, <2>4, StepSet DEF Merge, Shape, MergedFromReads, Answered
<1>7. ASSUME NEW s \in Searches, AttachContacts(s)
      PROVE  IInv'
  <2>1. /\ DOMAIN search' = Searches
        /\ \A r \in Searches \ {s} : search'[r] = search[r]
        /\ search'[s] = [search[s] EXCEPT !.step = "shown"]
    BY <1>7 DEF AttachContacts, Set, Shape
  <2>2. /\ DOMAIN search'[s] = Fields /\ search'[s].step = "shown"
        /\ search'[s].lines = search[s].lines /\ search'[s].slot = search[s].slot
        /\ search'[s].found = search[s].found /\ search'[s].notFound = search[s].notFound
    BY <2>1 DEF Shape, Fields
  <2>3. /\ \A i \in Lines(s) : search[s].slot[i].state = "read"
        /\ search[s].found = FoundCards(s) /\ search[s].notFound = Missed(s)
    BY <1>7 DEF AttachContacts, MergedFromReads, Answered
  <2> QED
    BY <1>7, <2>1, <2>2, <2>3, StepSet DEF AttachContacts, Shape, MergedFromReads, Answered
<1>8. ASSUME Crash
      PROVE  IInv'
  <2>1. DOMAIN search' = Searches
    BY <1>8 DEF Crash
  <2>2. ASSUME NEW s \in Searches
        PROVE  \/ search'[s] = search[s]
               \/ /\ DOMAIN search'[s] = Fields /\ search'[s].step = "gone"
                  /\ search'[s].lines = search[s].lines /\ search'[s].slot = search[s].slot
    BY <1>8 DEF Crash, Shape, Fields
  <2> QED
    BY <1>8, <2>1, <2>2, StepSet DEF Crash, Shape, MergedFromReads, Answered
<1>9. ASSUME UNCHANGED <<rows, search, window>>
      PROVE  IInv'
  <2>1. \A s \in Searches :
            /\ (Lines(s))' = Lines(s)
            /\ (FoundCards(s))' = FoundCards(s) /\ (Missed(s))' = Missed(s)
    BY <1>9, SameSlots
  <2> QED
    BY <1>9, <2>1 DEF Shape, WindowIsOpen, ReadsAreOfWindow, MergedFromReads, Answered
<1>10. ASSUME NEW s \in Searches, RecordSearch(s) \/ RecordSearchFails(s)
       PROVE  UNCHANGED <<rows, search, window>>
  BY <1>10 DEF RecordSearch, RecordSearchFails
<1>11. ASSUME vars' = vars PROVE UNCHANGED <<rows, search, window>>
  BY <1>11 DEF vars
<1> QED
  BY <1>1, <1>2, <1>3, <1>4, <1>5, <1>6, <1>7, <1>8, <1>9, <1>10, <1>11 DEF Next, Run

(* A line is reported as not found only if, at some moment of the search,   *)
(* no list had a card for it, and is passed over only if one had.           *)
THEOREM MissesAreTrue == Spec => []MissesWereTrue
<1>1. IInv => MissesWereTrue
  <2> SUFFICES ASSUME IInv, NEW s \in Searches, Answered(s), NEW i \in Lines(s)
               PROVE  IF i \in search[s].notFound
                        THEN \E past \in window[s] : ~Holds(past, search[s].lines[i])
                        ELSE \E past \in window[s] : Holds(past, search[s].lines[i])
    BY DEF MissesWereTrue
  <2>1. PICK past \in window[s] : search[s].slot[i].held = HeldIn(past, search[s].lines[i])
    BY DEF IInv, MergedFromReads, ReadsAreOfWindow
  <2>2. past \in Holdings
    BY <2>1 DEF IInv, WindowIsOpen
  <2>3. i \in search[s].notFound <=> search[s].slot[i].held = Nothing
    BY DEF IInv, MergedFromReads, Missed
  <2> QED
    BY <2>1, <2>2, <2>3, NothingHeld
<1> QED
  BY <1>1, InitInv, NextInv, PTL DEF Spec

-----------------------------------------------------------------------------
(* What TypeOK says of one message, and that only a merged one is counted,  *)
(* from slots that stay as they were read.                                 *)
MessageOK(s) ==
    /\ search[s].step \in {"idle", "query", "contacts", "shown", "failed", "gone"}
    /\ Len(search[s].lines) <= MaxLines
    /\ \A i \in Lines(s) : search[s].slot[i] \in Slot
    /\ search[s].found \in Holdings
    /\ search[s].notFound \subseteq Lines(s)
    /\ counting[s] \in {"none", "waiting", "done", "lost"}
    /\ search[s].step \in {"contacts", "shown"} => counting[s] # "none"
    /\ counting[s] # "none" =>
        /\ search[s].step \in {"contacts", "shown", "gone"}
        /\ \A i \in Lines(s) : search[s].slot[i].state = "read"

CountersOK ==
    /\ stats \in [Terms -> [hits : Nat, misses : Nat]]
    /\ daily \in [searches : Nat, misses : Nat]
    /\ saves \in 0 .. MaxSaves

TypeInv ==
    /\ DOMAIN counting = Searches
    /\ \A s \in Searches : MessageOK(s)
    /\ CountersOK

LEMMA NothingType == Nothing \in Holdings
BY DEF Nothing, Holdings

LEMMA HeldInType ==
    ASSUME NEW past \in Holdings, NEW term
    PROVE  HeldIn(past, term) \in Holdings
BY DEF HeldIn, Holdings

LEMMA LinesFinite ==
    ASSUME Shape, NEW s \in Searches
    PROVE  /\ IsFiniteSet(Lines(s)) /\ Cardinality(Lines(s)) = Len(search[s].lines)
           /\ Len(search[s].lines) \in Nat
<1>1. Len(search[s].lines) \in Nat
  BY DEF Shape
<1> QED
  BY <1>1, FS_Interval DEF Lines

(* What a line found is a quantity, and so is what the lines found. *)
LEMMA FoundType ==
    ASSUME IInv, NEW s \in Searches, MessageOK(s), NEW l \in Lists, NEW c \in Cards
    PROVE  SumFunction([i \in Finders(s, l, c) |-> search[s].slot[i].held[l][c]]) \in Int
<1> DEFINE f == [i \in Finders(s, l, c) |-> search[s].slot[i].held[l][c]]
<1>1. Finders(s, l, c) \subseteq Lines(s)
  BY DEF Finders
<1>2. IsFiniteSet(DOMAIN f)
  BY <1>1, LinesFinite, FS_Subset DEF IInv
<1>3. \A i \in DOMAIN f : f[i] \in Int
  BY <1>1, HalfAssumption DEF MessageOK, Slot, Holdings, Finders, Quantities
<1> HIDE DEF f
<1>4. SumFunction(f) \in Int
  BY <1>2, <1>3, SumType
<1> QED
  BY <1>4 DEF f

LEMMA FoundCardsType ==
    ASSUME IInv, NEW s \in Searches, MessageOK(s)
    PROVE  FoundCards(s) \in Holdings
<1>1. ASSUME NEW l \in Lists, NEW c \in Cards
      PROVE  Wrap(SumFunction([i \in Finders(s, l, c) |-> search[s].slot[i].held[l][c]])) \in Quantities
  BY FoundType, WrapOf
<1> QED
  BY <1>1 DEF FoundCards, Holdings

LEMMA InitTypeInv == Init => TypeInv
<1> SUFFICES ASSUME Init PROVE TypeInv
  OBVIOUS
<1>1. \A s \in Searches : MessageOK(s)
  <2> SUFFICES ASSUME NEW s \in Searches PROVE MessageOK(s)
    OBVIOUS
  <2>1. search[s] = NoSearch /\ counting[s] = "none"
    BY DEF Init
  <2>2. search[s].lines = <<>> /\ search[s].step = "idle" /\ search[s].found = Nothing
        /\ search[s].notFound = {}
    BY <2>1 DEF NoSearch
  <2>3. Lines(s) = {} /\ Len(search[s].lines) = 0
    BY <2>2 DEF Lines
  <2> QED
    BY <2>1, <2>2, <2>3, NothingType, BoundsAssumption DEF MessageOK
<1>2. CountersOK
  BY BoundsAssumption DEF Init, CountersOK
<1> QED
  BY <1>1, <1>2 DEF Init, TypeInv

(* A step of one message leaves the others as they are. *)
LEMMA OneMessage ==
    ASSUME TypeInv, NEW s \in Searches,
           \A r \in Searches \ {s} : search'[r] = search[r] /\ counting'[r] = counting[r],
           DOMAIN counting' = Searches, MessageOK(s)', CountersOK'
    PROVE  TypeInv'
<1>1. ASSUME NEW r \in Searches \ {s} PROVE MessageOK(r)'
  BY DEF TypeInv, MessageOK, Lines
<1> QED
  BY <1>1 DEF TypeInv

LEMMA SlotTyped ==
    ASSUME IInv, TypeInv, NEW s \in Searches, NEW i \in Lines(s), search[s].step = "query",
           NEW slot \in Slot,
           search' = [search EXCEPT ![s].slot[i] = slot],
           UNCHANGED <<counting, stats, daily, saves>>
    PROVE  TypeInv'
<1>1. /\ \A r \in Searches \ {s} : search'[r] = search[r]
      /\ search'[s] = [search[s] EXCEPT !.slot = [search[s].slot EXCEPT ![i] = slot]]
  BY DEF IInv, Shape
<1>2. /\ search'[s].step = search[s].step /\ search'[s].lines = search[s].lines
      /\ search'[s].found = search[s].found /\ search'[s].notFound = search[s].notFound
      /\ search'[s].slot = [search[s].slot EXCEPT ![i] = slot]
  BY <1>1 DEF IInv, Shape, Fields
<1>3. (Lines(s))' = Lines(s) /\ \A j \in Lines(s) : search'[s].slot[j] \in Slot
  BY <1>2 DEF IInv, Shape, TypeInv, MessageOK, Lines
<1>4. MessageOK(s)'
  BY <1>2, <1>3 DEF TypeInv, MessageOK
<1> QED
  BY <1>1, <1>4, OneMessage DEF TypeInv, CountersOK

LEMMA NextTypeInv == IInv /\ TypeInv /\ [Next]_vars => TypeInv'
<1> SUFFICES ASSUME IInv, TypeInv, [Next]_vars PROVE TypeInv'
  OBVIOUS
<1>1. ASSUME NEW l \in Lists, NEW cards \in Saved, Save(l, cards)
      PROVE  TypeInv'
  BY <1>1, BoundsAssumption DEF Save, TypeInv, MessageOK, Lines, CountersOK
<1>2. ASSUME NEW s \in Searches, NEW lines \in Messages, Ask(s, lines)
      PROVE  TypeInv'
  <2>1. lines \in Seq(Terms) /\ DOMAIN lines = 1 .. Len(lines) /\ Len(lines) <= MaxLines
    BY BoundsAssumption DEF Messages
  <2> DEFINE asked == [NoSearch EXCEPT !.step = "query", !.lines = lines,
                                       !.slot = [i \in DOMAIN lines |-> NotRun]]
  <2>2. /\ asked.step = "query" /\ asked.lines = lines /\ asked.found = Nothing
        /\ asked.notFound = {} /\ asked.slot = [i \in DOMAIN lines |-> NotRun]
    BY DEF NoSearch
  <2>3. search'[s] = asked /\ \A r \in Searches \ {s} : search'[r] = search[r]
    BY <1>2 DEF Ask, IInv, Shape
  <2> HIDE DEF asked
  <2>4. (Lines(s))' = DOMAIN lines
    BY <2>1, <2>2, <2>3 DEF Lines
  <2>5. NotRun \in Slot
    BY NothingType DEF NotRun, Slot
  <2>6. counting'[s] = "none"
    BY <1>2 DEF Ask, TypeInv, MessageOK
  <2>7. MessageOK(s)'
    BY <2>1, <2>2, <2>3, <2>4, <2>5, <2>6, NothingType DEF MessageOK
  <2> QED
    BY <1>2, <2>3, <2>7, OneMessage DEF Ask, TypeInv, CountersOK
<1>3. ASSUME NEW s \in Searches, NEW i \in Lines(s), Query(s, i)
      PROVE  TypeInv'
  <2> DEFINE slot == [state |-> "read", held |-> HeldIn(rows, search[s].lines[i])]
  <2>1. slot \in Slot
    BY HeldInType DEF IInv, WindowIsOpen, Slot
  <2>2. search' = [search EXCEPT ![s].slot[i] = slot]
    BY <1>3 DEF Query
  <2> HIDE DEF slot
  <2>3. search[s].step = "query" /\ UNCHANGED <<counting, stats, daily, saves>>
    BY <1>3 DEF Query
  <2> QED
    BY <2>1, <2>2, <2>3, SlotTyped
<1>4. ASSUME NEW s \in Searches, NEW i \in Lines(s), QueryFails(s, i)
      PROVE  TypeInv'
  <2> DEFINE slot == [search[s].slot[i] EXCEPT !.state = "error"]
  <2>1. slot \in Slot
    BY DEF TypeInv, MessageOK, Slot
  <2>2. search' = [search EXCEPT ![s].slot[i] = slot]
    BY <1>4 DEF QueryFails
  <2> HIDE DEF slot
  <2>3. search[s].step = "query" /\ UNCHANGED <<counting, stats, daily, saves>>
    BY <1>4 DEF QueryFails
  <2> QED
    BY <2>1, <2>2, <2>3, SlotTyped
<1>5. ASSUME NEW s \in Searches, GiveUp(s)
      PROVE  TypeInv'
  <2>1. /\ \A r \in Searches \ {s} : search'[r] = search[r]
        /\ search'[s] = [search[s] EXCEPT !.step = "failed"]
    BY <1>5 DEF GiveUp, Set, IInv, Shape
  <2>2. /\ search'[s].step = "failed" /\ search'[s].lines = search[s].lines
        /\ search'[s].slot = search[s].slot /\ search'[s].found = search[s].found
        /\ search'[s].notFound = search[s].notFound
    BY <2>1 DEF IInv, Shape, Fields
  <2>3. (Lines(s))' = Lines(s) /\ counting'[s] = "none" /\ search[s].step = "query"
    BY <1>5, <2>2 DEF Lines, GiveUp, Waited, TypeInv, MessageOK
  <2>4. MessageOK(s)'
    BY <2>2, <2>3 DEF TypeInv, MessageOK
  <2> QED
    BY <1>5, <2>1, <2>4, OneMessage DEF GiveUp, TypeInv, CountersOK
<1>6. ASSUME NEW s \in Searches, Merge(s)
      PROVE  TypeInv'
  <2>1. \A i \in Lines(s) : search[s].slot[i].state = "read"
    BY <1>6 DEF Merge, Waited, Failed
  <2> DEFINE next == IF FoundCards(s) = Nothing THEN "shown" ELSE "contacts"
  <2>2. /\ \A r \in Searches \ {s} : search'[r] = search[r]
        /\ search'[s] = [search[s] EXCEPT !.found = FoundCards(s), !.notFound = Missed(s), !.step = next]
    BY <1>6 DEF Merge, IInv, Shape
  <2>3. next \in {"shown", "contacts"}
    OBVIOUS
  <2> HIDE DEF next
  <2>4. /\ search'[s].step = next /\ search'[s].lines = search[s].lines
        /\ search'[s].slot = search[s].slot /\ search'[s].found = FoundCards(s)
        /\ search'[s].notFound = Missed(s)
    BY <2>2 DEF IInv, Shape, Fields
  <2>5. (Lines(s))' = Lines(s) /\ Missed(s) \subseteq Lines(s) /\ FoundCards(s) \in Holdings
    BY <2>4, FoundCardsType DEF Lines, Missed, TypeInv
  <2>6. /\ counting'[s] = "waiting" /\ DOMAIN counting' = Searches
        /\ \A r \in Searches \ {s} : counting'[r] = counting[r]
    BY <1>6 DEF Merge, TypeInv
  <2>7. MessageOK(s)'
    BY <2>1, <2>3, <2>4, <2>5, <2>6 DEF TypeInv, MessageOK
  <2> QED
    BY <1>6, <2>2, <2>6, <2>7, OneMessage DEF Merge, TypeInv, CountersOK
<1>7. ASSUME NEW s \in Searches, AttachContacts(s)
      PROVE  TypeInv'
  <2>1. /\ \A r \in Searches \ {s} : search'[r] = search[r]
        /\ search'[s] = [search[s] EXCEPT !.step = "shown"]
    BY <1>7 DEF AttachContacts, Set, IInv, Shape
  <2>2. /\ search'[s].step = "shown" /\ search'[s].lines = search[s].lines
        /\ search'[s].slot = search[s].slot /\ search'[s].found = search[s].found
        /\ search'[s].notFound = search[s].notFound
    BY <2>1 DEF IInv, Shape, Fields
  <2>3. (Lines(s))' = Lines(s) /\ counting'[s] = counting[s] /\ search[s].step = "contacts"
    BY <1>7, <2>2 DEF Lines, AttachContacts
  <2>4. MessageOK(s)'
    BY <2>2, <2>3 DEF TypeInv, MessageOK
  <2> QED
    BY <1>7, <2>1, <2>4, OneMessage DEF AttachContacts, TypeInv, CountersOK
<1>8. ASSUME Crash
      PROVE  TypeInv'
  <2>1. ASSUME NEW s \in Searches
        PROVE  MessageOK(s)'
    <3>1. \/ search'[s] = search[s] /\ search[s].step \notin {"query", "contacts"}
          \/ /\ search'[s].step = "gone" /\ search'[s].lines = search[s].lines
             /\ search'[s].slot = search[s].slot /\ search'[s].found = search[s].found
             /\ search'[s].notFound = search[s].notFound
             /\ search[s].step \in {"query", "contacts"}
      BY <1>8 DEF Crash, IInv, Shape, Fields
    <3>2. counting'[s] = IF counting[s] = "waiting" THEN "lost" ELSE counting[s]
      BY <1>8 DEF Crash
    <3>3. (Lines(s))' = Lines(s)
      BY <3>1 DEF Lines
    <3> QED
      BY <3>1, <3>2, <3>3 DEF TypeInv, MessageOK
  <2> QED
    BY <1>8, <2>1 DEF Crash, TypeInv, CountersOK
<1>9. ASSUME NEW s \in Searches, RecordSearch(s)
      PROVE  TypeInv'
  <2>1. Counted(s) \subseteq Lines(s) /\ IsFiniteSet(Lines(s))
    BY LinesFinite DEF Counted, IInv
  <2>2. \A part \in SUBSET Lines(s) : Cardinality(part) \in Nat
    BY <2>1, FS_Subset, FS_CardinalityType
  <2>3. StatsAfter(s) \in [Terms -> [hits : Nat, misses : Nat]]
    <3>1. ASSUME NEW t \in Terms
          PROVE  /\ stats[t].hits + Cardinality(CountedAs(s, t) \ search[s].notFound) \in Nat
                 /\ stats[t].misses + Cardinality(CountedAs(s, t) \intersect search[s].notFound) \in Nat
      BY <2>1, <2>2 DEF CountedAs, TypeInv, CountersOK
    <3> QED
      BY <3>1 DEF StatsAfter
  <2>4. /\ daily.searches + Cardinality(Counted(s)) \in Nat
        /\ daily.misses + Cardinality(Counted(s) \intersect search[s].notFound) \in Nat
    BY <2>1, <2>2 DEF TypeInv, CountersOK
  <2>5. CountersOK'
    BY <1>9, <2>3, <2>4 DEF RecordSearch, CountersOK, TypeInv
  <2>6. /\ counting'[s] = "done" /\ DOMAIN counting' = Searches
        /\ \A r \in Searches \ {s} : counting'[r] = counting[r]
        /\ search' = search /\ counting[s] = "waiting"
    BY <1>9 DEF RecordSearch, TypeInv
  <2>7. MessageOK(s)'
    BY <2>6 DEF TypeInv, MessageOK, Lines
  <2> QED
    BY <2>5, <2>6, <2>7, OneMessage
<1>10. ASSUME NEW s \in Searches, RecordSearchFails(s)
       PROVE  TypeInv'
  <2>1. /\ counting'[s] = "lost" /\ DOMAIN counting' = Searches
        /\ \A r \in Searches \ {s} : counting'[r] = counting[r]
        /\ search' = search /\ counting[s] = "waiting"
    BY <1>10 DEF RecordSearchFails, TypeInv
  <2>2. MessageOK(s)'
    BY <2>1 DEF TypeInv, MessageOK, Lines
  <2> QED
    BY <1>10, <2>1, <2>2, OneMessage DEF RecordSearchFails, TypeInv, CountersOK
<1>11. ASSUME vars' = vars PROVE TypeInv'
  BY <1>11 DEF vars, TypeInv, MessageOK, Lines, CountersOK
<1> QED
  BY <1>1, <1>2, <1>3, <1>4, <1>5, <1>6, <1>7, <1>8, <1>9, <1>10, <1>11 DEF Next, Run

(* Slots hold what a list may hold, what is found is an int16, counters are *)
(* natural numbers, and a message that is answered was handed to Demand.    *)
THEOREM Typing == Spec => []TypeOK
<1>1. IInv /\ TypeInv => TypeOK
  <2> SUFFICES ASSUME IInv, TypeInv PROVE TypeOK
    OBVIOUS
  <2>1. rows \in Holdings
    BY DEF IInv, WindowIsOpen
  <2>2. ASSUME NEW s \in Searches
        PROVE  /\ \A i \in 1 .. Len(search[s].lines) : search[s].lines[i] \in Terms
               /\ DOMAIN search[s].slot = 1 .. Len(search[s].lines)
               /\ window[s] \subseteq Holdings
               /\ Lines(s) = 1 .. Len(search[s].lines)
    BY DEF IInv, Shape, WindowIsOpen, Lines
  <2> QED
    BY <2>1, <2>2 DEF TypeInv, MessageOK, CountersOK, TypeOK
<1> QED
  BY <1>1, InitInv, NextInv, InitTypeInv, NextTypeInv, PTL DEF Spec

-----------------------------------------------------------------------------
(* The copies shown of a card are, to a multiple of 2^16 and exactly where  *)
(* an int16 holds it, the sum of what the lines that found it read, each    *)
(* from one state of the lists that were stored during the search.          *)
THEOREM AnswersAreTrue == Spec => []AnswerWasTrue
<1>1. IInv /\ TypeInv => AnswerWasTrue
  <2> SUFFICES ASSUME IInv, TypeInv, NEW s \in Searches, Answered(s)
               PROVE  \E past \in [Lines(s) -> window[s]] :
                        /\ \A l \in Lists, c \in Cards :
                            LET had == {i \in Asks(s, c) : past[i][l][c] # NoRow}
                            IN  Shows(search[s].found[l][c], [i \in had |-> past[i][l][c]])
                        /\ search[s].notFound = {i \in Lines(s) : ~Holds(past[i], search[s].lines[i])}
    BY DEF AnswerWasTrue
  <2> DEFINE slot == search[s].slot
             past == [i \in Lines(s) |->
                        CHOOSE p \in window[s] : slot[i].held = HeldIn(p, search[s].lines[i])]
  <2>1. ASSUME NEW i \in Lines(s)
        PROVE  /\ past[i] \in window[s] /\ past[i] \in Holdings
               /\ slot[i].held = HeldIn(past[i], search[s].lines[i])
    <3>1. \E p \in window[s] : slot[i].held = HeldIn(p, search[s].lines[i])
      BY DEF IInv, MergedFromReads, ReadsAreOfWindow
    <3>2. past[i] \in window[s] /\ slot[i].held = HeldIn(past[i], search[s].lines[i])
      BY <3>1
    <3> QED
      BY <3>2 DEF IInv, WindowIsOpen
  <2> HIDE DEF past
  <2>2. past \in [Lines(s) -> window[s]]
    BY <2>1 DEF past
  <2>3. search[s].notFound = {i \in Lines(s) : ~Holds(past[i], search[s].lines[i])}
    BY <2>1, NothingHeld DEF IInv, MergedFromReads, Missed
  <2>4. ASSUME NEW l \in Lists, NEW c \in Cards
        PROVE  LET had == {i \in Asks(s, c) : past[i][l][c] # NoRow}
               IN  Shows(search[s].found[l][c], [i \in had |-> past[i][l][c]])
    <3> DEFINE had == {i \in Asks(s, c) : past[i][l][c] # NoRow}
               held == [i \in had |-> past[i][l][c]]
               read == [i \in Finders(s, l, c) |-> slot[i].held[l][c]]
    <3>1. ASSUME NEW i \in Lines(s)
          PROVE  slot[i].held[l][c] = IF i \in Asks(s, c) THEN past[i][l][c] ELSE NoRow
      <4>1. HeldIn(past[i], search[s].lines[i])[l][c]
              = IF <<search[s].lines[i], c>> \in Matches THEN past[i][l][c] ELSE NoRow
        BY DEF HeldIn
      <4> QED
        BY <2>1, <4>1 DEF Asks
    <3>2. Finders(s, l, c) = had
      BY <3>1 DEF Finders, Asks
    <3>3. read = held
      BY <3>1, <3>2 DEF Asks
    <3>4. search[s].found[l][c] = IF had = {} THEN NoRow ELSE Wrap(SumFunction(held))
      <4>1. search[s].found = FoundCards(s)
        BY DEF IInv, MergedFromReads
      <4>2. FoundCards(s)[l][c] = IF Finders(s, l, c) = {} THEN NoRow ELSE Wrap(SumFunction(read))
        BY DEF FoundCards
      <4> QED
        BY <3>2, <3>3, <4>1, <4>2
    <3>5. SumFunction(held) \in Int
      BY <3>3, FoundType DEF TypeInv
    <3>6. DOMAIN held = had
      OBVIOUS
    <3> HIDE DEF held, had, read
    <3>7. Shows(search[s].found[l][c], held)
      BY <3>4, <3>5, <3>6, WrapOf DEF Shows
    <3> QED
      BY <3>7 DEF held, had
  <2> QED
    BY <2>2, <2>3, <2>4
<1> QED
  BY <1>1, InitInv, NextInv, InitTypeInv, NextTypeInv, PTL DEF Spec

-----------------------------------------------------------------------------
(* A message that RecordSearch counts is one more, and its lines are spread *)
(* over the terms.                                                         *)
LEMMA CountsAddUp ==
    ASSUME IInv, TypeInv, NEW s \in Searches
    PROVE  /\ SumFunction([t \in Terms |-> Cardinality(CountedAs(s, t))]) = Cardinality(Counted(s))
           /\ SumFunction([t \in Terms |-> Cardinality(CountedAs(s, t) \intersect search[s].notFound)])
                = Cardinality(Counted(s) \intersect search[s].notFound)
           /\ \A part \in SUBSET Lines(s) : IsFiniteSet(part) /\ Cardinality(part) \in Nat
<1> DEFINE f == search[s].lines
           missed == search[s].notFound
<1>1. \A part \in SUBSET Lines(s) : IsFiniteSet(part) /\ Cardinality(part) \in Nat
  BY LinesFinite, FS_Subset, FS_CardinalityType DEF IInv
<1>2. Counted(s) \subseteq Lines(s) /\ \A i \in Lines(s) : f[i] \in Terms
  BY DEF Counted, IInv, Shape, Lines
<1>3. ASSUME NEW I \in SUBSET Lines(s)
      PROVE  SumFunction([t \in Terms |-> Cardinality({i \in I : f[i] = t})]) = Cardinality(I)
  BY <1>1, <1>2, FiniteAssumption, SumOfParts
<1>4. ASSUME NEW t \in Terms
      PROVE  /\ CountedAs(s, t) = {i \in Counted(s) : f[i] = t}
             /\ CountedAs(s, t) \intersect missed = {i \in Counted(s) \intersect missed : f[i] = t}
  BY DEF CountedAs
<1>5. /\ [t \in Terms |-> Cardinality(CountedAs(s, t))]
           = [t \in Terms |-> Cardinality({i \in Counted(s) : f[i] = t})]
      /\ [t \in Terms |-> Cardinality(CountedAs(s, t) \intersect missed)]
           = [t \in Terms |-> Cardinality({i \in Counted(s) \intersect missed : f[i] = t})]
  BY <1>4
<1>6. Counted(s) \in SUBSET Lines(s) /\ Counted(s) \intersect missed \in SUBSET Lines(s)
  BY <1>2
<1> QED
  BY <1>1, <1>3, <1>5, <1>6

(* Nothing but RecordSearch counts. *)
LEMMA NothingCounted ==
    ASSUME IInv, TypeInv, DemandAddsUp, UNCHANGED <<stats, daily>>,
           \A s \in Searches :
               /\ counting'[s] = "done" <=> counting[s] = "done"
               /\ counting[s] = "done" =>
                    search'[s].lines = search[s].lines /\ search'[s].slot = search[s].slot
    PROVE  DemandAddsUp'
<1> DEFINE counted == {s \in Searches : counting[s] = "done"}
<1>1. counted' = counted
  OBVIOUS
<1>2. ASSUME NEW s \in counted
      PROVE  (Lines(s))' = Lines(s) /\ (Counted(s))' = Counted(s) /\ (Failed(s))' = Failed(s)
  BY DEF Lines, Counted, Failed
<1>3. [s \in counted |-> Cardinality(Counted(s))]' = [s \in counted |-> Cardinality(Counted(s))]
  BY <1>1, <1>2
<1> QED
  BY <1>1, <1>2, <1>3 DEF DemandAddsUp

LEMMA RecordSearchAddsUp ==
    ASSUME IInv, TypeInv, DemandAddsUp, NEW s \in Searches, RecordSearch(s)
    PROVE  DemandAddsUp'
<1> DEFINE missed == search[s].notFound
           added == [t \in Terms |-> Cardinality(CountedAs(s, t))]
           addedMisses == [t \in Terms |-> Cardinality(CountedAs(s, t) \intersect missed)]
           counted == {r \in Searches : counting[r] = "done"}
<1>1. /\ SumFunction(added) = Cardinality(Counted(s))
      /\ SumFunction(addedMisses) = Cardinality(Counted(s) \intersect missed)
      /\ \A part \in SUBSET Lines(s) : IsFiniteSet(part) /\ Cardinality(part) \in Nat
  BY CountsAddUp
<1>2. ASSUME NEW t \in Terms
      PROVE  /\ stats[t].hits \in Int /\ stats[t].misses \in Int
             /\ added[t] \in Int /\ addedMisses[t] \in Int
             /\ stats'[t].misses = stats[t].misses + addedMisses[t]
             /\ stats'[t].hits + stats'[t].misses = (stats[t].hits + stats[t].misses) + added[t]
  <2> DEFINE A == CountedAs(s, t) \ missed
             B == CountedAs(s, t) \intersect missed
  <2>1. CountedAs(s, t) \in SUBSET Lines(s) /\ A \in SUBSET Lines(s) /\ B \in SUBSET Lines(s)
    BY DEF CountedAs, Counted
  <2>2. /\ IsFiniteSet(A) /\ IsFiniteSet(B)
        /\ Cardinality(A) \in Nat /\ Cardinality(B) \in Nat /\ Cardinality(CountedAs(s, t)) \in Nat
    BY <1>1, <2>1
  <2>3. Cardinality(A \union B) = Cardinality(A) + Cardinality(B) - Cardinality(A \intersect B)
    BY <2>2, FS_Union
  <2>4. A \union B = CountedAs(s, t) /\ A \intersect B = {}
    OBVIOUS
  <2>5. Cardinality(CountedAs(s, t)) = Cardinality(A) + Cardinality(B)
    <3> HIDE DEF A, B
    <3>1. Cardinality(A \intersect B) = 0
      BY <2>4, FS_EmptySet
    <3>2. Cardinality(A \union B) = Cardinality(CountedAs(s, t))
      BY <2>4
    <3> QED
      BY <2>2, <2>3, <3>1, <3>2
  <2>6. stats'[t] = [hits |-> stats[t].hits + Cardinality(A), misses |-> stats[t].misses + Cardinality(B)]
    BY DEF RecordSearch, StatsAfter
  <2>7. stats[t].hits \in Nat /\ stats[t].misses \in Nat
    BY DEF TypeInv, CountersOK
  <2>8. added[t] = Cardinality(CountedAs(s, t)) /\ addedMisses[t] = Cardinality(B)
    OBVIOUS
  <2> HIDE DEF A, B, added, addedMisses
  <2> QED
    BY <2>2, <2>5, <2>6, <2>7, <2>8
<1>3. SumFunction([t \in Terms |-> stats'[t].hits + stats'[t].misses])
        = SumFunction([t \in Terms |-> stats[t].hits + stats[t].misses]) + SumFunction(added)
  <2> DEFINE before == [t \in Terms |-> stats[t].hits + stats[t].misses]
  <2>1. \A t \in Terms : before[t] \in Int /\ added[t] \in Int
    <3> SUFFICES ASSUME NEW t \in Terms PROVE before[t] \in Int /\ added[t] \in Int
      OBVIOUS
    <3>1. before[t] = stats[t].hits + stats[t].misses
      OBVIOUS
    <3>2. stats[t].hits \in Int /\ stats[t].misses \in Int
      BY <1>2
    <3>3. added[t] \in Int
      BY <1>2
    <3> HIDE DEF before, added
    <3> QED
      BY <3>1, <3>2, <3>3
  <2>2. [t \in Terms |-> stats'[t].hits + stats'[t].misses] = [t \in Terms |-> before[t] + added[t]]
    BY <1>2
  <2>3. DOMAIN before = Terms /\ DOMAIN added = Terms
    OBVIOUS
  <2> HIDE DEF before, added
  <2>4. SumFunction([t \in Terms |-> before[t] + added[t]]) = SumFunction(before) + SumFunction(added)
    BY <2>1, <2>3, FiniteAssumption, SumPlus
  <2> QED
    BY <2>2, <2>4 DEF before
<1>4. SumFunction([t \in Terms |-> stats'[t].misses])
        = SumFunction([t \in Terms |-> stats[t].misses]) + SumFunction(addedMisses)
  <2> DEFINE before == [t \in Terms |-> stats[t].misses]
  <2>1. \A t \in Terms : before[t] \in Int /\ addedMisses[t] \in Int
    BY <1>2
  <2>2. [t \in Terms |-> stats'[t].misses] = [t \in Terms |-> before[t] + addedMisses[t]]
    BY <1>2
  <2>3. DOMAIN before = Terms /\ DOMAIN addedMisses = Terms
    OBVIOUS
  <2> HIDE DEF before, addedMisses
  <2>4. SumFunction([t \in Terms |-> before[t] + addedMisses[t]])
          = SumFunction(before) + SumFunction(addedMisses)
    BY <2>1, <2>3, FiniteAssumption, SumPlus
  <2> QED
    BY <2>2, <2>4 DEF before
<1>5. /\ search' = search /\ counting[s] = "waiting"
      /\ counting'[s] = "done" /\ \A r \in Searches \ {s} : counting'[r] = counting[r]
      /\ daily' = [searches |-> daily.searches + Cardinality(Counted(s)),
                   misses   |-> daily.misses + Cardinality(Counted(s) \intersect missed)]
  BY DEF RecordSearch, TypeInv
<1>6. counted' = counted \union {s} /\ s \notin counted
  BY <1>5
<1>7. \A r \in Searches : (Counted(r))' = Counted(r) /\ (Failed(r))' = Failed(r)
  BY <1>5 DEF Counted, Failed, Lines
<1>8. SumFunction([r \in counted' |-> Cardinality(Counted(r))])
        = Cardinality(Counted(s)) + SumFunction([r \in counted |-> Cardinality(Counted(r))])
  <2> DEFINE after == [r \in counted' |-> Cardinality(Counted(r))]
             before == [r \in counted |-> Cardinality(Counted(r))]
  <2>1. \A r \in Searches : Cardinality(Counted(r)) \in Int
    <3> SUFFICES ASSUME NEW r \in Searches PROVE Cardinality(Counted(r)) \in Int
      OBVIOUS
    <3>1. Counted(r) \in SUBSET Lines(r)
      BY DEF Counted
    <3>2. \A part \in SUBSET Lines(r) : Cardinality(part) \in Nat
      BY CountsAddUp
    <3> HIDE DEF counted
    <3> QED
      BY <3>1, <3>2
  <2>2. IsFiniteSet(counted')
    <3>1. counted' \in SUBSET Searches
      OBVIOUS
    <3> QED
      BY <3>1, FiniteAssumption, FS_Subset
  <2>3. DOMAIN after = counted' /\ DOMAIN before = counted /\ counted = counted' \ {s}
    BY <1>6
  <2>4. /\ \A r \in counted' : after[r] \in Int
        /\ \A r \in counted : before[r] = after[r]
        /\ s \in counted' /\ after[s] = Cardinality(Counted(s))
    BY <1>6, <2>1
  <2> HIDE DEF after, before, counted
  <2>5. SumFunction(after) = after[s] + SumFunction(before)
    BY <2>2, <2>3, <2>4, SumWith
  <2> QED
    BY <2>4, <2>5 DEF after, before
<1>9. ~Failed(s)
  BY <1>5 DEF TypeInv, MessageOK, Failed
<1>10. /\ daily.searches \in Int /\ daily.misses \in Int
       /\ daily'.searches = daily.searches + Cardinality(Counted(s))
       /\ daily'.misses = daily.misses + Cardinality(Counted(s) \intersect missed)
       /\ Cardinality(Counted(s)) \in Int
  <2>1. Counted(s) \in SUBSET Lines(s)
    BY DEF Counted
  <2> QED
    BY <1>1, <1>5, <2>1 DEF TypeInv, CountersOK
<1>11. [r \in counted |-> Cardinality(Counted(r))]' = [r \in counted' |-> Cardinality(Counted(r))]
  BY <1>6, <1>7
<1>12. daily'.searches = SumFunction([t \in Terms |-> stats'[t].hits + stats'[t].misses])
  BY <1>1, <1>3, <1>10 DEF DemandAddsUp
<1>13. daily'.misses = SumFunction([t \in Terms |-> stats'[t].misses])
  BY <1>1, <1>4, <1>10 DEF DemandAddsUp
<1>14. daily.searches = SumFunction([r \in counted |-> Cardinality(Counted(r))])
  BY DEF DemandAddsUp
<1>15. daily'.searches = SumFunction([r \in counted |-> Cardinality(Counted(r))]')
  <2> HIDE DEF counted
  <2> QED
    BY <1>8, <1>10, <1>11, <1>14
<1>16. \A r \in counted' : ~(Failed(r))'
  BY <1>6, <1>7, <1>9 DEF DemandAddsUp
<1> QED
  BY <1>12, <1>13, <1>15, <1>16 DEF DemandAddsUp

LEMMA InitDemand == Init => DemandAddsUp
<1> SUFFICES ASSUME Init PROVE DemandAddsUp
  OBVIOUS
<1> DEFINE counted == {s \in Searches : counting[s] = "done"}
           all == [t \in Terms |-> stats[t].hits + stats[t].misses]
           misses == [t \in Terms |-> stats[t].misses]
<1>1. counted = {} /\ daily.searches = 0 /\ daily.misses = 0
  BY DEF Init
<1>2. ASSUME NEW f, DOMAIN f = Terms, \A t \in Terms : f[t] = 0
      PROVE  SumFunction(f) = 0
  <2> DEFINE none == [t \in {} |-> 0]
  <2>1. DOMAIN none = {}
    OBVIOUS
  <2> HIDE DEF none
  <2>2. SumFunction(f) = SumFunction(none)
    BY <1>2, <2>1, FiniteAssumption, SumOfTheRest
  <2> QED
    BY <2>1, <2>2, SumOfNone
<1>3. SumFunction(all) = 0 /\ SumFunction(misses) = 0
  <2>1. \A t \in Terms : all[t] = 0 /\ misses[t] = 0
    BY DEF Init
  <2>2. DOMAIN all = Terms /\ DOMAIN misses = Terms
    OBVIOUS
  <2> HIDE DEF all, misses
  <2> QED
    BY <1>2, <2>1, <2>2
<1>4. SumFunction([s \in counted |-> Cardinality(Counted(s))]) = 0
  BY <1>1, SumOfNone
<1> QED
  BY <1>1, <1>3, <1>4 DEF DemandAddsUp

LEMMA NextDemand == IInv /\ TypeInv /\ DemandAddsUp /\ [Next]_vars => DemandAddsUp'
<1> SUFFICES ASSUME IInv, TypeInv, DemandAddsUp, [Next]_vars PROVE DemandAddsUp'
  OBVIOUS
<1>1. ASSUME NEW l \in Lists, NEW cards \in Saved, Save(l, cards)
      PROVE  DemandAddsUp'
  BY <1>1, NothingCounted DEF Save
<1>2. ASSUME NEW s \in Searches, NEW lines \in Messages, Ask(s, lines)
      PROVE  DemandAddsUp'
  <2>1. counting[s] = "none" /\ \A r \in Searches \ {s} : search'[r] = search[r]
    BY <1>2 DEF Ask, TypeInv, MessageOK, IInv, Shape
  <2> QED
    BY <1>2, <2>1, NothingCounted DEF Ask
<1>3. ASSUME NEW s \in Searches, Run(s)
      PROVE  DemandAddsUp'
  <2>1. \A r \in Searches \ {s} : search'[r] = search[r]
    BY <1>3 DEF Run, Query, QueryFails, GiveUp, Merge, AttachContacts, Set, IInv, Shape
  <2>2. UNCHANGED <<stats, daily>>
    BY <1>3 DEF Run, Query, QueryFails, GiveUp, Merge, AttachContacts
  <2>3. CASE AttachContacts(s)
    <3>1. search'[s] = [search[s] EXCEPT !.step = "shown"] /\ counting' = counting
      BY <2>3 DEF AttachContacts, Set, IInv, Shape
    <3>2. search'[s].lines = search[s].lines /\ search'[s].slot = search[s].slot
      BY <3>1 DEF IInv, Shape, Fields
    <3> QED
      BY <2>1, <2>2, <3>1, <3>2, NothingCounted
  <2>4. CASE ~AttachContacts(s)
    <3>1. search[s].step = "query" /\ counting[s] = "none"
      BY <1>3, <2>4 DEF Run, Query, QueryFails, GiveUp, Merge, Waited, TypeInv, MessageOK
    <3>2. /\ \A r \in Searches \ {s} : counting'[r] = counting[r]
          /\ counting'[s] \in {"none", "waiting"}
      BY <1>3, <2>4, <3>1 DEF Run, Query, QueryFails, GiveUp, Merge, TypeInv
    <3>3. \A r \in Searches :
            /\ counting'[r] = "done" <=> counting[r] = "done"
            /\ counting[r] = "done" =>
                 search'[r].lines = search[r].lines /\ search'[r].slot = search[r].slot
      BY <2>1, <3>1, <3>2
    <3> QED
      BY <2>2, <3>3, NothingCounted
  <2> QED
    BY <2>3, <2>4
<1>4. ASSUME NEW s \in Searches, RecordSearch(s)
      PROVE  DemandAddsUp'
  BY <1>4, RecordSearchAddsUp
<1>5. ASSUME NEW s \in Searches, RecordSearchFails(s)
      PROVE  DemandAddsUp'
  BY <1>5, NothingCounted DEF RecordSearchFails, TypeInv
<1>6. ASSUME Crash
      PROVE  DemandAddsUp'
  <2>1. ASSUME NEW s \in Searches
        PROVE  /\ counting'[s] = "done" <=> counting[s] = "done"
               /\ search'[s].lines = search[s].lines /\ search'[s].slot = search[s].slot
    BY <1>6 DEF Crash, IInv, Shape, Fields
  <2> QED
    BY <1>6, <2>1, NothingCounted DEF Crash
<1>7. ASSUME vars' = vars
      PROVE  DemandAddsUp'
  BY <1>7, NothingCounted DEF vars
<1> QED
  BY <1>1, <1>2, <1>3, <1>4, <1>5, <1>6, <1>7 DEF Next

(* The day's counters and those of the terms agree, and count each message  *)
(* that was answered in full once, for any messages, terms and failures.   *)
THEOREM DemandIsConsistent == Spec => []DemandAddsUp
BY InitInv, NextInv, InitTypeInv, NextTypeInv, InitDemand, NextDemand, PTL DEF Spec

=============================================================================
